---------------------------- MODULE ServerProofs ----------------------------
(***************************************************************************)
(* Proofs about the routes that keep their state in Redis, for any number  *)
(* of concurrent requests that stop between any two steps: the sponsors'   *)
(* caps, the index's cursor and what it holds of the chain, the .chess     *)
(* names and the dialog that claims them, the streaks and the training     *)
(* record.                                                                 *)
(***************************************************************************)
EXTENDS GasSponsor, StacksSponsor, GameIndex, ClaimModal, Streak, Training,
        FiniteSetTheorems, TLAPS

-----------------------------------------------------------------------------
(* The gas sponsor *)

(* Sets of requests: removing, exchanging and adding one. *)
LEMMA CountCalls ==
  ASSUME NEW S, NEW T, IsFiniteSet(S), NEW c
  PROVE  /\ Cardinality(S) \in Nat
         /\ T \subseteq S => Cardinality(T) <= Cardinality(S) /\ Cardinality(T) \in Nat
         /\ T \subseteq S \cup {c} => Cardinality(T) <= Cardinality(S) + 1 /\ Cardinality(T) \in Nat
         /\ c \in S /\ T \subseteq S \ {c} => Cardinality(T) + 1 <= Cardinality(S) /\ Cardinality(T) \in Nat
<1>1. Cardinality(S) \in Nat
  BY FS_CardinalityType
<1>2. ASSUME T \subseteq S PROVE Cardinality(T) <= Cardinality(S) /\ Cardinality(T) \in Nat
  BY <1>2, FS_Subset, FS_CardinalityType
<1>3. ASSUME T \subseteq S \cup {c} PROVE Cardinality(T) <= Cardinality(S) + 1 /\ Cardinality(T) \in Nat
  <2>1. IsFiniteSet(S \cup {c}) /\ Cardinality(S \cup {c}) <= Cardinality(S) + 1
    BY <1>1, FS_AddElement
  <2>2. Cardinality(T) <= Cardinality(S \cup {c})
    BY <1>3, <2>1, FS_Subset
  <2>3. Cardinality(T) \in Nat /\ Cardinality(S \cup {c}) \in Nat
    BY <1>3, <2>1, FS_Subset, FS_CardinalityType
  <2> QED
    BY <1>1, <2>1, <2>2, <2>3
<1>4. ASSUME c \in S, T \subseteq S \ {c} PROVE Cardinality(T) + 1 <= Cardinality(S) /\ Cardinality(T) \in Nat
  <2>1. IsFiniteSet(S \ {c}) /\ Cardinality(S \ {c}) = Cardinality(S) - 1
    BY <1>4, FS_RemoveElement
  <2>2. Cardinality(T) <= Cardinality(S \ {c})
    BY <1>4, <2>1, FS_Subset
  <2>3. Cardinality(T) \in Nat
    BY <1>4, <2>1, FS_Subset, FS_CardinalityType
  <2> QED
    BY <1>1, <2>1, <2>2, <2>3
<1> QED
  BY <1>1, <1>2, <1>3, <1>4

(* Requests that hold a number of the day and have sent nothing yet. *)
HoldsNumber(c, scope, d) ==
  gasCalls[c].stage \in {"counted", "ready"} /\ gasCalls[c].scope = scope /\ gasCalls[c].day = d

Owed(scope, d) == {c \in SponsorCalls : HoldsNumber(c, scope, d)}

GasTyped ==
  /\ gasCalls \in [SponsorCalls -> GasCall \cup {NoCall}]
  /\ dailyCount \in [GasScopes -> [SponsorDay -> Nat]]
  /\ drips \in [GasScopes -> [SponsorDay -> Nat]]
  /\ today \in SponsorDay

Reserved(scope, d) ==
  /\ drips[scope][d] + Cardinality(Owed(scope, d)) <= dailyCount[scope][d]
  /\ drips[scope][d] + Cardinality(Owed(scope, d)) <= DailyCap

BudgetInv ==
  /\ GasTyped
  /\ \A scope \in GasScopes, d \in SponsorDay : Reserved(scope, d)

LEMMA OwedFinite == \A scope, d : IsFiniteSet(Owed(scope, d))
BY GasSponsorAssumption, FS_Subset DEF Owed

(* Nothing is counted or sent, and no request comes to hold a number. *)
LEMMA NoNumberTaken ==
  ASSUME BudgetInv, GasTyped', UNCHANGED <<dailyCount, drips>>,
         \A c \in SponsorCalls : \A scope, d : HoldsNumber(c, scope, d)' => HoldsNumber(c, scope, d)
  PROVE  BudgetInv'
<1> SUFFICES ASSUME NEW scope \in GasScopes, NEW d \in SponsorDay PROVE Reserved(scope, d)'
  BY DEF BudgetInv
<1>1. Owed(scope, d)' \subseteq Owed(scope, d)
  BY DEF Owed
<1>2. PICK S, T : S = Owed(scope, d) /\ T = Owed(scope, d)'
  OBVIOUS
<1>3. Cardinality(T) <= Cardinality(S) /\ Cardinality(T) \in Nat /\ Cardinality(S) \in Nat
  BY <1>1, <1>2, OwedFinite, CountCalls
<1> QED
  BY <1>2, <1>3, GasSponsorAssumption DEF Reserved, BudgetInv, GasTyped

LEMMA GasCallFields ==
  ASSUME GasTyped, NEW c \in SponsorCalls, gasCalls[c].stage \in GasStages
  PROVE  gasCalls[c] \in GasCall
BY DEF GasTyped, GasCall, NoCall, GasStages

LEMMA GotoKeeps ==
  ASSUME GasTyped, NEW c \in SponsorCalls, NEW stage \in GasStages,
         gasCalls[c].stage \in GasStages, Goto(c, stage),
         stage \in {"counted", "ready"} => gasCalls[c].stage \in {"counted", "ready"}
  PROVE  /\ gasCalls' \in [SponsorCalls -> GasCall \cup {NoCall}]
         /\ \A k \in SponsorCalls : \A scope, d : HoldsNumber(k, scope, d)' => HoldsNumber(k, scope, d)
<1>1. gasCalls[c] \in GasCall
  BY GasCallFields
<1>2. gasCalls' = [gasCalls EXCEPT ![c] = [gasCalls[c] EXCEPT !.stage = stage]]
  BY DEF Goto, GasTyped
<1>3. [gasCalls[c] EXCEPT !.stage = stage] \in GasCall
  BY <1>1 DEF GasCall
<1>4. /\ gasCalls'[c].stage = stage /\ gasCalls'[c].scope = gasCalls[c].scope
      /\ gasCalls'[c].day = gasCalls[c].day
      /\ \A k \in SponsorCalls \ {c} : gasCalls'[k] = gasCalls[k]
  BY <1>1, <1>2 DEF GasTyped, GasCall
<1> QED
  BY <1>2, <1>3, <1>4 DEF GasTyped, HoldsNumber

LEMMA AnswerKeeps ==
  ASSUME GasTyped, NEW c \in SponsorCalls, Answer(c)
  PROVE  /\ gasCalls' \in [SponsorCalls -> GasCall \cup {NoCall}]
         /\ \A k \in SponsorCalls : \A scope, d : HoldsNumber(k, scope, d)' => HoldsNumber(k, scope, d)
BY DEF GasTyped, Answer, HoldsNumber, NoCall

LEMMA AskKeeps ==
  ASSUME BudgetInv, NEW c \in SponsorCalls, NEW request \in GasRequests, NEW w \in Wallets,
         AskGas(c, request, w)
  PROVE  BudgetInv'
<1>1. PICK stage \in {"low", "mintOnly"} :
        gasCalls' = [gasCalls EXCEPT ![c] = [stage |-> stage, scope |-> GasScope(request), address |-> w, day |-> today]]
  BY DEF AskGas
<1>2. GasScope(request) \in GasScopes
  BY DEF GasScope, GasScopes
<1>3. [stage |-> stage, scope |-> GasScope(request), address |-> w, day |-> today] \in GasCall
  BY <1>2 DEF GasCall, GasStages, BudgetInv, GasTyped, SponsorDay
<1>4. GasTyped'
  BY <1>1, <1>3 DEF AskGas, BudgetInv, GasTyped
<1>5. \A k \in SponsorCalls : \A scope, d : HoldsNumber(k, scope, d)' => HoldsNumber(k, scope, d)
  BY <1>1 DEF HoldsNumber, BudgetInv, GasTyped
<1> QED
  BY <1>4, <1>5, NoNumberTaken DEF AskGas

LEMMA CountKeeps ==
  ASSUME BudgetInv, NEW c \in SponsorCalls, CountDrip(c)
  PROVE  BudgetInv'
<1>1. gasCalls[c] \in GasCall /\ gasCalls[c].stage = "locked"
  BY GasCallFields DEF CountDrip, BudgetInv, GasStages
<1>2. PICK scope \in GasScopes : scope = gasCalls[c].scope
  BY <1>1 DEF GasCall
<1>3. today \in SponsorDay /\ dailyCount[scope][today] \in Nat /\ GasTyped
  BY <1>2 DEF BudgetInv, GasTyped
<1>4. PICK n \in Nat : n = dailyCount[scope][today] + 1
  BY <1>3
<1>5. dailyCount' = [dailyCount EXCEPT ![scope] = [dailyCount[scope] EXCEPT ![today] = n]]
  BY <1>2, <1>3, <1>4 DEF CountDrip, BudgetInv, GasTyped
<1>6. /\ dailyCount' \in [GasScopes -> [SponsorDay -> Nat]] /\ dailyCount'[scope][today] = n
      /\ \A s \in GasScopes, d \in SponsorDay :
           s # scope \/ d # today => dailyCount'[s][d] = dailyCount[s][d]
  BY <1>3, <1>5 DEF GasTyped
<1>7. PICK stage \in {"over", "counted"} :
        /\ stage = "counted" => n <= DailyCap
        /\ gasCalls' = [gasCalls EXCEPT ![c] = [[gasCalls[c] EXCEPT !.day = today] EXCEPT !.stage = stage]]
  <2>1. PICK stage : stage = IF dailyCount'[scope][today] > DailyCap THEN "over" ELSE "counted"
    OBVIOUS
  <2>2. gasCalls' = [gasCalls EXCEPT ![c] = [[gasCalls[c] EXCEPT !.day = today] EXCEPT !.stage = stage]]
    BY <1>1, <1>2, <1>3, <2>1 DEF CountDrip, GasTyped
  <2>3. stage \in {"over", "counted"}
    BY <2>1
  <2>4. stage = "counted" => n <= DailyCap
    BY <1>4, <1>6, <2>1, GasSponsorAssumption
  <2> QED
    BY <2>2, <2>3, <2>4
<1>8. [gasCalls[c] EXCEPT !.day = today] \in GasCall
  BY <1>1, <1>3 DEF GasCall, SponsorDay
<1>9. [[gasCalls[c] EXCEPT !.day = today] EXCEPT !.stage = stage] \in GasCall
  BY <1>8 DEF GasCall, GasStages
<1>10. GasTyped'
  <2>1. gasCalls' \in [SponsorCalls -> GasCall \cup {NoCall}]
    BY <1>3, <1>7, <1>9 DEF GasTyped
  <2> QED
    BY <1>3, <1>6, <2>1 DEF CountDrip, GasTyped
<1>11. /\ gasCalls'[c].stage = stage /\ gasCalls'[c].scope = scope /\ gasCalls'[c].day = today
       /\ \A k \in SponsorCalls \ {c} : gasCalls'[k] = gasCalls[k]
  BY <1>1, <1>2, <1>3, <1>7 DEF GasTyped, GasCall
<1>12. ASSUME NEW s \in GasScopes, NEW d \in SponsorDay PROVE Reserved(s, d)'
  <2>1. PICK S, T : S = Owed(s, d) /\ T = Owed(s, d)'
    OBVIOUS
  <2>2. IsFiniteSet(S) /\ drips' = drips
    BY <2>1, OwedFinite DEF CountDrip
  <2>3. Reserved(s, d) /\ drips[s][d] \in Nat /\ dailyCount[s][d] \in Nat
    BY DEF BudgetInv, GasTyped
  <2>4. CASE s = scope /\ d = today /\ stage = "counted"
    <3>1. T \subseteq S \cup {c}
      BY <1>11, <2>1 DEF Owed, HoldsNumber
    <3>2. Cardinality(T) <= Cardinality(S) + 1 /\ Cardinality(T) \in Nat /\ Cardinality(S) \in Nat
      BY <2>2, <3>1, CountCalls
    <3> QED
      BY <1>4, <1>6, <1>7, <2>1, <2>2, <2>3, <2>4, <3>2, GasSponsorAssumption DEF Reserved
  <2>5. CASE ~(s = scope /\ d = today /\ stage = "counted")
    <3>1. T \subseteq S
      BY <1>11, <2>1, <2>5 DEF Owed, HoldsNumber
    <3>2. Cardinality(T) <= Cardinality(S) /\ Cardinality(T) \in Nat /\ Cardinality(S) \in Nat
      BY <2>2, <3>1, CountCalls
    <3>3. dailyCount'[s][d] \in Nat /\ dailyCount'[s][d] >= dailyCount[s][d]
      BY <1>4, <1>6, <2>3
    <3> QED
      BY <2>1, <2>2, <2>3, <3>2, <3>3, GasSponsorAssumption DEF Reserved
  <2> QED
    BY <2>4, <2>5
<1> QED
  BY <1>10, <1>12 DEF BudgetInv

LEMMA SendKeeps ==
  ASSUME BudgetInv, NEW c \in SponsorCalls, SendDrip(c)
  PROVE  BudgetInv'
<1>1. gasCalls[c] \in GasCall /\ gasCalls[c].stage = "ready" /\ Goto(c, "sent") /\ GasTyped
  BY GasCallFields DEF SendDrip, BudgetInv, GasStages
<1>2. PICK scope \in GasScopes, day \in SponsorDay : scope = gasCalls[c].scope /\ day = gasCalls[c].day
  BY <1>1 DEF GasCall, SponsorDay
<1>3. PICK n \in Nat : n = drips[scope][day] + 1
  BY <1>1 DEF GasTyped
<1>4. drips' = [drips EXCEPT ![scope] = [drips[scope] EXCEPT ![day] = n]]
  BY <1>1, <1>2, <1>3 DEF SendDrip, GasTyped
<1>5. /\ drips' \in [GasScopes -> [SponsorDay -> Nat]] /\ drips'[scope][day] = n
      /\ \A s \in GasScopes, d \in SponsorDay : s # scope \/ d # day => drips'[s][d] = drips[s][d]
  BY <1>1, <1>4 DEF GasTyped
<1>6. /\ gasCalls' \in [SponsorCalls -> GasCall \cup {NoCall}]
      /\ \A k \in SponsorCalls : \A s, d : HoldsNumber(k, s, d)' => HoldsNumber(k, s, d)
  BY <1>1, GotoKeeps DEF GasStages
<1>7. gasCalls'[c].stage = "sent"
  BY <1>1 DEF Goto, GasTyped, GasCall
<1>8. GasTyped'
  BY <1>1, <1>5, <1>6 DEF SendDrip, GasTyped
<1>9. ASSUME NEW s \in GasScopes, NEW d \in SponsorDay PROVE Reserved(s, d)'
  <2>1. PICK S, T : S = Owed(s, d) /\ T = Owed(s, d)'
    OBVIOUS
  <2>2. IsFiniteSet(S) /\ dailyCount' = dailyCount
    BY <2>1, OwedFinite DEF SendDrip
  <2>3. Reserved(s, d) /\ drips[s][d] \in Nat /\ dailyCount[s][d] \in Nat
    BY <1>1 DEF BudgetInv, GasTyped
  <2>4. CASE s = scope /\ d = day
    <3>1. c \in S
      BY <1>1, <1>2, <2>1, <2>4 DEF Owed, HoldsNumber
    <3>2. T \subseteq S \ {c}
      BY <1>6, <1>7, <2>1 DEF Owed, HoldsNumber
    <3>3. Cardinality(T) + 1 <= Cardinality(S) /\ Cardinality(T) \in Nat /\ Cardinality(S) \in Nat
      BY <2>2, <3>1, <3>2, CountCalls
    <3> QED
      BY <1>3, <1>5, <2>1, <2>2, <2>3, <2>4, <3>3, GasSponsorAssumption DEF Reserved
  <2>5. CASE ~(s = scope /\ d = day)
    <3>1. T \subseteq S
      BY <1>6, <2>1 DEF Owed
    <3>2. Cardinality(T) <= Cardinality(S) /\ Cardinality(T) \in Nat /\ Cardinality(S) \in Nat
      BY <2>2, <3>1, CountCalls
    <3> QED
      BY <1>5, <2>1, <2>2, <2>3, <2>5, <3>2, GasSponsorAssumption DEF Reserved
  <2> QED
    BY <2>4, <2>5
<1> QED
  BY <1>8, <1>9 DEF BudgetInv

LEMMA CallStepKeeps ==
  ASSUME BudgetInv, NEW c \in SponsorCalls,
         \/ CanCover(c) \/ ReadGasCooldown(c) \/ TakeGasLock(c)
         \/ MintChess(c) \/ NoMintNeeded(c) \/ DripMined(c)
         \/ SetGasCooldown(c) \/ ReleaseGasLock(c) \/ DripThrows(c) \/ GasCallEnds(c)
  PROVE  BudgetInv'
<1>1. UNCHANGED <<dailyCount, drips, today>> /\ GasTyped
  BY DEF CanCover, ReadGasCooldown, TakeGasLock, MintChess, NoMintNeeded, DripMined,
     SetGasCooldown, ReleaseGasLock, DripThrows, GasCallEnds, BudgetInv
<1>2. \/ Answer(c)
      \/ \E stage \in GasStages :
           /\ gasCalls[c].stage \in GasStages /\ Goto(c, stage)
           /\ stage \in {"counted", "ready"} => gasCalls[c].stage \in {"counted", "ready"}
  BY DEF CanCover, ReadGasCooldown, TakeGasLock, MintChess, NoMintNeeded, DripMined,
     SetGasCooldown, ReleaseGasLock, DripThrows, GasCallEnds, GasStages
<1>3. /\ gasCalls' \in [SponsorCalls -> GasCall \cup {NoCall}]
      /\ \A k \in SponsorCalls : \A scope, d : HoldsNumber(k, scope, d)' => HoldsNumber(k, scope, d)
  <2>1. CASE Answer(c)
    BY <1>1, <2>1, AnswerKeeps
  <2>2. CASE \E stage \in GasStages :
           /\ gasCalls[c].stage \in GasStages /\ Goto(c, stage)
           /\ stage \in {"counted", "ready"} => gasCalls[c].stage \in {"counted", "ready"}
    BY <1>1, <2>2, GotoKeeps
  <2> QED
    BY <1>2, <2>1, <2>2
<1> QED
  BY <1>1, <1>3, NoNumberTaken DEF GasTyped

LEMMA BudgetStarts == GasInit => BudgetInv
<1> SUFFICES ASSUME GasInit PROVE BudgetInv
  OBVIOUS
<1>1. GasTyped
  BY GasSponsorAssumption DEF GasInit, GasTyped, SponsorDay
<1>2. \A scope, d : Owed(scope, d) = {}
  BY DEF GasInit, Owed, HoldsNumber, NoCall
<1> QED
  <2>1. \A scope \in GasScopes, d \in SponsorDay : drips[scope][d] = 0 /\ dailyCount[scope][d] = 0
    BY DEF GasInit
  <2>2. Cardinality({}) = 0
    BY FS_EmptySet
  <2>3. \A scope \in GasScopes, d \in SponsorDay : Reserved(scope, d)
    <3> SUFFICES ASSUME NEW scope \in GasScopes, NEW d \in SponsorDay PROVE Reserved(scope, d)
      OBVIOUS
    <3>1. Cardinality(Owed(scope, d)) = 0
      BY <1>2, <2>2
    <3> QED
      BY <2>1, <3>1, GasSponsorAssumption DEF Reserved
  <2> QED
    BY <1>1, <2>3 DEF BudgetInv

LEMMA BudgetSteps == BudgetInv /\ SponsorOp => BudgetInv'
<1> SUFFICES ASSUME BudgetInv, SponsorOp PROVE BudgetInv'
  OBVIOUS
<1>1. ASSUME UNCHANGED <<gasCalls, dailyCount, drips>>, today' \in SponsorDay PROVE BudgetInv'
  BY <1>1, NoNumberTaken DEF BudgetInv, GasTyped, HoldsNumber
<1>2. CASE \E scope \in GasScopes, w \in Wallets :
             \/ AdriftMined(scope, w) \/ SpendGas(scope, w)
             \/ GasLockExpires(<<scope, w>>) \/ GasCooldownExpires(<<scope, w>>)
  BY <1>1, <1>2 DEF AdriftMined, SpendGas, GasLockExpires, GasCooldownExpires, BudgetInv, GasTyped
<1>3. CASE NextDay
  BY <1>1, <1>3, GasSponsorAssumption DEF NextDay, BudgetInv, GasTyped, SponsorDay
<1>4. CASE \E w \in Wallets : SpendChess(w)
  BY <1>1, <1>4 DEF SpendChess, BudgetInv, GasTyped
<1> QED
  BY <1>2, <1>3, <1>4, AskKeeps, CountKeeps, SendKeeps, CallStepKeeps DEF SponsorOp

LEMMA BudgetInvariant == SponsorSpec => []BudgetInv
<1>1. BudgetInv /\ UNCHANGED gasVars => BudgetInv'
  BY NoNumberTaken DEF gasVars, BudgetInv, GasTyped, HoldsNumber
<1> QED BY <1>1, BudgetStarts, BudgetSteps, PTL DEF SponsorSpec

(* The float is safe on every day: whatever expires, throws or is retried, *)
(* what is charged to a day stays within DAILY_CAP of its scope.           *)
THEOREM BudgetAlwaysKept == SponsorSpec => []BudgetKept
<1>2. BudgetInv => BudgetKept
  <2> SUFFICES ASSUME BudgetInv, NEW scope \in GasScopes, NEW d \in SponsorDay
               PROVE  drips[scope][d] <= DailyCap
    BY DEF BudgetKept
  <2>1. PICK S : S = Owed(scope, d)
    OBVIOUS
  <2>2. Cardinality(S) \in Nat
    BY <2>1, OwedFinite, FS_CardinalityType
  <2> QED
    BY <2>1, <2>2, GasSponsorAssumption DEF BudgetInv, Reserved, GasTyped
<1> QED
  BY <1>2, BudgetInvariant, PTL

(* The coins, the keys and the transfers on their way have their types.    *)
CoinsTyped ==
  /\ gas \in [GasScopes -> [Wallets -> Nat]]
  /\ chessLow \subseteq Wallets
  /\ float \in [GasScopes -> Nat]
  /\ gasCooldown \subseteq GasScopes \X Wallets
  /\ gasLock \subseteq GasScopes \X Wallets
  /\ adrift \in [GasScopes -> [Wallets -> Nat]]

LEMMA TableEntry ==
  ASSUME NEW S, NEW W, NEW table \in [S -> [W -> Nat]], NEW s \in S, NEW w \in W, NEW n \in Nat
  PROVE  [table EXCEPT ![s][w] = n] \in [S -> [W -> Nat]] /\ table[s][w] \in Nat
<1>1. [table EXCEPT ![s][w] = n] = [table EXCEPT ![s] = [table[s] EXCEPT ![w] = n]]
  OBVIOUS
<1>2. table[s] \in [W -> Nat]
  OBVIOUS
<1>3. [table[s] EXCEPT ![w] = n] \in [W -> Nat] /\ table[s][w] \in Nat
  BY <1>2
<1> QED BY <1>1, <1>3

LEMMA CoinSteps ==
  ASSUME GasTyped, CoinsTyped, SponsorOp
  PROVE  CoinsTyped'
<1>1. ASSUME NEW c \in SponsorCalls, gasCalls[c].stage \in GasStages
      PROVE  /\ gasCalls[c].scope \in GasScopes /\ gasCalls[c].address \in Wallets
             /\ Key(c) \in GasScopes \X Wallets
  <2>1. gasCalls[c] \in GasCall
    BY <1>1, GasCallFields
  <2>2. gasCalls[c].scope \in GasScopes /\ gasCalls[c].address \in Wallets
    BY <2>1 DEF GasCall
  <2> QED BY <2>2 DEF Key
<1>2. CASE \E c \in SponsorCalls :
             \/ \E request \in GasRequests, w \in Wallets : AskGas(c, request, w)
             \/ CanCover(c) \/ ReadGasCooldown(c) \/ CountDrip(c) \/ NoMintNeeded(c)
  BY <1>2 DEF AskGas, CanCover, ReadGasCooldown, CountDrip, NoMintNeeded, CoinsTyped
<1>3. ASSUME NEW c \in SponsorCalls,
             TakeGasLock(c) \/ MintChess(c) \/ SetGasCooldown(c) \/ ReleaseGasLock(c)
      PROVE  CoinsTyped'
  BY <1>1, <1>3 DEF TakeGasLock, MintChess, SetGasCooldown, ReleaseGasLock, CoinsTyped, GasStages
<1>4. ASSUME NEW c \in SponsorCalls, SendDrip(c)
      PROVE  CoinsTyped'
  <2>1. gasCalls[c].scope \in GasScopes
    BY <1>1, <1>4 DEF SendDrip, GasStages
  <2>2. float[gasCalls[c].scope] \in Nat /\ float[gasCalls[c].scope] >= 1
    BY <1>4, <2>1 DEF SendDrip, CoinsTyped
  <2>3. float[gasCalls[c].scope] - 1 \in Nat
    BY <2>2
  <2> QED BY <1>4, <2>1, <2>3 DEF SendDrip, CoinsTyped
<1>5. ASSUME NEW c \in SponsorCalls, DripMined(c)
      PROVE  CoinsTyped'
  <2> DEFINE scope == gasCalls[c].scope
             w == gasCalls[c].address
             n == gas[scope][w] + 1
  <2>1. scope \in GasScopes /\ w \in Wallets
    BY <1>1, <1>5 DEF DripMined, GasStages
  <2>2. gas[scope][w] \in Nat
    <3> HIDE DEF scope, w
    <3> QED BY <2>1, TableEntry DEF CoinsTyped
  <2>3. n \in Nat /\ gas' = [gas EXCEPT ![scope][w] = n]
    BY <1>5, <2>2 DEF DripMined
  <2> HIDE DEF n, scope, w
  <2>4. gas' \in [GasScopes -> [Wallets -> Nat]]
    BY <2>1, <2>3, TableEntry DEF CoinsTyped
  <2> QED BY <1>5, <2>4 DEF DripMined, CoinsTyped
<1>6. ASSUME NEW c \in SponsorCalls, DripThrows(c) \/ GasCallEnds(c)
      PROVE  CoinsTyped'
  <2> DEFINE scope == gasCalls[c].scope
             w == gasCalls[c].address
             n == adrift[scope][w] + 1
  <2>1. UNCHANGED <<gas, chessLow, float, gasCooldown, gasLock>>
    BY <1>6 DEF DripThrows, GasCallEnds
  <2>2. CASE adrift' = adrift
    BY <2>1, <2>2 DEF CoinsTyped
  <2>3. CASE gasCalls[c].stage = "sent" /\ adrift' = [adrift EXCEPT ![scope][w] = n]
    <3>1. scope \in GasScopes /\ w \in Wallets
      BY <1>1, <2>3 DEF GasStages
    <3>2. adrift[scope][w] \in Nat
      <4> HIDE DEF scope, w
      <4> QED BY <3>1, TableEntry DEF CoinsTyped
    <3>3. n \in Nat
      BY <3>2
    <3> HIDE DEF n, scope, w
    <3>4. adrift' \in [GasScopes -> [Wallets -> Nat]]
      BY <2>3, <3>1, <3>3, TableEntry DEF CoinsTyped
    <3> QED BY <2>1, <3>4 DEF CoinsTyped
  <2> QED BY <1>6, <2>2, <2>3 DEF DripThrows, GasCallEnds
<1>7. ASSUME NEW scope \in GasScopes, NEW w \in Wallets, AdriftMined(scope, w)
      PROVE  CoinsTyped'
  <2>1. gas[scope][w] \in Nat /\ adrift[scope][w] \in Nat /\ adrift[scope][w] > 0
    BY <1>7, TableEntry DEF CoinsTyped, AdriftMined
  <2>2. gas[scope][w] + 1 \in Nat /\ adrift[scope][w] - 1 \in Nat
    BY <2>1
  <2>3. /\ gas' \in [GasScopes -> [Wallets -> Nat]]
        /\ adrift' \in [GasScopes -> [Wallets -> Nat]]
    BY <1>7, <2>2, TableEntry DEF CoinsTyped, AdriftMined
  <2> QED BY <1>7, <2>3 DEF CoinsTyped, AdriftMined
<1>8. ASSUME NEW scope \in GasScopes, NEW w \in Wallets,
             SpendGas(scope, w) \/ GasLockExpires(<<scope, w>>) \/ GasCooldownExpires(<<scope, w>>)
      PROVE  CoinsTyped'
  <2>1. SpendGas(scope, w) => gas' \in [GasScopes -> [Wallets -> Nat]]
    BY TableEntry DEF SpendGas, CoinsTyped
  <2> QED BY <1>8, <2>1 DEF SpendGas, GasLockExpires, GasCooldownExpires, CoinsTyped
<1>9. CASE NextDay \/ \E w \in Wallets : SpendChess(w)
  BY <1>9 DEF NextDay, SpendChess, CoinsTyped
<1> QED BY <1>2, <1>3, <1>4, <1>5, <1>6, <1>7, <1>8, <1>9 DEF SponsorOp

(* Balances, the float and what is on its way never go below nothing, and  *)
(* locks and cooldowns are of real scopes and wallets.                     *)
THEOREM GasStaysTyped == SponsorSpec => []GasTypeOK
<1>1. BudgetInv => GasTyped
  BY DEF BudgetInv
<1>2. GasInit => CoinsTyped
  BY GasSponsorAssumption DEF GasInit, CoinsTyped
<1>3. GasTyped /\ CoinsTyped /\ [SponsorOp]_gasVars => CoinsTyped'
  BY CoinSteps DEF gasVars, CoinsTyped
<1>4. GasTyped /\ CoinsTyped => GasTypeOK
  BY DEF GasTyped, CoinsTyped, GasTypeOK
<1> QED BY <1>1, <1>2, <1>3, <1>4, BudgetInvariant, PTL DEF SponsorSpec
-----------------------------------------------------------------------------
(* The Stacks sponsor *)

(* The lives of a counter. *)
Lives == 1..CounterPeriods

(* Calls that were counted in a life of the counter and not broadcast yet. *)
Pending(c, a, n) ==
  /\ stxCalls[c].stage \in {"first", "counted", "sponsoring"}
  /\ stxCalls[c].address = a /\ stxCalls[c].period = n

Due(a, n) == {c \in StxCalls : Pending(c, a, n)}

StxTyped ==
  /\ stxCalls \in [StxCalls -> StxCall \cup {NoStxCall}]
  /\ callCount \in [StxPlayers -> Nat]
  /\ period \in [StxPlayers -> Lives]
  /\ paid \in [StxPlayers -> [Lives -> Nat]]

Charged(a, n) == paid[a][n] + Cardinality(Due(a, n))

Capped(a, n) ==
  /\ Charged(a, n) <= CallCap
  /\ n = period[a] => Charged(a, n) <= callCount[a]
  /\ n > period[a] => Charged(a, n) = 0

CapInv ==
  /\ StxTyped
  /\ \A a \in StxPlayers, n \in Lives : Capped(a, n)

(* A server without Redis counts nothing. *)
LimitInv == stxRedis => CapInv

LEMMA DueFinite == \A a, n : IsFiniteSet(Due(a, n))
BY StacksSponsorAssumption, FS_Subset DEF Due

LEMMA ChargedNat ==
  ASSUME StxTyped, NEW a \in StxPlayers, NEW n \in Lives
  PROVE  Charged(a, n) \in Nat /\ paid[a][n] \in Nat /\ Cardinality(Due(a, n)) \in Nat
<1>1. PICK S : S = Due(a, n)
  OBVIOUS
<1>2. Cardinality(S) \in Nat
  BY <1>1, DueFinite, FS_CardinalityType
<1> QED
  BY <1>1, <1>2 DEF Charged, StxTyped

(* Nothing is broadcast and no call comes to be counted. *)
LEMMA NothingCharged ==
  ASSUME CapInv, StxTyped', UNCHANGED paid,
         NEW a \in StxPlayers, NEW n \in Lives,
         \A c \in StxCalls : Pending(c, a, n)' => Pending(c, a, n)
  PROVE  Charged(a, n)' <= Charged(a, n)
<1>1. Due(a, n)' \subseteq Due(a, n)
  BY DEF Due
<1>2. PICK S, T : S = Due(a, n) /\ T = Due(a, n)'
  OBVIOUS
<1>3. Cardinality(T) <= Cardinality(S) /\ Cardinality(T) \in Nat /\ Cardinality(S) \in Nat
  BY <1>1, <1>2, DueFinite, CountCalls
<1> QED
  BY <1>2, <1>3 DEF Charged, CapInv, StxTyped

LEMMA QuietCall ==
  ASSUME CapInv, StxTyped', UNCHANGED <<paid, callCount, period>>,
         \A c \in StxCalls : \A a, n : Pending(c, a, n)' => Pending(c, a, n)
  PROVE  CapInv'
<1> SUFFICES ASSUME NEW a \in StxPlayers, NEW n \in Lives PROVE Capped(a, n)'
  BY DEF CapInv
<1>1. Charged(a, n)' <= Charged(a, n)
  BY NothingCharged
<1>2. Charged(a, n) \in Nat /\ callCount[a] \in Nat /\ period[a] \in Nat
  BY ChargedNat DEF CapInv, StxTyped, Lives
<1>3. Charged(a, n)' \in Nat
  <2>1. PICK T : T = Due(a, n)'
    OBVIOUS
  <2>2. T \subseteq Due(a, n)
    BY <2>1 DEF Due
  <2>3. Cardinality(T) \in Nat
    BY <2>2, DueFinite, FS_Subset, FS_CardinalityType
  <2> QED
    BY <2>1, <2>3 DEF Charged, StxTyped
<1> QED
  BY <1>1, <1>2, <1>3, StacksSponsorAssumption DEF Capped, CapInv

LEMMA StxCallFields ==
  ASSUME StxTyped, NEW c \in StxCalls, stxCalls[c].stage \in StxStages
  PROVE  stxCalls[c] \in StxCall
BY DEF StxTyped, StxCall, NoStxCall, StxStages

LEMMA StxAnswerKeeps ==
  ASSUME StxTyped, NEW c \in StxCalls, StxAnswer(c)
  PROVE  /\ stxCalls' \in [StxCalls -> StxCall \cup {NoStxCall}]
         /\ stxCalls'[c].stage = "idle"
         /\ \A k \in StxCalls : \A a, n : Pending(k, a, n)' => Pending(k, a, n)
BY DEF StxTyped, StxAnswer, Pending, NoStxCall

LEMMA StxStageKeeps ==
  ASSUME StxTyped, NEW c \in StxCalls, NEW stage \in {"counted", "sponsoring"},
         stxCalls[c].stage \in {"first", "counted"},
         stxCalls' = [stxCalls EXCEPT ![c].stage = stage]
  PROVE  /\ stxCalls' \in [StxCalls -> StxCall \cup {NoStxCall}]
         /\ \A k \in StxCalls : \A a, n : Pending(k, a, n)' => Pending(k, a, n)
<1>1. stxCalls[c] \in StxCall
  BY StxCallFields DEF StxStages
<1>2. stxCalls' = [stxCalls EXCEPT ![c] = [stxCalls[c] EXCEPT !.stage = stage]]
  BY DEF StxTyped
<1>3. [stxCalls[c] EXCEPT !.stage = stage] \in StxCall
  BY <1>1 DEF StxCall, StxStages
<1>4. /\ stxCalls'[c].stage = stage /\ stxCalls'[c].address = stxCalls[c].address
      /\ stxCalls'[c].period = stxCalls[c].period
      /\ \A k \in StxCalls \ {c} : stxCalls'[k] = stxCalls[k]
  BY <1>1, <1>2 DEF StxTyped, StxCall
<1> QED
  BY <1>2, <1>3, <1>4 DEF StxTyped, Pending

LEMMA StxQuietSteps ==
  ASSUME CapInv, NEW c \in StxCalls,
         \/ \E a \in StxPlayers : ClaimCooldown(c, a)
         \/ ExpireCounter(c) \/ StxCallEnds(c)
         \/ \E ok \in BOOLEAN : SponsorCall(c, ok)
         \/ BroadcastCall(c, FALSE)
  PROVE  CapInv'
<1>1. UNCHANGED <<paid, callCount, period>> /\ StxTyped
  BY DEF ClaimCooldown, ExpireCounter, StxCallEnds, SponsorCall, BroadcastCall, CapInv
<1>2. /\ stxCalls' \in [StxCalls -> StxCall \cup {NoStxCall}]
      /\ \A k \in StxCalls : \A a, n : Pending(k, a, n)' => Pending(k, a, n)
  <2>1. CASE \E a \in StxPlayers : ClaimCooldown(c, a)
    <3>1. PICK a \in StxPlayers : stxCalls' = [stxCalls EXCEPT ![c] =
                                    [stage |-> "cooled", address |-> a, period |-> period[a]]]
      BY <2>1 DEF ClaimCooldown
    <3>2. [stage |-> "cooled", address |-> a, period |-> period[a]] \in StxCall
      BY <1>1 DEF StxCall, StxStages, StxTyped, Lives
    <3> QED
      BY <1>1, <3>1, <3>2 DEF StxTyped, Pending
  <2>2. CASE StxAnswer(c)
    BY <1>1, <2>2, StxAnswerKeeps
  <2>3. CASE \E stage \in {"counted", "sponsoring"} :
               stxCalls[c].stage \in {"first", "counted"} /\ stxCalls' = [stxCalls EXCEPT ![c].stage = stage]
    BY <1>1, <2>3, StxStageKeeps
  <2> QED
    BY <2>1, <2>2, <2>3 DEF ExpireCounter, StxCallEnds, SponsorCall, BroadcastCall
<1> QED
  BY <1>1, <1>2, QuietCall DEF StxTyped

LEMMA CountCallKeeps ==
  ASSUME CapInv, NEW c \in StxCalls, CountCall(c)
  PROVE  CapInv'
<1>1. stxCalls[c] \in StxCall /\ stxCalls[c].stage = "cooled" /\ StxTyped
  BY StxCallFields DEF CountCall, CapInv, StxStages
<1>2. PICK a \in StxPlayers : a = stxCalls[c].address
  BY <1>1 DEF StxCall, Lives
<1>3. PICK m \in Nat : m = callCount[a] + 1
  BY <1>1 DEF StxTyped
<1>4. callCount' = [callCount EXCEPT ![a] = m] /\ UNCHANGED <<paid, period>>
  BY <1>2, <1>3 DEF CountCall
<1>5. callCount' \in [StxPlayers -> Nat] /\ callCount'[a] = m /\ m > callCount[a]
      /\ \A b \in StxPlayers \ {a} : callCount'[b] = callCount[b]
  BY <1>1, <1>3, <1>4 DEF StxTyped
<1>6. PICK now \in Lives : now = period[a]
  BY <1>1 DEF StxTyped
<1>7. CASE m > CallCap
  <2>1. StxAnswer(c)
    BY <1>2, <1>5, <1>7 DEF CountCall
  <2>2. StxTyped'
    BY <1>1, <1>4, <1>5, <2>1, StxAnswerKeeps DEF StxTyped
  <2>3. ASSUME NEW b \in StxPlayers, NEW n \in Lives PROVE Capped(b, n)'
    <3>1. Charged(b, n)' <= Charged(b, n)
      BY <1>1, <1>4, <2>1, <2>2, StxAnswerKeeps, NothingCharged
    <3>2. PICK x, y : x = Charged(b, n) /\ y = Charged(b, n)'
      OBVIOUS
    <3>3. x \in Nat
      BY <1>1, <3>2, ChargedNat
    <3>4. y \in Nat
      <4>1. PICK T : T = Due(b, n)'
        OBVIOUS
      <4>2. T \subseteq Due(b, n)
        BY <1>1, <2>1, <4>1, StxAnswerKeeps DEF Due
      <4>3. Cardinality(T) \in Nat
        BY <4>2, DueFinite, FS_Subset, FS_CardinalityType
      <4> QED
        BY <2>2, <3>2, <4>1, <4>3 DEF Charged, StxTyped
    <3>5. Capped(b, n) /\ callCount[b] \in Nat /\ callCount'[b] \in Nat /\ callCount'[b] >= callCount[b]
      BY <1>1, <1>3, <1>5 DEF CapInv, StxTyped
    <3>6. period'[b] = period[b] /\ period[b] \in Nat
      BY <1>1, <1>4 DEF StxTyped, Lives
    <3> QED
      BY <3>1, <3>2, <3>3, <3>4, <3>5, <3>6, StacksSponsorAssumption DEF Capped
  <2> QED
    BY <2>2, <2>3 DEF CapInv
<1>8. CASE ~(m > CallCap)
  <2>1. PICK stage \in {"first", "counted"} : stxCalls' = [stxCalls EXCEPT ![c] =
           [stage |-> stage, address |-> a, period |-> now]]
    <3>1. ~(callCount'[a] > CallCap)
      BY <1>5, <1>8
    <3>2. PICK stage : stage = IF callCount[a] = 0 THEN "first" ELSE "counted"
      OBVIOUS
    <3>3. stxCalls' = [stxCalls EXCEPT ![c] = [stage |-> stage, address |-> a, period |-> now]]
      BY <1>2, <1>6, <3>1, <3>2 DEF CountCall
    <3> QED
      BY <3>2, <3>3
  <2>2. [stage |-> stage, address |-> a, period |-> now] \in StxCall
    BY DEF StxCall, StxStages, Lives
  <2>3. StxTyped'
    <3>1. stxCalls' \in [StxCalls -> StxCall \cup {NoStxCall}]
      BY <1>1, <2>1, <2>2 DEF StxTyped
    <3> QED
      BY <1>1, <1>4, <1>5, <3>1 DEF StxTyped
  <2>4. /\ stxCalls'[c].address = a /\ stxCalls'[c].period = now
        /\ \A k \in StxCalls \ {c} : stxCalls'[k] = stxCalls[k]
    BY <1>1, <2>1 DEF StxTyped
  <2>5. ASSUME NEW b \in StxPlayers, NEW n \in Lives PROVE Capped(b, n)'
    <3>1. PICK S, T : S = Due(b, n) /\ T = Due(b, n)'
      OBVIOUS
    <3>2. IsFiniteSet(S)
      BY <3>1, DueFinite
    <3>3. PICK p \in Nat : p = paid[b][n] /\ p = paid'[b][n]
      BY <1>1, <1>4 DEF StxTyped
    <3>4. Charged(b, n) = p + Cardinality(S) /\ Charged(b, n)' = p + Cardinality(T)
      BY <3>1, <3>3 DEF Charged
    <3>5. Capped(b, n) /\ callCount[b] \in Nat /\ callCount'[b] \in Nat /\ callCount'[b] >= callCount[b]
      BY <1>1, <1>3, <1>5 DEF CapInv, StxTyped
    <3>6. period'[b] = period[b] /\ period[b] \in Nat
      BY <1>1, <1>4 DEF StxTyped, Lives
    <3>7. CASE b = a /\ n = now
      <4>1. T \subseteq S \cup {c}
        BY <2>4, <3>1 DEF Due, Pending
      <4>2. Cardinality(T) <= Cardinality(S) + 1 /\ Cardinality(T) \in Nat /\ Cardinality(S) \in Nat
        BY <3>2, <4>1, CountCalls
      <4>3. p + Cardinality(S) <= callCount[a]
        BY <1>6, <3>4, <3>5, <3>7 DEF Capped
      <4>4. p + Cardinality(T) <= m /\ m <= CallCap
        BY <1>1, <1>3, <1>8, <4>2, <4>3, StacksSponsorAssumption DEF StxTyped
      <4> QED
        BY <1>3, <1>5, <1>6, <3>4, <3>6, <3>7, <4>2, <4>4, StacksSponsorAssumption DEF Capped, Lives
    <3>8. CASE ~(b = a /\ n = now)
      <4>1. T \subseteq S
        BY <2>4, <3>1, <3>8 DEF Due, Pending
      <4>2. Cardinality(T) <= Cardinality(S) /\ Cardinality(T) \in Nat /\ Cardinality(S) \in Nat
        BY <3>2, <4>1, CountCalls
      <4> QED
        BY <3>3, <3>4, <3>5, <3>6, <4>2, StacksSponsorAssumption DEF Capped
    <3> QED
      BY <3>7, <3>8
  <2> QED
    BY <2>3, <2>5 DEF CapInv
<1> QED
  BY <1>7, <1>8

LEMMA BroadcastKeeps ==
  ASSUME CapInv, NEW c \in StxCalls, BroadcastCall(c, TRUE)
  PROVE  CapInv'
<1>1. stxCalls[c] \in StxCall /\ stxCalls[c].stage = "sponsoring" /\ StxAnswer(c) /\ StxTyped
  BY StxCallFields DEF BroadcastCall, CapInv, StxStages
<1>2. PICK a \in StxPlayers, now \in Lives : a = stxCalls[c].address /\ now = stxCalls[c].period
  BY <1>1 DEF StxCall, Lives
<1>3. PICK m \in Nat : m = paid[a][now] + 1
  BY <1>1 DEF StxTyped
<1>4. /\ paid' = [paid EXCEPT ![a] = [paid[a] EXCEPT ![now] = m]]
      /\ UNCHANGED <<callCount, period>>
  BY <1>1, <1>2, <1>3 DEF BroadcastCall, StxTyped
<1>5. /\ paid' \in [StxPlayers -> [Lives -> Nat]] /\ paid'[a][now] = m
      /\ \A b \in StxPlayers, n \in Lives : b # a \/ n # now => paid'[b][n] = paid[b][n]
  BY <1>1, <1>4 DEF StxTyped
<1>6. StxTyped'
  BY <1>1, <1>4, <1>5, StxAnswerKeeps DEF StxTyped
<1>7. ASSUME NEW b \in StxPlayers, NEW n \in Lives PROVE Capped(b, n)'
  <2>1. PICK S, T : S = Due(b, n) /\ T = Due(b, n)'
    OBVIOUS
  <2>2. IsFiniteSet(S)
    BY <2>1, DueFinite
  <2>3. PICK p \in Nat, q \in Nat : p = paid[b][n] /\ q = paid'[b][n]
    BY <1>1, <1>6 DEF StxTyped
  <2>4. Charged(b, n) = p + Cardinality(S) /\ Charged(b, n)' = q + Cardinality(T)
    BY <2>1, <2>3 DEF Charged
  <2>5. Capped(b, n) /\ callCount[b] \in Nat /\ callCount' = callCount
    BY <1>1, <1>4 DEF CapInv, StxTyped
  <2>6. period'[b] = period[b] /\ period[b] \in Nat
    BY <1>1, <1>4 DEF StxTyped, Lives
  <2>7. p + Cardinality(S) \in Nat /\ q + Cardinality(T) \in Nat
        /\ q + Cardinality(T) <= p + Cardinality(S)
    <3>1. CASE b = a /\ n = now
      <4>1. c \in S
        BY <1>1, <1>2, <2>1, <3>1 DEF Due, Pending
      <4>2. T \subseteq S \ {c}
        BY <1>1, <2>1, StxAnswerKeeps DEF Due, Pending
      <4>3. Cardinality(T) + 1 <= Cardinality(S) /\ Cardinality(T) \in Nat /\ Cardinality(S) \in Nat
        BY <2>2, <4>1, <4>2, CountCalls
      <4> QED
        BY <1>3, <1>5, <2>3, <3>1, <4>3
    <3>2. CASE ~(b = a /\ n = now)
      <4>1. T \subseteq S
        BY <1>1, <2>1, StxAnswerKeeps DEF Due
      <4>2. Cardinality(T) <= Cardinality(S) /\ Cardinality(T) \in Nat /\ Cardinality(S) \in Nat
        BY <2>2, <4>1, CountCalls
      <4> QED
        BY <1>5, <2>3, <3>2, <4>2
    <3> QED
      BY <3>1, <3>2
  <2> QED
    BY <2>4, <2>5, <2>6, <2>7, StacksSponsorAssumption DEF Capped
<1> QED
  BY <1>6, <1>7 DEF CapInv

LEMMA CounterExpiresKeeps ==
  ASSUME CapInv, NEW a \in StxPlayers, CounterExpires(a)
  PROVE  CapInv'
<1>1. /\ StxTyped /\ UNCHANGED <<stxCalls, paid>>
      /\ callCount' = [callCount EXCEPT ![a] = 0]
      /\ period' = [period EXCEPT ![a] = period[a] + 1] /\ period[a] < CounterPeriods
  BY DEF CounterExpires, CapInv
<1>2. period[a] + 1 \in Lives
  BY <1>1, StacksSponsorAssumption DEF StxTyped, Lives
<1>3. StxTyped'
  BY <1>1, <1>2 DEF StxTyped
<1>4. ASSUME NEW b \in StxPlayers, NEW n \in Lives PROVE Capped(b, n)'
  <2>1. PICK x \in Nat : x = Charged(b, n)
    BY <1>1, ChargedNat
  <2>2. Charged(b, n)' = x
    BY <1>1, <2>1 DEF Charged, Due, Pending
  <2>3. Capped(b, n) /\ callCount[b] \in Nat /\ period[b] \in Nat
    BY <1>1 DEF CapInv, StxTyped, Lives
  <2>4. CASE b = a
    <3>1. callCount'[b] = 0 /\ period'[b] = period[b] + 1
      BY <1>1, <2>4 DEF StxTyped
    <3> QED
      BY <2>1, <2>2, <2>3, <3>1, StacksSponsorAssumption DEF Capped, Lives
  <2>5. CASE b # a
    <3>1. callCount'[b] = callCount[b] /\ period'[b] = period[b]
      BY <1>1, <2>5 DEF StxTyped
    <3> QED
      BY <2>1, <2>2, <2>3, <3>1 DEF Capped
  <2> QED
    BY <2>4, <2>5
<1> QED
  BY <1>3, <1>4 DEF CapInv

LEMMA CapStarts == StxInit => CapInv
<1> SUFFICES ASSUME StxInit PROVE CapInv
  OBVIOUS
<1>1. StxTyped
  BY StacksSponsorAssumption DEF StxInit, StxTyped, Lives
<1>2. ASSUME NEW a \in StxPlayers, NEW n \in Lives PROVE Capped(a, n)
  <2>1. Due(a, n) = {} /\ paid[a][n] = 0 /\ callCount[a] = 0
    BY DEF StxInit, Lives, Due, Pending, NoStxCall
  <2>2. Charged(a, n) = 0
    BY <2>1, FS_EmptySet DEF Charged
  <2> QED
    BY <2>1, <2>2, StacksSponsorAssumption DEF Capped
<1> QED
  BY <1>1, <1>2 DEF CapInv

LEMMA CapSteps == LimitInv /\ StxOp => LimitInv'
<1> SUFFICES ASSUME stxRedis, CapInv, StxOp PROVE CapInv'
  BY DEF LimitInv, StxOp
<1>1. ASSUME NEW a \in StxPlayers, StxCooldownExpires(a) PROVE CapInv'
  BY <1>1, QuietCall DEF StxCooldownExpires, CapInv, StxTyped, Pending
<1>2. ASSUME NEW c \in StxCalls, NEW ok \in BOOLEAN, BroadcastCall(c, ok) PROVE CapInv'
  BY <1>2, BroadcastKeeps, StxQuietSteps
<1> QED
  BY <1>1, <1>2, StxQuietSteps, CountCallKeeps, CounterExpiresKeeps DEF StxOp, SkipLimit

LEMMA CapInvariant == StxSpec => []LimitInv
<1>1. StxInit => LimitInv
  BY CapStarts DEF LimitInv
<1>2. LimitInv /\ UNCHANGED stxVars => LimitInv'
  BY QuietCall DEF stxVars, LimitInv, CapInv, StxTyped, Pending
<1> QED
  BY <1>1, <1>2, CapSteps, PTL DEF StxSpec

(* With Redis, however late a handler broadcasts and whenever the counter  *)
(* expires, the calls paid in one life of an address's counter stay within *)
(* DAILY_CAP.                                                              *)
THEOREM CallCapAlwaysKept == StxSpec => []CallCapKept
<1>1. LimitInv => CallCapKept
  <2> SUFFICES ASSUME CapInv, NEW a \in StxPlayers, NEW n \in Lives
               PROVE  paid[a][n] <= CallCap
    BY DEF LimitInv, CallCapKept, Lives
  <2>1. Charged(a, n) \in Nat /\ paid[a][n] \in Nat /\ Cardinality(Due(a, n)) \in Nat
    BY ChargedNat DEF CapInv
  <2> QED
    BY <2>1, StacksSponsorAssumption DEF CapInv, Capped, Charged
<1> QED
  BY <1>1, CapInvariant, PTL

StxKeysTyped ==
  stxRedis \in BOOLEAN /\ stxCooldown \subseteq StxPlayers /\ countExpires \subseteq StxPlayers /\ windows \in [StxPlayers -> Nat]

LEMMA StxKeySteps ==
  ASSUME StxTyped, StxKeysTyped, StxOp
  PROVE  StxKeysTyped'
<1> USE DEF StxOp
<1>1. ASSUME NEW c \in StxCalls, NEW a \in StxPlayers, ClaimCooldown(c, a) \/ SkipLimit(c, a)
      PROVE  StxKeysTyped'
  <2>1. windows' \in [StxPlayers -> Nat]
    BY <1>1 DEF ClaimCooldown, SkipLimit, StxKeysTyped
  <2> QED
    BY <1>1, <2>1 DEF ClaimCooldown, SkipLimit, StxKeysTyped
<1>2. ASSUME NEW c \in StxCalls, ExpireCounter(c) PROVE StxKeysTyped'
  <2>1. stxCalls[c] \in StxCall
    BY <1>2, StxCallFields DEF ExpireCounter, StxStages
  <2> QED
    BY <1>2, <2>1 DEF ExpireCounter, StxKeysTyped, StxCall
<1>3. ASSUME NEW c \in StxCalls,
             CountCall(c) \/ StxCallEnds(c) \/ \E ok \in BOOLEAN : SponsorCall(c, ok) \/ BroadcastCall(c, ok)
      PROVE  StxKeysTyped'
  BY <1>3 DEF CountCall, StxCallEnds, SponsorCall, BroadcastCall, StxKeysTyped
<1>4. ASSUME NEW a \in StxPlayers, StxCooldownExpires(a) \/ CounterExpires(a) PROVE StxKeysTyped'
  BY <1>4 DEF StxCooldownExpires, CounterExpires, StxKeysTyped
<1> QED
  BY <1>1, <1>2, <1>3, <1>4 DEF StxOp

LEMMA StxTypedSteps ==
  ASSUME StxTyped, StxOp
  PROVE  StxTyped'
<1>1. ASSUME NEW c \in StxCalls, NEW a \in StxPlayers, ClaimCooldown(c, a) \/ SkipLimit(c, a)
      PROVE  StxTyped'
  <2>1. \A stage \in StxStages : [stage |-> stage, address |-> a, period |-> period[a]] \in StxCall
    BY DEF StxCall, StxTyped, Lives
  <2>2. stxCalls' \in [StxCalls -> StxCall \cup {NoStxCall}]
    BY <1>1, <2>1 DEF ClaimCooldown, SkipLimit, StxTyped, StxStages
  <2> QED BY <1>1, <2>2 DEF ClaimCooldown, SkipLimit, StxTyped
<1>2. ASSUME NEW c \in StxCalls, CountCall(c) PROVE StxTyped'
  <2> DEFINE a == stxCalls[c].address
             call == [stage |-> IF callCount[a] = 0 THEN "first" ELSE "counted",
                      address |-> a, period |-> period[a]]
  <2>1. stxCalls[c] \in StxCall
    BY <1>2, StxCallFields DEF CountCall, StxStages
  <2>2. a \in StxPlayers
    BY <2>1 DEF StxCall
  <2>3. call \in StxCall
    BY <2>2 DEF StxCall, StxStages, StxTyped, Lives
  <2>4. StxAnswer(c) \/ stxCalls' = [stxCalls EXCEPT ![c] = call]
    BY <1>2 DEF CountCall
  <2> HIDE DEF call
  <2>5. stxCalls' \in [StxCalls -> StxCall \cup {NoStxCall}]
    BY <2>3, <2>4, StxAnswerKeeps DEF StxTyped
  <2> QED BY <1>2, <2>2, <2>5 DEF CountCall, StxTyped
<1>3. ASSUME NEW c \in StxCalls, NEW ok \in BOOLEAN,
             ExpireCounter(c) \/ StxCallEnds(c) \/ SponsorCall(c, ok)
      PROVE  StxTyped'
  <2>1. /\ UNCHANGED <<callCount, period, paid>>
        /\ \/ StxAnswer(c)
           \/ \E stage \in {"counted", "sponsoring"} :
                stxCalls[c].stage \in {"first", "counted"} /\ stxCalls' = [stxCalls EXCEPT ![c].stage = stage]
    BY <1>3 DEF ExpireCounter, StxCallEnds, SponsorCall
  <2>2. stxCalls' \in [StxCalls -> StxCall \cup {NoStxCall}]
    BY <2>1, StxAnswerKeeps, StxStageKeeps
  <2> QED BY <2>1, <2>2 DEF StxTyped
<1>4. ASSUME NEW c \in StxCalls, NEW ok \in BOOLEAN, BroadcastCall(c, ok) PROVE StxTyped'
  <2>1. stxCalls[c] \in StxCall
    BY <1>4, StxCallFields DEF BroadcastCall, StxStages
  <2>2. PICK a \in StxPlayers, n \in Lives : a = stxCalls[c].address /\ n = stxCalls[c].period
    BY <2>1 DEF StxCall, Lives
  <2>3. PICK m \in Nat : m = paid[a][n] + 1
    BY DEF StxTyped
  <2>4. paid' \in {paid, [paid EXCEPT ![a] = [paid[a] EXCEPT ![n] = m]]}
    BY <1>4, <2>2, <2>3 DEF BroadcastCall, StxTyped
  <2>5. [paid[a] EXCEPT ![n] = m] \in [Lives -> Nat]
    BY DEF StxTyped
  <2>6. paid' \in [StxPlayers -> [Lives -> Nat]]
    BY <2>4, <2>5 DEF StxTyped
  <2>7. stxCalls' \in [StxCalls -> StxCall \cup {NoStxCall}]
    BY <1>4, StxAnswerKeeps DEF BroadcastCall
  <2> QED BY <1>4, <2>6, <2>7 DEF BroadcastCall, StxTyped
<1>5. ASSUME NEW a \in StxPlayers, StxCooldownExpires(a) \/ CounterExpires(a) PROVE StxTyped'
  <2>1. CounterExpires(a) => period[a] + 1 \in Lives
    BY StacksSponsorAssumption DEF CounterExpires, StxTyped, Lives
  <2> QED BY <1>5, <2>1 DEF StxCooldownExpires, CounterExpires, StxTyped
<1> QED BY <1>1, <1>2, <1>3, <1>4, <1>5 DEF StxOp

(* Every handler of the Stacks sponsor that goes on works on an address    *)
(* that asked, in a life of its counter, whoever stops and whatever        *)
(* expires under it, with or without Redis.                                *)
THEOREM StxStaysTyped == StxSpec => []StxTypeOK
<1>1. StxInit => StxTyped /\ StxKeysTyped
  BY CapStarts DEF StxInit, StxKeysTyped, CapInv
<1>2. StxTyped /\ StxKeysTyped /\ [StxOp]_stxVars => StxTyped' /\ StxKeysTyped'
  <2>1. StxTyped /\ StxKeysTyped /\ UNCHANGED stxVars => StxTyped' /\ StxKeysTyped'
    BY DEF StxTyped, StxKeysTyped, stxVars
  <2> QED BY <2>1, StxKeySteps, StxTypedSteps
<1>3. StxTyped /\ StxKeysTyped => StxTypeOK
  BY DEF StxTyped, StxKeysTyped, StxTypeOK, Lives
<1> QED BY <1>1, <1>2, <1>3, PTL DEF StxSpec
-----------------------------------------------------------------------------
(* The game index *)

CallsTyped == syncs \in [Syncs -> Sync \cup {NoSync}]

GamesOnChain == [white: IndexPlayers, black: IndexPlayers \cup {Empty}, over: BOOLEAN]

ChainTyped == chainGames \in Seq(GamesOnChain)

(* What a request has read of the cursor, and how far it has come. *)
FromCovered(c) == syncs[c].stage = "cursor" => 1..syncs[c].from \subseteq written

StartCovered(c) ==
  syncs[c].stage \in {"scan", "scanned", "executed"} =>
    syncs[c].start >= 1 /\ 1..syncs[c].start - 1 \subseteq written

ChunkWritten(c) ==
  syncs[c].stage = "executed" => syncs[c].start..ChunkEnd(c) \subseteq written

BoardEarned(c) == syncs[c].stage = "stats" => \A p \in syncs[c].players : HasPlayed(p)

CallInv(c) == FromCovered(c) /\ StartCovered(c) /\ ChunkWritten(c) /\ BoardEarned(c)

IndexInv ==
  /\ ChainTyped /\ CallsTyped /\ cursor \in Nat
  /\ CursorCovers
  /\ \A c \in Syncs : CallInv(c)

LEMMA IndexStarts == IndexInit => IndexInv
BY DEF IndexInit, IndexInv, ChainTyped, CallsTyped, CursorCovers, CallInv, FromCovered,
       StartCovered, ChunkWritten, BoardEarned, NoSync, NoBoard

(* No game and no player of a game leaves the chain. *)
ChainGrows ==
  /\ \A q : HasPlayed(q) => HasPlayed(q)'
  /\ gameNonce' >= gameNonce
  /\ \A id \in Nat : Seats(id) \subseteq Seats(id)'

LEMMA ChainKeepsPlayers ==
  ASSUME ChainTyped, ChainTyped',
         Len(chainGames') >= Len(chainGames),
         \A i \in 1..Len(chainGames) :
           /\ chainGames'[i].white = chainGames[i].white
           /\ chainGames[i].black # Empty => chainGames'[i].black = chainGames[i].black
           /\ chainGames[i].over => chainGames'[i].over
  PROVE  ChainGrows
<1>1. Len(chainGames) \in Nat /\ Len(chainGames') \in Nat /\ gameNonce' >= gameNonce
  BY DEF ChainTyped, gameNonce
<1>2. ASSUME NEW id \in Nat PROVE Seats(id) \subseteq Seats(id)'
  <2>1. CASE id < gameNonce
    <3>1. id + 1 \in 1..Len(chainGames) /\ id < gameNonce'
      BY <1>1, <2>1 DEF gameNonce
    <3> QED
      BY <2>1, <3>1 DEF Seats
  <2> QED
    BY <2>1 DEF Seats
<1>3. ASSUME NEW p, HasPlayed(p) PROVE HasPlayed(p)'
  <2>1. PICK id \in 0..gameNonce - 1 : p \in Seats(id) /\ chainGames[id + 1].over
    BY <1>3 DEF HasPlayed
  <2>2. id + 1 \in 1..Len(chainGames) /\ id \in 0..gameNonce' - 1 /\ id \in Nat
    BY <1>1 DEF gameNonce
  <2> QED
    BY <1>2, <2>1, <2>2 DEF HasPlayed
<1> QED
  BY <1>1, <1>2, <1>3 DEF ChainGrows

LEMMA ReplacedGame ==
  ASSUME NEW chain \in Seq(GamesOnChain), NEW i \in 1..Len(chain), NEW game \in GamesOnChain
  PROVE  /\ [chain EXCEPT ![i] = game] \in Seq(GamesOnChain)
         /\ Len([chain EXCEPT ![i] = game]) = Len(chain)
         /\ [chain EXCEPT ![i] = game][i] = game
         /\ \A j \in 1..Len(chain) : j # i => [chain EXCEPT ![i] = game][j] = chain[j]
OBVIOUS

LEMMA CreateKeeps ==
  ASSUME ChainTyped, NEW p \in IndexPlayers, CreateChainGame(p)
  PROVE  ChainTyped' /\ ChainGrows
<1>1. PICK game \in GamesOnChain : chainGames' = Append(chainGames, game)
  BY DEF CreateChainGame, GamesOnChain
<1>2. ChainTyped'
  BY <1>1 DEF ChainTyped
<1>3. /\ Len(chainGames') >= Len(chainGames)
      /\ \A i \in 1..Len(chainGames) : chainGames'[i] = chainGames[i]
  BY <1>1 DEF ChainTyped
<1> QED
  BY <1>2, <1>3, ChainKeepsPlayers

LEMMA GameStepKeeps ==
  ASSUME ChainTyped, NEW p \in IndexPlayers, NEW id \in 0..gameNonce - 1,
         JoinChainGame(id, p) \/ FinishChainGame(id)
  PROVE  ChainTyped' /\ ChainGrows
<1>1. PICK i : i = id + 1
  OBVIOUS
<1>2. i \in 1..Len(chainGames) /\ chainGames \in Seq(GamesOnChain)
  BY <1>1 DEF gameNonce, ChainTyped, GamesOnChain
<1>3. chainGames[i] \in GamesOnChain
  BY <1>2
<1>4. PICK game \in GamesOnChain :
        /\ chainGames' = [chainGames EXCEPT ![i] = game]
        /\ game.white = chainGames[i].white
        /\ chainGames[i].black # Empty => game.black = chainGames[i].black
        /\ chainGames[i].over => game.over
  <2>1. CASE JoinChainGame(id, p)
    <3>1. [chainGames[i] EXCEPT !.black = p] \in GamesOnChain
      BY <1>3 DEF GamesOnChain
    <3>2. chainGames' = [chainGames EXCEPT ![i] = [chainGames[i] EXCEPT !.black = p]]
      BY <1>1, <2>1 DEF JoinChainGame
    <3>3. chainGames[i].black = Empty
      BY <1>1, <2>1 DEF JoinChainGame
    <3> QED
      BY <1>3, <3>1, <3>2, <3>3 DEF GamesOnChain
  <2>2. CASE FinishChainGame(id)
    <3>1. [chainGames[i] EXCEPT !.over = TRUE] \in GamesOnChain
      BY <1>3 DEF GamesOnChain
    <3>2. chainGames' = [chainGames EXCEPT ![i] = [chainGames[i] EXCEPT !.over = TRUE]]
      BY <1>1, <2>2 DEF FinishChainGame
    <3> QED
      BY <1>3, <3>1, <3>2 DEF GamesOnChain
  <2> QED
    BY <2>1, <2>2
<1>5. ChainTyped' /\ Len(chainGames') = Len(chainGames)
  BY <1>2, <1>4, ReplacedGame DEF ChainTyped, GamesOnChain
<1>6. \A j \in 1..Len(chainGames) :
        /\ chainGames'[j].white = chainGames[j].white
        /\ chainGames[j].black # Empty => chainGames'[j].black = chainGames[j].black
        /\ chainGames[j].over => chainGames'[j].over
  BY <1>2, <1>4, ReplacedGame
<1> QED
  BY <1>2, <1>5, <1>6, ChainKeepsPlayers

(* What a step of one request leaves to the others. *)
LEMMA CallsKept ==
  ASSUME IndexInv, NEW c \in Syncs, CallsTyped', CallInv(c)',
         \A d \in Syncs \ {c} : syncs'[d] = syncs[d],
         written \subseteq written', \A q : HasPlayed(q) => HasPlayed(q)'
  PROVE  \A d \in Syncs : CallInv(d)'
<1> SUFFICES ASSUME NEW d \in Syncs \ {c} PROVE CallInv(d)'
  OBVIOUS
<1>1. CallInv(d) /\ syncs'[d] = syncs[d]
  BY DEF IndexInv
<1>2. ChunkEnd(d)' = ChunkEnd(d)
  BY <1>1 DEF ChunkEnd
<1> QED
  BY <1>1, <1>2 DEF CallInv, FromCovered, StartCovered, ChunkWritten, BoardEarned

LEMMA PlayedStays ==
  ASSUME UNCHANGED chainGames PROVE \A q : HasPlayed(q) <=> HasPlayed(q)'
BY DEF HasPlayed, Seats, gameNonce

LEMMA SeatsTyped == ASSUME ChainTyped, NEW id \in Nat PROVE Seats(id) \subseteq IndexPlayers
<1>1. CASE id < gameNonce
  <2>1. id + 1 \in 1..Len(chainGames)
    BY <1>1 DEF gameNonce, ChainTyped
  <2>2. chainGames[id + 1] \in GamesOnChain
    BY <2>1 DEF ChainTyped
  <2>3. chainGames[id + 1].white \in IndexPlayers /\ chainGames[id + 1].black \in IndexPlayers \cup {Empty}
    BY <2>2 DEF GamesOnChain
  <2> QED
    BY <1>1, <2>3 DEF Seats
<1> QED
  BY <1>1 DEF Seats

(* The record of a request under way. *)
LEMMA SyncFields ==
  ASSUME CallsTyped, NEW c \in Syncs, syncs[c].stage \in SyncStages
  PROVE  syncs[c] \in Sync
BY DEF CallsTyped, Sync, NoSync, SyncStages

LEMMA RequestSteps ==
  ASSUME IndexInv, NEW c \in Syncs,
         \/ \E route \in {"history", "leaderboard"} : BeginSync(c, route)
         \/ ReadCursor(c) \/ ReadNonce(c) \/ SyncEnds(c)
  PROVE  CallsTyped' /\ CallInv(c)'
<1> USE DEF CallInv, FromCovered, StartCovered, ChunkWritten, BoardEarned, IndexInv
<1>1. CASE \E route \in {"history", "leaderboard"} : BeginSync(c, route)
  BY <1>1 DEF BeginSync, CallsTyped, Sync, SyncStages
<1>2. CASE SyncEnds(c)
  BY <1>2 DEF SyncEnds, CallsTyped, NoSync
<1>3. CASE ReadCursor(c)
  <2>1. syncs[c] \in Sync
    BY <1>3, SyncFields DEF ReadCursor, SyncStages
  <2>2. syncs' = [syncs EXCEPT ![c] = [[syncs[c] EXCEPT !.stage = "cursor"] EXCEPT !.from = cursor]]
    BY <1>3, <2>1 DEF ReadCursor, CallsTyped
  <2>3. [syncs[c] EXCEPT !.stage = "cursor"] \in Sync
    BY <2>1 DEF Sync, SyncStages
  <2>4. [[syncs[c] EXCEPT !.stage = "cursor"] EXCEPT !.from = cursor] \in Sync
    BY <2>3 DEF Sync
  <2>5. CallsTyped'
    BY <2>2, <2>4 DEF CallsTyped
  <2>6. syncs'[c].stage = "cursor" /\ syncs'[c].from = cursor
    BY <2>1, <2>2 DEF Sync, CallsTyped
  <2>7. written' = written
    BY <1>3 DEF ReadCursor
  <2> QED
    BY <2>5, <2>6, <2>7 DEF CursorCovers
<1>4. CASE ReadNonce(c)
  <2>1. syncs[c] \in Sync
    BY <1>4, SyncFields DEF ReadNonce, SyncStages
  <2> DEFINE stage == IF gameNonce <= syncs[c].from THEN "synced" ELSE "scan"
  <2>2. syncs' = [syncs EXCEPT ![c] = [[[syncs[c] EXCEPT !.nonce = gameNonce] EXCEPT !.start = syncs[c].from + 1] EXCEPT !.stage = stage]]
    BY <1>4, <2>1 DEF ReadNonce, CallsTyped
  <2>3. stage \in {"synced", "scan"} /\ gameNonce \in Nat /\ syncs[c].from + 1 \in Nat
    BY <2>1 DEF Sync, gameNonce, ChainTyped
  <2> HIDE DEF stage
  <2>4. [syncs[c] EXCEPT !.nonce = gameNonce] \in Sync
    BY <2>1, <2>3 DEF Sync
  <2>5. [[syncs[c] EXCEPT !.nonce = gameNonce] EXCEPT !.start = syncs[c].from + 1] \in Sync
    BY <2>3, <2>4 DEF Sync
  <2>6. [[[syncs[c] EXCEPT !.nonce = gameNonce] EXCEPT !.start = syncs[c].from + 1] EXCEPT !.stage = stage] \in Sync
    BY <2>3, <2>5 DEF Sync, SyncStages
  <2>7. CallsTyped'
    BY <2>2, <2>6 DEF CallsTyped
  <2>8. syncs'[c].stage = stage /\ syncs'[c].start = syncs[c].from + 1
    BY <2>1, <2>2 DEF Sync, CallsTyped
  <2>9. written' = written /\ 1..syncs[c].from \subseteq written /\ syncs[c].from \in Nat
    BY <1>4, <2>1 DEF ReadNonce, Sync
  <2> QED
    BY <2>3, <2>7, <2>8, <2>9
<1> QED
  BY <1>1, <1>2, <1>3, <1>4

LEMMA ChunkSteps ==
  ASSUME IndexInv, NEW c \in Syncs,
         \/ \E failed \in SUBSET (0..IndexGames) : ScanGames(c, failed)
         \/ WriteChunk(c) \/ AdvanceCursor(c)
  PROVE  CallsTyped' /\ CallInv(c)' /\ (cursor' # cursor => cursor' \in Nat /\ 1..cursor' \subseteq written)
<1> USE DEF CallInv, FromCovered, StartCovered, ChunkWritten, BoardEarned, IndexInv
<1>1. syncs[c] \in Sync /\ syncs[c].stage \in {"scan", "scanned", "executed"}
  BY SyncFields DEF ScanGames, WriteChunk, AdvanceCursor, SyncStages
<1>2. /\ syncs[c].start \in Nat /\ syncs[c].nonce \in Nat /\ syncs[c].start >= 1
      /\ 1..syncs[c].start - 1 \subseteq written /\ ScanChunk \in Nat \ {0}
  BY <1>1, GameIndexAssumption DEF Sync
<1>3. ChunkEnd(c) \in Int
  BY <1>2 DEF ChunkEnd
<1>4. ASSUME NEW failed \in SUBSET (0..IndexGames), ScanGames(c, failed)
      PROVE  CallsTyped' /\ CallInv(c)' /\ cursor' = cursor
  <2> DEFINE found == UNION {Seats(id) \X {id} : id \in (syncs[c].start..ChunkEnd(c)) \ failed}
  <2>1. found \subseteq IndexPlayers \X Nat
    <3>1. \A id \in Nat : Seats(id) \subseteq IndexPlayers
      BY SeatsTyped
    <3> QED
      BY <1>2, <1>3, <3>1
  <2>2. syncs' = [syncs EXCEPT ![c] = [[syncs[c] EXCEPT !.stage = "scanned"] EXCEPT !.found = found]]
    BY <1>1, <1>4 DEF ScanGames, CallsTyped
  <2> HIDE DEF found
  <2>3. [syncs[c] EXCEPT !.stage = "scanned"] \in Sync
    BY <1>1 DEF Sync, SyncStages
  <2>4. [[syncs[c] EXCEPT !.stage = "scanned"] EXCEPT !.found = found] \in Sync
    BY <2>1, <2>3 DEF Sync
  <2>5. CallsTyped' /\ syncs'[c].stage = "scanned" /\ syncs'[c].start = syncs[c].start
    BY <1>1, <2>2, <2>4 DEF CallsTyped, Sync
  <2>6. written' = written /\ cursor' = cursor
    BY <1>4 DEF ScanGames
  <2> QED
    BY <1>2, <2>5, <2>6
<1>5. CASE WriteChunk(c)
  <2>1. syncs' = [syncs EXCEPT ![c] = [syncs[c] EXCEPT !.stage = "executed"]]
    BY <1>5 DEF WriteChunk, Step, CallsTyped
  <2>2. [syncs[c] EXCEPT !.stage = "executed"] \in Sync
    BY <1>1 DEF Sync, SyncStages
  <2>3. CallsTyped'
    BY <2>1, <2>2 DEF CallsTyped
  <2>4. /\ syncs'[c].stage = "executed" /\ syncs'[c].start = syncs[c].start
        /\ syncs'[c].nonce = syncs[c].nonce
    BY <1>1, <2>1 DEF CallsTyped, Sync
  <2>5. ChunkEnd(c)' = ChunkEnd(c) /\ cursor' = cursor
    BY <1>5, <2>4 DEF ChunkEnd, WriteChunk
  <2>6. written' = written \cup (syncs[c].start..ChunkEnd(c))
    BY <1>5 DEF WriteChunk
  <2> QED
    BY <1>2, <2>3, <2>4, <2>5, <2>6
<1>6. CASE AdvanceCursor(c)
  <2> DEFINE stage == IF ChunkEnd(c) < syncs[c].nonce THEN "scan" ELSE "synced"
  <2>1. ChunkEnd(c) \in Nat /\ (stage = "scan" => ChunkEnd(c) >= syncs[c].start)
    BY <1>2 DEF ChunkEnd
  <2>2. syncs' = [syncs EXCEPT ![c] = [[syncs[c] EXCEPT !.start = ChunkEnd(c) + 1] EXCEPT !.stage = stage]]
    BY <1>1, <1>6 DEF AdvanceCursor, CallsTyped
  <2>3. stage \in {"scan", "synced"}
    OBVIOUS
  <2> HIDE DEF stage
  <2>4. [syncs[c] EXCEPT !.start = ChunkEnd(c) + 1] \in Sync
    BY <1>1, <2>1 DEF Sync
  <2>5. [[syncs[c] EXCEPT !.start = ChunkEnd(c) + 1] EXCEPT !.stage = stage] \in Sync
    BY <2>3, <2>4 DEF Sync, SyncStages
  <2>6. CallsTyped'
    BY <2>2, <2>5 DEF CallsTyped
  <2>7. syncs'[c].stage = stage /\ syncs'[c].start = ChunkEnd(c) + 1
    BY <1>1, <2>2 DEF CallsTyped, Sync
  <2>8. written' = written /\ cursor' = ChunkEnd(c)
    BY <1>6 DEF AdvanceCursor
  <2>9. 1..ChunkEnd(c) \subseteq written
    <3>1. syncs[c].start..ChunkEnd(c) \subseteq written
      BY <1>6 DEF AdvanceCursor
    <3> QED
      BY <1>2, <1>3, <3>1
  <2> QED
    BY <1>3, <2>1, <2>3, <2>6, <2>7, <2>8, <2>9
<1> QED
  BY <1>4, <1>5, <1>6

LEMMA BoardSteps ==
  ASSUME IndexInv, NEW c \in Syncs,
         (\E failed \in SUBSET IndexPlayers : ReadStats(c, failed)) \/ CacheBoard(c)
  PROVE  CallsTyped' /\ CallInv(c)' /\ (ranked' # NoBoard => \A p \in ranked' : HasPlayed(p))
<1> USE DEF CallInv, FromCovered, StartCovered, ChunkWritten, BoardEarned, IndexInv
<1>1. syncs[c].stage \in {"synced", "stats"}
  BY DEF ReadStats, CacheBoard
<1>2. syncs[c] \in Sync
  BY <1>1, SyncFields DEF SyncStages
<1>3. ASSUME NEW failed \in SUBSET IndexPlayers, ReadStats(c, failed)
      PROVE  CallsTyped' /\ CallInv(c)' /\ ranked' = ranked
  <2> DEFINE listed == {p \in {pair[1] : pair \in indexed} \ failed : HasPlayed(p)}
  <2>1. listed \subseteq IndexPlayers
    <3>1. \A id \in Nat : Seats(id) \subseteq IndexPlayers
      BY SeatsTyped
    <3>2. 0..gameNonce - 1 \subseteq Nat
      BY DEF gameNonce, ChainTyped
    <3>3. \A p : HasPlayed(p) => p \in IndexPlayers
      BY <3>1, <3>2 DEF HasPlayed
    <3> QED
      BY <3>3
  <2>2. syncs' = [syncs EXCEPT ![c] = [[syncs[c] EXCEPT !.stage = "stats"] EXCEPT !.players = listed]]
    BY <1>2, <1>3 DEF ReadStats, CallsTyped
  <2>3. \A p \in listed : HasPlayed(p)
    OBVIOUS
  <2>4. \A p \in listed : HasPlayed(p)'
    BY <1>3, <2>3, PlayedStays DEF ReadStats
  <2> HIDE DEF listed
  <2>5. [syncs[c] EXCEPT !.stage = "stats"] \in Sync
    BY <1>2 DEF Sync, SyncStages
  <2>6. [[syncs[c] EXCEPT !.stage = "stats"] EXCEPT !.players = listed] \in Sync
    BY <2>1, <2>5 DEF Sync
  <2>7. CallsTyped'
    BY <2>2, <2>6 DEF CallsTyped
  <2>8. syncs'[c].stage = "stats" /\ syncs'[c].players = listed
    BY <1>2, <2>2 DEF CallsTyped, Sync
  <2> QED
    BY <1>3, <2>4, <2>7, <2>8 DEF ReadStats
<1>4. CASE CacheBoard(c)
  BY <1>2, <1>4 DEF CacheBoard, CallsTyped, NoSync
<1> QED
  BY <1>3, <1>4 DEF CursorCovers

LEMMA IndexSteps == IndexInv /\ IndexOp => IndexInv'
<1> SUFFICES ASSUME IndexInv, IndexOp PROVE IndexInv'
  OBVIOUS
<1>1. ASSUME NEW c \in Syncs,
             \/ \E route \in {"history", "leaderboard"} : BeginSync(c, route)
             \/ ReadCursor(c) \/ ReadNonce(c) \/ SyncEnds(c)
      PROVE  IndexInv'
  <2>1. UNCHANGED <<chainGames, cursor, ranked, written>> /\ \A d \in Syncs \ {c} : syncs'[d] = syncs[d]
    BY <1>1 DEF BeginSync, ReadCursor, ReadNonce, SyncEnds, IndexInv, CallsTyped
  <2>2. CallsTyped' /\ CallInv(c)'
    BY <1>1, RequestSteps
  <2>3. \A q : HasPlayed(q) <=> HasPlayed(q)'
    BY <2>1, PlayedStays
  <2>4. \A d \in Syncs : CallInv(d)'
    BY <2>1, <2>2, <2>3, CallsKept
  <2> QED
    BY <2>1, <2>2, <2>3, <2>4 DEF IndexInv, ChainTyped, CursorCovers
<1>2. ASSUME NEW c \in Syncs,
             \/ \E failed \in SUBSET (0..IndexGames) : ScanGames(c, failed)
             \/ WriteChunk(c) \/ AdvanceCursor(c)
      PROVE  IndexInv'
  <2>1. /\ UNCHANGED <<chainGames, ranked>> /\ written \subseteq written'
        /\ \A d \in Syncs \ {c} : syncs'[d] = syncs[d]
    BY <1>2 DEF ScanGames, WriteChunk, AdvanceCursor, Step, IndexInv, CallsTyped
  <2>2. CallsTyped' /\ CallInv(c)' /\ (cursor' # cursor => cursor' \in Nat /\ 1..cursor' \subseteq written)
    BY <1>2, ChunkSteps
  <2>3. \A q : HasPlayed(q) <=> HasPlayed(q)'
    BY <2>1, PlayedStays
  <2>4. \A d \in Syncs : CallInv(d)'
    BY <2>1, <2>2, <2>3, CallsKept
  <2> QED
    BY <2>1, <2>2, <2>3, <2>4 DEF IndexInv, ChainTyped, CursorCovers
<1>3. ASSUME NEW c \in Syncs,
             (\E failed \in SUBSET IndexPlayers : ReadStats(c, failed)) \/ CacheBoard(c)
      PROVE  IndexInv'
  <2>1. UNCHANGED <<chainGames, cursor, written>> /\ \A d \in Syncs \ {c} : syncs'[d] = syncs[d]
    BY <1>3 DEF ReadStats, CacheBoard, IndexInv, CallsTyped
  <2>2. CallsTyped' /\ CallInv(c)' /\ (ranked' # NoBoard => \A p \in ranked' : HasPlayed(p))
    BY <1>3, BoardSteps
  <2>3. \A q : HasPlayed(q) <=> HasPlayed(q)'
    BY <2>1, PlayedStays
  <2>4. \A d \in Syncs : CallInv(d)'
    BY <2>1, <2>2, <2>3, CallsKept
  <2> QED
    BY <2>1, <2>2, <2>3, <2>4 DEF IndexInv, ChainTyped, CursorCovers, NoBoard
<1>4. CASE BoardExpires
  <2>1. UNCHANGED <<chainGames, cursor, syncs, written>> /\ ranked' = NoBoard
    BY <1>4 DEF BoardExpires
  <2>2. \A q : HasPlayed(q) <=> HasPlayed(q)'
    BY <2>1, PlayedStays
  <2> QED
    BY <2>1, <2>2 DEF IndexInv, ChainTyped, CallsTyped, CursorCovers, CallInv, FromCovered,
       StartCovered, ChunkWritten, ChunkEnd, BoardEarned, NoBoard
<1>5. ASSUME UNCHANGED <<cursor, indexed, syncs, ranked, written>>, ChainTyped', ChainGrows
      PROVE  IndexInv'
  BY <1>5 DEF ChainGrows, IndexInv, ChainTyped, CallsTyped, CursorCovers, CallInv, FromCovered,
     StartCovered, ChunkWritten, ChunkEnd, BoardEarned, NoBoard
<1>6. ASSUME NEW p \in IndexPlayers, CreateChainGame(p) PROVE IndexInv'
  BY <1>5, <1>6, CreateKeeps DEF IndexInv, CreateChainGame
<1>7. ASSUME NEW p \in IndexPlayers, NEW id \in 0..gameNonce - 1,
             JoinChainGame(id, p) \/ FinishChainGame(id)
      PROVE  IndexInv'
  BY <1>5, <1>7, GameStepKeeps DEF IndexInv, JoinChainGame, FinishChainGame
<1>8. ASSUME NEW id \in 0..gameNonce - 1, FinishChainGame(id)
      PROVE  IndexInv'
  <2>1. PICK i : i = id + 1
    OBVIOUS
  <2>2. chainGames[i] \in GamesOnChain
    BY <2>1 DEF IndexInv, ChainTyped, gameNonce
  <2>3. chainGames[i].white \in IndexPlayers
    BY <2>2 DEF GamesOnChain
  <2> QED
    BY <1>7, <1>8, <2>3
<1> QED
  BY <1>1, <1>2, <1>3, <1>4, <1>6, <1>7, <1>8 DEF IndexOp

LEMMA IndexInvariant == IndexSpec => []IndexInv
<1>1. IndexInv /\ UNCHANGED indexVars => IndexInv'
  <2> SUFFICES ASSUME IndexInv, UNCHANGED indexVars PROVE IndexInv'
    OBVIOUS
  <2>1. UNCHANGED <<chainGames, cursor, indexed, syncs, ranked, written>>
    BY DEF indexVars
  <2>2. \A q : HasPlayed(q) <=> HasPlayed(q)'
    BY <2>1, PlayedStays
  <2> QED
    BY <2>1, <2>2 DEF IndexInv, ChainTyped, CallsTyped, CursorCovers, CallInv, FromCovered,
       StartCovered, ChunkWritten, ChunkEnd, BoardEarned, NoBoard
<1> QED
  BY <1>1, IndexStarts, IndexSteps, PTL DEF IndexSpec

(* However syncs stop, overtake each other and move the cursor back, it    *)
(* stands only where every chunk up to it was written, and the cached      *)
(* leaderboard lists only who has played.                                  *)
THEOREM CursorAlwaysCovers == IndexSpec => []CursorCovers
<1>1. IndexInv => CursorCovers
  BY DEF IndexInv
<1> QED
  BY <1>1, IndexInvariant, PTL

(* An entry of a player's set that the chain confirms. *)
SeatedThere(pair) == \E id \in Nat : \E p \in Seats(id) : pair = <<p, id>>

CallTrue(c) ==
  /\ syncs[c].stage \in SyncStages => \A pair \in syncs[c].found : SeatedThere(pair)
  /\ syncs[c].stage \in {"scan", "scanned", "executed"} => syncs[c].nonce <= gameNonce

IndexTrue ==
  /\ gameNonce <= IndexGames
  /\ written \subseteq 0..gameNonce
  /\ \A pair \in indexed : SeatedThere(pair)
  /\ \A c \in Syncs : CallTrue(c)

LEMMA NonceNat == ChainTyped => gameNonce \in Nat
BY DEF ChainTyped, gameNonce

LEMMA SeatedFacts ==
  ASSUME ChainTyped, NEW pair, SeatedThere(pair)
  PROVE  pair \in IndexPlayers \X (0..gameNonce)
<1>1. PICK id \in Nat : \E p \in Seats(id) : pair = <<p, id>>
  BY DEF SeatedThere
<1>2. PICK p \in Seats(id) : pair = <<p, id>>
  BY <1>1
<1>3. id < gameNonce /\ gameNonce \in Nat
  BY <1>2, NonceNat DEF Seats
<1>4. p \in IndexPlayers
  BY <1>2, SeatsTyped
<1> QED
  BY <1>2, <1>3, <1>4

LEMMA SeatedStays ==
  ASSUME ChainGrows \/ UNCHANGED chainGames, NEW pair, SeatedThere(pair) PROVE SeatedThere(pair)'
BY DEF ChainGrows, SeatedThere, Seats, gameNonce

LEMMA TrueCallKept ==
  ASSUME IndexTrue, UNCHANGED chainGames, NEW c \in Syncs, CallTrue(c)',
         \A d \in Syncs \ {c} : syncs'[d] = syncs[d],
         written' \subseteq 0..gameNonce, \A pair \in indexed' : SeatedThere(pair)
  PROVE  IndexTrue'
<1>1. gameNonce' = gameNonce
  BY DEF gameNonce
<1>2. ASSUME NEW d \in Syncs PROVE CallTrue(d)'
  <2>1. CASE d # c
    BY <1>1, <2>1, SeatedStays DEF IndexTrue, CallTrue
  <2> QED
    BY <2>1
<1> QED
  BY <1>1, <1>2, SeatedStays DEF IndexTrue

LEMMA RequestsTrue ==
  ASSUME IndexInv, IndexTrue, NEW c \in Syncs,
         \/ \E route \in {"history", "leaderboard"} : BeginSync(c, route)
         \/ ReadCursor(c) \/ ReadNonce(c) \/ SyncEnds(c) \/ CacheBoard(c)
         \/ \E failed \in SUBSET IndexPlayers : ReadStats(c, failed)
  PROVE  IndexTrue'
<1>1. CallsTyped /\ CallTrue(c) /\ gameNonce \in Nat
  BY NonceNat DEF IndexInv, IndexTrue
<1>2. UNCHANGED <<chainGames, indexed, written>>
  BY DEF BeginSync, ReadCursor, ReadNonce, SyncEnds, CacheBoard, ReadStats
<1>3. \A d \in Syncs \ {c} : syncs'[d] = syncs[d]
  BY <1>1 DEF BeginSync, ReadCursor, ReadNonce, SyncEnds, CacheBoard, ReadStats, CallsTyped
<1>4. CallTrue(c)'
  <2>1. CASE \E route \in {"history", "leaderboard"} : BeginSync(c, route)
    BY <1>1, <2>1 DEF BeginSync, CallsTyped, CallTrue
  <2>2. CASE SyncEnds(c) \/ CacheBoard(c)
    BY <1>1, <2>2 DEF SyncEnds, CacheBoard, CallsTyped, CallTrue, NoSync, SyncStages
  <2>3. CASE ReadCursor(c)
    <3>1. syncs[c] \in Sync
      BY <1>1, <2>3, SyncFields DEF ReadCursor, SyncStages
    <3>2. syncs'[c].stage = "cursor" /\ syncs'[c].found = syncs[c].found
      BY <1>1, <2>3, <3>1 DEF ReadCursor, CallsTyped, Sync
    <3> QED
      BY <1>1, <1>2, <3>1, <3>2, SeatedStays DEF CallTrue, Sync
  <2>4. CASE ReadNonce(c)
    <3>1. syncs[c] \in Sync
      BY <1>1, <2>4, SyncFields DEF ReadNonce, SyncStages
    <3>2. syncs'[c].nonce = gameNonce /\ syncs'[c].found = syncs[c].found
      BY <1>1, <2>4, <3>1 DEF ReadNonce, CallsTyped, Sync
    <3>3. gameNonce' = gameNonce
      BY <1>2 DEF gameNonce
    <3> QED
      BY <1>1, <1>2, <3>1, <3>2, <3>3, SeatedStays DEF CallTrue, Sync
  <2>5. ASSUME NEW failed \in SUBSET IndexPlayers, ReadStats(c, failed) PROVE CallTrue(c)'
    <3>1. syncs[c] \in Sync
      BY <1>1, <2>5, SyncFields DEF ReadStats, SyncStages
    <3>2. syncs'[c].stage = "stats" /\ syncs'[c].found = syncs[c].found
      BY <1>1, <2>5, <3>1 DEF ReadStats, CallsTyped, Sync
    <3> QED
      BY <1>1, <1>2, <3>1, <3>2, SeatedStays DEF CallTrue, Sync
  <2> QED
    BY <2>1, <2>2, <2>3, <2>4, <2>5
<1> QED
  BY <1>2, <1>3, <1>4, TrueCallKept DEF IndexTrue

LEMMA ChunksTrue ==
  ASSUME IndexInv, IndexTrue, NEW c \in Syncs,
         \/ \E failed \in SUBSET (0..IndexGames) : ScanGames(c, failed)
         \/ WriteChunk(c) \/ AdvanceCursor(c)
  PROVE  IndexTrue'
<1>1. /\ syncs[c] \in Sync /\ CallsTyped /\ CallTrue(c) /\ gameNonce \in Nat
      /\ syncs[c].stage \in {"scan", "scanned", "executed"} /\ StartCovered(c)
  BY NonceNat, SyncFields DEF ScanGames, WriteChunk, AdvanceCursor, SyncStages, IndexInv, IndexTrue, CallInv
<1>2. /\ syncs[c].start \in Nat /\ syncs[c].start >= 1 /\ syncs[c].nonce \in Nat
      /\ syncs[c].nonce <= gameNonce /\ ScanChunk \in Nat \ {0}
  BY <1>1, GameIndexAssumption DEF Sync, StartCovered, CallTrue
<1>3. ChunkEnd(c) \in Int /\ ChunkEnd(c) <= gameNonce
  BY <1>1, <1>2 DEF ChunkEnd
<1>4. UNCHANGED chainGames /\ gameNonce' = gameNonce
  BY DEF ScanGames, WriteChunk, AdvanceCursor, gameNonce
<1>5. \A d \in Syncs \ {c} : syncs'[d] = syncs[d]
  BY <1>1 DEF ScanGames, WriteChunk, AdvanceCursor, Step, CallsTyped
<1>6. \A pair \in syncs[c].found : SeatedThere(pair)
  BY <1>1 DEF CallTrue, SyncStages
<1>7. syncs'[c].nonce = syncs[c].nonce
  BY <1>1 DEF ScanGames, WriteChunk, AdvanceCursor, Step, CallsTyped, Sync
<1>8. ASSUME NEW failed \in SUBSET (0..IndexGames), ScanGames(c, failed) PROVE IndexTrue'
  <2> DEFINE found == UNION {Seats(id) \X {id} : id \in (syncs[c].start..ChunkEnd(c)) \ failed}
  <2>1. \A pair \in found : SeatedThere(pair)
    BY <1>2, <1>3 DEF SeatedThere
  <2>2. syncs'[c].found = found
    BY <1>1, <1>8 DEF ScanGames, CallsTyped, Sync
  <2> HIDE DEF found
  <2>3. CallTrue(c)'
    BY <1>2, <1>4, <1>7, <2>1, <2>2, SeatedStays DEF CallTrue
  <2> QED
    BY <1>4, <1>5, <1>8, <2>3, TrueCallKept DEF ScanGames, IndexTrue
<1>9. CASE WriteChunk(c) \/ AdvanceCursor(c)
  <2>1. syncs'[c].found = syncs[c].found
    BY <1>1, <1>9 DEF WriteChunk, AdvanceCursor, Step, CallsTyped, Sync
  <2>2. CallTrue(c)'
    BY <1>2, <1>4, <1>6, <1>7, <2>1, SeatedStays DEF CallTrue
  <2>3. written' \subseteq 0..gameNonce
    BY <1>1, <1>2, <1>3, <1>9 DEF WriteChunk, AdvanceCursor, IndexTrue
  <2>4. \A pair \in indexed' : SeatedThere(pair)
    BY <1>6, <1>9 DEF WriteChunk, AdvanceCursor, IndexTrue
  <2> QED
    BY <1>4, <1>5, <2>2, <2>3, <2>4, TrueCallKept
<1> QED
  BY <1>8, <1>9

LEMMA GamesKeepTrue ==
  ASSUME IndexInv, IndexTrue, ChainGrows, ChainTyped', UNCHANGED <<indexed, syncs, written>>,
         gameNonce' <= IndexGames
  PROVE  IndexTrue'
<1>1. gameNonce \in Nat /\ gameNonce' \in Nat /\ gameNonce <= gameNonce' /\ CallsTyped
  BY NonceNat DEF ChainGrows, IndexInv, ChainTyped, gameNonce
<1>2. written' \subseteq 0..gameNonce'
  BY <1>1 DEF IndexTrue
<1>3. ASSUME NEW c \in Syncs PROVE CallTrue(c)'
  <2>1. CASE syncs[c].stage \in SyncStages
    <3>1. syncs[c] \in Sync /\ CallTrue(c)
      BY <1>1, <2>1, SyncFields DEF IndexTrue
    <3> QED
      BY <1>1, <2>1, <3>1, SeatedStays DEF CallTrue, Sync
  <2>2. CASE syncs[c].stage \notin SyncStages
    BY <2>2 DEF CallTrue, SyncStages
  <2> QED
    BY <2>1, <2>2
<1> QED
  BY <1>2, <1>3, SeatedStays DEF IndexTrue

LEMMA TrueSteps == IndexInv /\ IndexTrue /\ IndexOp => IndexTrue'
<1> SUFFICES ASSUME IndexInv, IndexTrue, IndexOp PROVE IndexTrue'
  OBVIOUS
<1>1. ChainTyped /\ gameNonce \in Nat /\ IndexGames \in Nat
  BY NonceNat, GameIndexAssumption DEF IndexInv
<1>2. CASE BoardExpires
  BY <1>2, SeatedStays DEF BoardExpires, IndexTrue, CallTrue, gameNonce
<1>3. ASSUME NEW p \in IndexPlayers, CreateChainGame(p) PROVE IndexTrue'
  <2>1. ChainTyped' /\ ChainGrows
    BY <1>1, <1>3, CreateKeeps
  <2>2. gameNonce' = gameNonce + 1 /\ gameNonce < IndexGames
    BY <1>1, <1>3 DEF CreateChainGame, gameNonce, ChainTyped
  <2> QED
    BY <1>1, <1>3, <2>1, <2>2, GamesKeepTrue DEF CreateChainGame
<1>4. ASSUME NEW p \in IndexPlayers, NEW id \in 0..gameNonce - 1,
             JoinChainGame(id, p) \/ FinishChainGame(id)
      PROVE  IndexTrue'
  <2>1. ChainTyped' /\ ChainGrows
    BY <1>1, <1>4, GameStepKeeps
  <2>2. gameNonce' = gameNonce
    BY <1>1, <1>4 DEF JoinChainGame, FinishChainGame, gameNonce, ChainTyped
  <2> QED
    BY <1>4, <2>1, <2>2, GamesKeepTrue DEF JoinChainGame, FinishChainGame, IndexTrue
<1>5. ASSUME NEW id \in 0..gameNonce - 1, FinishChainGame(id) PROVE IndexTrue'
  <2>1. PICK i : i = id + 1
    OBVIOUS
  <2>2. chainGames[i] \in GamesOnChain
    BY <1>1, <2>1 DEF ChainTyped, gameNonce
  <2>3. chainGames[i].white \in IndexPlayers
    BY <2>2 DEF GamesOnChain
  <2> QED
    BY <1>4, <1>5, <2>3
<1> QED
  BY <1>2, <1>3, <1>4, <1>5, RequestsTrue, ChunksTrue DEF IndexOp

LEMMA TrueInvariant == IndexSpec => []IndexTrue
<1>1. IndexInit => IndexTrue
  BY GameIndexAssumption DEF IndexInit, IndexTrue, CallTrue, NoSync, SyncStages, gameNonce
<1>2. IndexTrue /\ UNCHANGED indexVars => IndexTrue'
  BY SeatedStays DEF indexVars, IndexTrue, CallTrue, gameNonce
<1> QED
  BY <1>1, <1>2, TrueSteps, IndexInvariant, PTL DEF IndexSpec

(* Nobody's history ever shows a game he does not sit in on the chain,     *)
(* whatever reads fail and however syncs overtake each other; the index    *)
(* may lag behind the chain, it is never wrong about it.                   *)
THEOREM IndexStaysTrue == IndexSpec => [](\A pair \in indexed : SeatedThere(pair))
<1>1. IndexTrue => \A pair \in indexed : SeatedThere(pair)
  BY DEF IndexTrue
<1> QED
  BY <1>1, TrueInvariant, PTL

(* The syncs, the index and the cached leaderboard have their types: only  *)
(* ids of the chain's games and only addresses of its players occur.       *)
THEOREM IndexStaysTyped == IndexSpec => []IndexTypeOK
<1>1. IndexInv /\ IndexTrue => IndexTypeOK
  <2> SUFFICES ASSUME IndexInv, IndexTrue PROVE IndexTypeOK
    OBVIOUS
  <2>1. ChainTyped /\ CallsTyped /\ gameNonce \in Nat /\ IndexGames \in Nat /\ gameNonce <= IndexGames
    BY NonceNat, GameIndexAssumption DEF IndexInv, IndexTrue
  <2>2. \A pair : SeatedThere(pair) => pair \in IndexPlayers \X (0..IndexGames)
    <3>1. IndexPlayers \X (0..gameNonce) \subseteq IndexPlayers \X (0..IndexGames)
      BY <2>1
    <3> QED
      BY <2>1, <3>1, SeatedFacts
  <2>3. ASSUME NEW c \in Syncs, syncs[c] # NoSync
        PROVE  syncs[c].stage \in SyncStages /\ syncs[c].found \subseteq (IndexPlayers \X (0..IndexGames))
    <3>1. syncs[c] \in Sync /\ CallTrue(c)
      BY <2>1, <2>3 DEF CallsTyped, IndexTrue
    <3>2. syncs[c].stage \in SyncStages
      BY <3>1 DEF Sync
    <3> QED
      BY <2>2, <3>1, <3>2 DEF CallTrue
  <2>4. \A p : HasPlayed(p) => p \in IndexPlayers
    <3>1. 0..gameNonce - 1 \subseteq Nat
      BY <2>1
    <3> QED
      BY <2>1, <3>1, SeatsTyped DEF HasPlayed
  <2>5. ranked = NoBoard \/ ranked \subseteq IndexPlayers
    BY <2>4 DEF IndexInv, CursorCovers
  <2>6. indexed \subseteq (IndexPlayers \X (0..IndexGames)) /\ written \subseteq (0..IndexGames)
    BY <2>1, <2>2 DEF IndexTrue
  <2>7. chainGames \in Seq([white: IndexPlayers, black: IndexPlayers \cup {Empty}, over: BOOLEAN])
        /\ cursor \in Nat
    BY DEF IndexInv, ChainTyped, GamesOnChain
  <2> QED
    BY <2>3, <2>5, <2>6, <2>7 DEF IndexTypeOK
<1> QED
  BY <1>1, IndexInvariant, TrueInvariant, PTL
-----------------------------------------------------------------------------
(* Typing *)

(* What a handler at each stage has in hand. *)
CallShape(call) ==
  /\ call.kind = "claim" =>
       call.stage \in {"limited", "fresh", "reserved", "written", "listed", "answered"}
  /\ call.kind = "update" => call.stage \in {"limited", "found", "taken", "written"}
  /\ call.kind = "link" => call.stage = "seen"
  /\ call.kind # "link" => call.name \in Usernames
  /\ call.kind = "link" => call.to \in Addresses
  /\ call.stage \in {"found", "taken", "written"} => call.record \in Profile

Shaped == \A c \in ProfileCalls : profCalls[c] # NoProfileCall => CallShape(profCalls[c])

ProfileInv == ProfileTypeOK /\ Shaped

(* Whoever has the badge or will write a record with it. *)
OgRecord(record) == record # NoProfile /\ record.og
OgCall(call, a) == call # NoProfileCall /\ call.address = a /\ OgRecord(call.record)
Badged ==
  {a \in Addresses : OgRecord(profiles[a]) \/ \E c \in ProfileCalls : OgCall(profCalls[c], a)}

(* A badge was given with a number up to OgLimit. *)
BadgesNumbered ==
  IsFiniteSet(Badged) /\ Cardinality(Badged) <= total /\ Cardinality(Badged) <= OgLimit

-----------------------------------------------------------------------------
(* Claims that hold a name they have still to write, and updates that work *)
(* on a record.                                                            *)
Claims(d) == profCalls[d].stage \in {"reserved", "written"} /\ profCalls[d].kind = "claim"
Updates(c) == profCalls[c].stage \in {"found", "taken", "written"} /\ profCalls[c].kind = "update"
Updating(c, a) == profCalls[c] # NoProfileCall /\ profCalls[c].kind = "update" /\ profCalls[c].address = a
Rewritten(a) == \E c \in ProfileCalls : At(c, "update", "written") /\ profCalls[c].address = a
Shows(a) == profiles[a] # NoProfile /\ ~Rewritten(a)

OneUpdate ==
  \A c, d \in ProfileCalls, a \in Addresses : Updating(c, a) /\ Updating(d, a) => c = d

(* The names in hand are reserved for the address. *)
HandNames ==
  /\ \A d \in ProfileCalls : Claims(d) => names[profCalls[d].name] = profCalls[d].address
  /\ \A c \in ProfileCalls : Updates(c) => names[profCalls[c].record.username] = profCalls[c].address
  /\ \A c \in ProfileCalls : At(c, "update", "taken") =>
       names[profCalls[c].name] = profCalls[c].address /\ profCalls[c].name # profCalls[c].record.username

(* A name a claim has still to write is nobody else's and not shown yet. *)
HandApart ==
  \A d \in ProfileCalls : Claims(d) =>
    /\ \A e \in ProfileCalls : Claims(e) /\ profCalls[d].name = profCalls[e].name => d = e
    /\ \A c \in ProfileCalls : Updates(c) => profCalls[d].name # profCalls[c].record.username
    /\ \A c \in ProfileCalls : At(c, "update", "taken") => profCalls[d].name # profCalls[c].name
    /\ \A a \in Addresses : Shows(a) => profCalls[d].name # profiles[a].username

ShownMine == \A a \in Addresses : Shows(a) => names[profiles[a].username] = a

(* A claim writes the name it reserved. *)
NamedRecords ==
  \A d \in ProfileCalls : At(d, "claim", "written") => profCalls[d].record.username = profCalls[d].name

NamesGood == OneUpdate /\ HandNames /\ HandApart /\ ShownMine /\ NamedRecords

NamesKept == calm => NamesGood

-----------------------------------------------------------------------------
(* A claim that is listed or was answered with success left a profile. *)
ClaimsLand ==
  \A c \in ProfileCalls :
    At(c, "claim", "listed") \/ (At(c, "claim", "answered") /\ profCalls[c].ok)
      => profiles[profCalls[c].address] # NoProfile

(* A submission waits for a claim of the player, each for one of its own.  *)
OwnCalls ==
  /\ \A s \in Submissions : submissions[s].stage = "waiting" =>
       /\ submissions[s].call \in ProfileCalls
       /\ profCalls[submissions[s].call] # NoProfileCall
       /\ profCalls[submissions[s].call].kind = "claim"
       /\ profCalls[submissions[s].call].address = Me
  /\ \A s, t \in Submissions :
       /\ submissions[s].stage = "waiting" /\ submissions[t].stage = "waiting"
       /\ submissions[s].call = submissions[t].call
       => s = t

SuccessKept == modal.step = "success" => profiles[Me] # NoProfile

ClaimInv == ProfileInv /\ ModalTypeOK /\ ClaimsLand /\ OwnCalls /\ SuccessKept

-----------------------------------------------------------------------------
(* Typing is kept *)

LEMMA NotProfiles ==
  /\ NoProfile \notin Profile
  /\ NoProfileCall \notin ProfileCall
  /\ \A stage \in ProfileStages : stage # "idle"
<1>1. NoProfile \notin Profile
  <2>1. NoUsername \notin Usernames BY KeysAssumption
  <2> QED BY <2>1 DEF Profile, NoProfile
<1>2. \A stage \in ProfileStages : stage # "idle"
  BY DEF ProfileStages
<1> QED BY <1>1, <1>2 DEF ProfileCall, NoProfileCall

(* A handler that is at a stage is a call of its shape. *)
LEMMA HasCall ==
  ASSUME ProfileInv, NEW c \in ProfileCalls, profCalls[c].stage # "idle"
  PROVE  profCalls[c] # NoProfileCall /\ profCalls[c] \in ProfileCall /\ CallShape(profCalls[c])
BY DEF ProfileInv, ProfileTypeOK, Shaped, NoProfileCall

LEMMA CallChanges ==
  ASSUME ProfileInv, NEW c \in ProfileCalls, NEW call,
         profCalls' = [profCalls EXCEPT ![c] = call],
         call = NoProfileCall \/ (call \in ProfileCall /\ CallShape(call))
  PROVE  profCalls' \in [ProfileCalls -> ProfileCall \cup {NoProfileCall}] /\ Shaped'
BY DEF ProfileInv, ProfileTypeOK, Shaped

Goes(c, stage, record) == profCalls' = [profCalls EXCEPT ![c].stage = stage, ![c].record = record]

(* A call that goes on keeps what it has, except for the stage, or for the *)
(* record it prepares; a reply ends all but claims.                        *)
LEMMA Becomes ==
  ASSUME ProfileInv, NEW c \in ProfileCalls, profCalls[c] # NoProfileCall, CallShape(profCalls[c]),
         NEW stage \in ProfileStages, NEW record \in Profile \cup {NoProfile},
         Goes(c, stage, record)
  PROVE  /\ profCalls'[c] \in ProfileCall
         /\ profCalls'[c].stage = stage /\ profCalls'[c].record = record
         /\ profCalls'[c].kind = profCalls[c].kind /\ profCalls'[c].name = profCalls[c].name
         /\ profCalls'[c].address = profCalls[c].address /\ profCalls'[c].to = profCalls[c].to
         /\ profCalls'[c].ok = profCalls[c].ok
         /\ \A d \in ProfileCalls \ {c} : profCalls'[d] = profCalls[d]
         /\ profCalls' \in [ProfileCalls -> ProfileCall \cup {NoProfileCall}]
         /\ CallShape(profCalls'[c]) => Shaped'
<1>1. profCalls[c] \in ProfileCall /\ profCalls \in [ProfileCalls -> ProfileCall \cup {NoProfileCall}]
  BY DEF ProfileInv, ProfileTypeOK
<1>2. profCalls'[c] = [profCalls[c] EXCEPT !.stage = stage, !.record = record]
  BY <1>1 DEF Goes
<1>3. /\ profCalls'[c] \in ProfileCall
      /\ profCalls'[c].stage = stage /\ profCalls'[c].record = record
      /\ profCalls'[c].kind = profCalls[c].kind /\ profCalls'[c].name = profCalls[c].name
      /\ profCalls'[c].address = profCalls[c].address /\ profCalls'[c].to = profCalls[c].to
      /\ profCalls'[c].ok = profCalls[c].ok
  BY <1>1, <1>2 DEF ProfileCall
<1>4. \A d \in ProfileCalls \ {c} : profCalls'[d] = profCalls[d]
  BY <1>1 DEF Goes
<1>5. profCalls' \in [ProfileCalls -> ProfileCall \cup {NoProfileCall}]
  BY <1>1, <1>3 DEF Goes
<1>6. CallShape(profCalls'[c]) => Shaped'
  BY <1>4 DEF Shaped, ProfileInv
<1> QED BY <1>3, <1>4, <1>5, <1>6

LEMMA BecomesTyped ==
  ASSUME ProfileInv, NEW c \in ProfileCalls, profCalls[c] # NoProfileCall, CallShape(profCalls[c]),
         NEW stage \in ProfileStages, NEW record \in Profile \cup {NoProfile},
         Goes(c, stage, record),
         stage \in {"found", "taken", "written"} => record \in Profile,
         \/ profCalls[c].kind = "claim" /\ stage \in {"fresh", "reserved", "written", "listed"}
         \/ profCalls[c].kind = "update" /\ stage \in {"found", "taken", "written"}
  PROVE  profCalls' \in [ProfileCalls -> ProfileCall \cup {NoProfileCall}] /\ Shaped'
<1>1. /\ profCalls'[c].stage = stage /\ profCalls'[c].record = record
      /\ profCalls'[c].kind = profCalls[c].kind /\ profCalls'[c].name = profCalls[c].name
      /\ profCalls' \in [ProfileCalls -> ProfileCall \cup {NoProfileCall}]
      /\ CallShape(profCalls'[c]) => Shaped'
  BY Becomes
<1>2. CallShape(profCalls'[c])
  BY <1>1 DEF CallShape
<1> QED BY <1>1, <1>2

LEMMA StoreReplies ==
  ASSUME ProfileInv, NEW c \in ProfileCalls, profCalls[c] # NoProfileCall, CallShape(profCalls[c]),
         NEW ok \in BOOLEAN, Reply(c, ok)
  PROVE  /\ \A d \in ProfileCalls \ {c} : profCalls'[d] = profCalls[d]
         /\ profCalls[c].kind = "claim" =>
              /\ profCalls'[c].stage = "answered" /\ profCalls'[c].kind = "claim"
              /\ profCalls'[c].address = profCalls[c].address
              /\ profCalls'[c].record = profCalls[c].record
              /\ profCalls'[c].ok = ok
              /\ profCalls'[c] \in ProfileCall
         /\ profCalls[c].kind # "claim" => profCalls'[c] = NoProfileCall
         /\ profCalls' \in [ProfileCalls -> ProfileCall \cup {NoProfileCall}]
         /\ Shaped'
<1>1. profCalls[c] \in ProfileCall /\ profCalls \in [ProfileCalls -> ProfileCall \cup {NoProfileCall}]
  BY DEF ProfileInv, ProfileTypeOK
<1>2. /\ profCalls'[c] = (IF profCalls[c].kind = "claim"
                          THEN [profCalls[c] EXCEPT !.stage = "answered", !.ok = ok] ELSE NoProfileCall)
      /\ \A d \in ProfileCalls \ {c} : profCalls'[d] = profCalls[d]
  BY <1>1 DEF Reply
<1>5. profCalls' = [profCalls EXCEPT ![c] = profCalls'[c]]
  <2> DEFINE new == IF profCalls[c].kind = "claim"
                    THEN [profCalls[c] EXCEPT !.stage = "answered", !.ok = ok] ELSE NoProfileCall
  <2>1. profCalls' = [profCalls EXCEPT ![c] = new]
    BY DEF Reply
  <2> HIDE DEF new
  <2> QED BY <1>1, <2>1
<1>3. CASE profCalls[c].kind = "claim"
  <2>1. profCalls'[c] = [profCalls[c] EXCEPT !.stage = "answered", !.ok = ok]
    BY <1>2, <1>3
  <2>2. /\ profCalls'[c].stage = "answered" /\ profCalls'[c].ok = ok /\ profCalls'[c].kind = "claim"
        /\ profCalls'[c].address = profCalls[c].address /\ profCalls'[c].record = profCalls[c].record
        /\ profCalls'[c].name = profCalls[c].name
        /\ profCalls'[c] \in ProfileCall
    BY <1>1, <1>3, <2>1 DEF ProfileCall, ProfileStages
  <2>3. CallShape(profCalls'[c])
    BY <1>3, <2>2 DEF CallShape
  <2>4. profCalls' \in [ProfileCalls -> ProfileCall \cup {NoProfileCall}] /\ Shaped'
    BY <1>5, <2>2, <2>3, CallChanges
  <2> QED BY <1>2, <1>3, <2>2, <2>4
<1>4. CASE profCalls[c].kind # "claim"
  <2>1. profCalls'[c] = NoProfileCall
    BY <1>2, <1>4
  <2>2. profCalls' \in [ProfileCalls -> ProfileCall \cup {NoProfileCall}] /\ Shaped'
    BY <1>5, <2>1, CallChanges
  <2> QED BY <1>2, <1>4, <2>1, <2>2
<1> QED BY <1>3, <1>4

LEMMA ProfileInvInit == ProfileInit => ProfileInv
BY ProfileStoreAssumption DEF ProfileInit, ProfileInv, ProfileTypeOK, Shaped

LEMMA RecentTyped ==
  ASSUME NEW s \in Seq(Addresses), NEW a \in Addresses
  PROVE  LET longer == <<a>> \o s
         IN  SubSeq(longer, 1, IF Len(longer) < RecentLimit THEN Len(longer) ELSE RecentLimit) \in Seq(Addresses)
<1> DEFINE longer == <<a>> \o s
           n == IF Len(longer) < RecentLimit THEN Len(longer) ELSE RecentLimit
<1>1. longer \in Seq(Addresses) /\ Len(longer) \in Nat
  OBVIOUS
<1>2. n \in Nat /\ n <= Len(longer)
  BY <1>1, ProfileStoreAssumption
<1> HIDE DEF longer, n
<1>3. SubSeq(longer, 1, n) \in Seq(Addresses)
  BY <1>1, <1>2
<1> QED BY <1>3 DEF longer, n

LEMMA ProfileInvNext ==
  ASSUME ProfileInv, [ProfileOp]_profileVars
  PROVE  ProfileInv'
<1> USE DEF ProfileInv, ProfileTypeOK
<1>1. ASSUME NEW c \in ProfileCalls, NEW a \in Addresses, NEW n \in Usernames, PostClaim(c, a, n) \/ PatchProfile(c, a, n)
      PROVE  ProfileInv'
  <2> DEFINE call(kind) == [stage |-> "limited", kind |-> kind, address |-> a, name |-> n,
                            record |-> NoProfile, ok |-> FALSE, to |-> Nobody]
  <2>1. \A kind \in {"claim", "update"} : call(kind) \in ProfileCall /\ CallShape(call(kind))
    BY DEF ProfileCall, CallShape, ProfileStages
  <2>2. PICK kind \in {"claim", "update"} : checkRateLimit(c, kind, IF kind = "claim" THEN ClaimLimit ELSE UpdateLimit, a, n)
    BY <1>1 DEF PostClaim, PatchProfile
  <2>3. profCalls' = [profCalls EXCEPT ![c] = call(kind)]
        /\ rate' = [rate EXCEPT ![kind][a] = @ + 1]
    BY <2>2 DEF checkRateLimit
  <2>4. profCalls' \in [ProfileCalls -> ProfileCall \cup {NoProfileCall}] /\ Shaped'
    BY <2>1, <2>3, CallChanges
  <2>5. rate' \in [{"claim", "update"} -> [Addresses -> Nat]]
    BY <2>3
  <2>6. calm' \in BOOLEAN /\ UNCHANGED <<names, profiles, total, recent, alias>>
    BY <1>1 DEF PostClaim, PatchProfile
  <2> QED BY <2>4, <2>5, <2>6
<1>2. ASSUME NEW c \in ProfileCalls,
             ClaimReads(c) \/ ClaimReserves(c) \/ ClaimNumbered(c) \/ WriteProfile(c) \/ ListClaim(c)
             \/ UpdateReads(c) \/ UpdateReserves(c) \/ UpdateFrees(c) \/ linkProfileAlias(c)
      PROVE  ProfileInv'
  <2>0. profCalls[c] # NoProfileCall /\ profCalls[c] \in ProfileCall /\ CallShape(profCalls[c])
    BY <1>2, HasCall DEF ClaimReads, ClaimReserves, ClaimNumbered, WriteProfile, ListClaim, UpdateReads,
       UpdateReserves, UpdateFrees, linkProfileAlias, At
  <2> DEFINE call == profCalls[c]
  <2>a. /\ call.record \in Profile \cup {NoProfile} /\ call.address \in Addresses
        /\ call.name \in Usernames \cup {NoUsername}
    BY <2>0 DEF ProfileCall
  <2>1. CASE ClaimReads(c)
    <3>1. call.stage = "limited" /\ call.kind = "claim" BY <2>1 DEF ClaimReads, At
    <3>2. Become(c, "fresh") \/ Reply(c, FALSE) BY <2>1 DEF ClaimReads
    <3>3. CASE Become(c, "fresh")
      <4>1. Goes(c, "fresh", call.record)
        BY <2>0, <3>3 DEF Become, Goes, ProfileCall
      <4> QED BY <2>0, <2>1, <2>a, <3>1, <4>1, BecomesTyped DEF ClaimReads, CallShape, ProfileStages
    <3>4. CASE Reply(c, FALSE)
      BY <2>0, <2>1, <3>4, StoreReplies DEF ClaimReads
    <3> QED BY <3>2, <3>3, <3>4
  <2>2. CASE ClaimReserves(c)
    <3>1. call.stage = "fresh" /\ call.kind = "claim" BY <2>2 DEF ClaimReserves, At
    <3>2. (Become(c, "reserved") /\ names' = [names EXCEPT ![call.name] = call.address])
          \/ (Reply(c, FALSE) /\ UNCHANGED names)
      BY <2>2 DEF ClaimReserves
    <3>3. names' \in [Usernames -> Addresses \cup {Nobody}]
      BY <2>a, <3>2
    <3>4. CASE Become(c, "reserved")
      <4>1. Goes(c, "reserved", call.record)
        BY <2>0, <3>4 DEF Become, Goes, ProfileCall
      <4> QED BY <2>0, <2>2, <2>a, <3>1, <3>3, <4>1, BecomesTyped DEF ClaimReserves, ProfileStages, CallShape
    <3>5. CASE Reply(c, FALSE)
      BY <2>0, <2>2, <3>3, <3>5, StoreReplies DEF ClaimReserves
    <3> QED BY <3>2, <3>4, <3>5
  <2>3. CASE ClaimNumbered(c)
    <3>1. call.stage = "reserved" /\ call.kind = "claim" BY <2>3 DEF ClaimNumbered, At
    <3> DEFINE record == [username |-> call.name, og |-> total' <= OgLimit, recentChange |-> TRUE]
    <3>2. record \in Profile /\ Goes(c, "written", record)
      BY <2>0, <2>3, <3>1 DEF ClaimNumbered, Profile, CallShape, Goes
    <3> HIDE DEF record
    <3>3. profCalls' \in [ProfileCalls -> ProfileCall \cup {NoProfileCall}] /\ Shaped'
      BY <2>0, <3>1, <3>2, BecomesTyped DEF CallShape, ProfileStages
    <3>4. total' \in Nat
      BY <2>3 DEF ClaimNumbered
    <3> QED BY <2>3, <3>3, <3>4 DEF ClaimNumbered
  <2>4. CASE WriteProfile(c)
    <3>1. call.stage = "written" /\ call.record \in Profile /\ call.kind \in {"claim", "update"}
      BY <2>0, <2>4 DEF WriteProfile, CallShape, ProfileCall
    <3>2. profiles' \in [Addresses -> Profile \cup {NoProfile}]
      BY <2>4, <2>a, <3>1 DEF WriteProfile
    <3>3. CASE call.kind = "claim"
      <4>1. Goes(c, "listed", call.record)
        BY <2>0, <2>4, <3>3 DEF WriteProfile, Become, Goes, ProfileCall
      <4> QED BY <2>0, <2>4, <2>a, <3>2, <3>3, <4>1, BecomesTyped DEF WriteProfile, CallShape, ProfileStages
    <3>4. CASE call.kind # "claim"
      BY <2>0, <2>4, <3>2, <3>4, StoreReplies DEF WriteProfile
    <3> QED BY <3>3, <3>4
  <2>5. CASE ListClaim(c)
    <3>1. recent' \in Seq(Addresses)
      BY <2>a, <2>5, RecentTyped DEF ListClaim
    <3> QED BY <2>0, <2>5, <3>1, StoreReplies DEF ListClaim
  <2>6. CASE UpdateReads(c)
    <3>1. call.stage = "limited" /\ call.kind = "update" BY <2>6 DEF UpdateReads, At
    <3>2. \/ Reply(c, FALSE)
          \/ \E stage \in {"found", "written"} :
               /\ profiles[call.address] # NoProfile
               /\ Goes(c, stage, profiles[call.address])
      BY <2>6 DEF UpdateReads, getProfileByAddress, Goes
    <3>3. CASE Reply(c, FALSE)
      BY <2>0, <2>6, <3>3, StoreReplies DEF UpdateReads
    <3>4. ASSUME NEW stage \in {"found", "written"}, profiles[call.address] # NoProfile,
                 Goes(c, stage, profiles[call.address])
          PROVE  ProfileInv'
      <4>1. profiles[call.address] \in Profile
        BY <2>a, <3>4
      <4>2. profCalls' \in [ProfileCalls -> ProfileCall \cup {NoProfileCall}] /\ Shaped'
        BY <2>0, <3>1, <3>4, <4>1, BecomesTyped DEF CallShape, ProfileStages
      <4> QED BY <2>6, <4>2 DEF UpdateReads
    <3> QED BY <3>2, <3>3, <3>4
  <2>7. CASE UpdateReserves(c)
    <3>1. call.stage = "found" /\ call.kind = "update" BY <2>7 DEF UpdateReserves, At
    <3>2. (Become(c, "taken") /\ names' = [names EXCEPT ![call.name] = call.address])
          \/ (Reply(c, FALSE) /\ UNCHANGED names)
      BY <2>7 DEF UpdateReserves
    <3>3. names' \in [Usernames -> Addresses \cup {Nobody}]
      BY <2>a, <3>2
    <3>4. CASE Become(c, "taken")
      <4>1. Goes(c, "taken", call.record)
        BY <2>0, <3>4 DEF Become, Goes, ProfileCall
      <4> QED BY <2>0, <2>7, <2>a, <3>1, <3>3, <4>1, BecomesTyped DEF UpdateReserves, ProfileStages, CallShape
    <3>5. CASE Reply(c, FALSE)
      BY <2>0, <2>7, <3>3, <3>5, StoreReplies DEF UpdateReserves
    <3> QED BY <3>2, <3>4, <3>5
  <2>8. CASE UpdateFrees(c)
    <3>1. call.stage = "taken" /\ call.kind = "update" /\ call.record \in Profile
      BY <2>0, <2>8 DEF UpdateFrees, At, CallShape
    <3> DEFINE record == [call.record EXCEPT !.username = call.name, !.recentChange = TRUE]
    <3>2. record \in Profile
      BY <2>0, <3>1 DEF Profile, CallShape
    <3>3. Goes(c, "written", record)
      BY <2>0, <2>8 DEF UpdateFrees, ProfileCall, Goes
    <3> HIDE DEF record
    <3>4. profCalls' \in [ProfileCalls -> ProfileCall \cup {NoProfileCall}] /\ Shaped'
      BY <2>0, <3>1, <3>2, <3>3, BecomesTyped DEF CallShape, ProfileStages
    <3>5. names' \in [Usernames -> Addresses \cup {Nobody}]
      BY <2>8 DEF UpdateFrees
    <3> QED BY <2>8, <3>4, <3>5 DEF UpdateFrees
  <2>9. CASE linkProfileAlias(c)
    <3>1. alias' \in [Addresses -> Addresses \cup {Nobody}]
      BY <2>0, <2>9, <2>a DEF linkProfileAlias, At, CallShape
    <3> QED BY <2>0, <2>9, <3>1, StoreReplies DEF linkProfileAlias
  <2> QED BY <1>2, <2>1, <2>2, <2>3, <2>4, <2>5, <2>6, <2>7, <2>8, <2>9
<1>3. ASSUME NEW c \in ProfileCalls, NEW a \in Addresses, NEW b \in Addresses, LinkReads(c, a, b)
      PROVE  ProfileInv'
  BY <1>3 DEF LinkReads, ProfileCall, CallShape, Shaped, ProfileStages
<1>4. ASSUME NEW c \in ProfileCalls, ProfileAnswered(c) \/ ProfileCallDies(c)
      PROVE  ProfileInv'
  BY <1>4 DEF ProfileAnswered, ProfileCallDies, Shaped
<1>5. ASSUME NEW a \in Addresses, NEW kind \in {"claim", "update"}, RateWindowEnds(kind, a)
      PROVE  ProfileInv'
  BY <1>5 DEF RateWindowEnds, Shaped
<1>6. CASE MonthPasses
  BY <1>6 DEF MonthPasses, Shaped, Profile
<1>7. CASE UNCHANGED profileVars
  BY <1>7 DEF profileVars, Shaped
<1> QED BY <1>1, <1>2, <1>3, <1>4, <1>5, <1>6, <1>7 DEF ProfileOp

-----------------------------------------------------------------------------
(* The badge *)

(* A handler and a profile that show no badge that was not there before. *)
LEMMA NoNewBadge ==
  ASSUME NEW c \in ProfileCalls, \A d \in ProfileCalls \ {c} : profCalls'[d] = profCalls[d],
         \A a \in Addresses : OgCall(profCalls'[c], a) => a \in Badged,
         \A a \in Addresses : OgRecord(profiles'[a]) => a \in Badged
  PROVE  Badged' \subseteq Badged
BY DEF Badged

LEMMA SmallerBadged ==
  ASSUME ProfileInv, BadgesNumbered, Badged' \subseteq Badged, total' \in Nat, total' >= total
  PROVE  BadgesNumbered'
<1>1. IsFiniteSet(Badged') /\ Cardinality(Badged') <= Cardinality(Badged)
  BY FS_Subset DEF BadgesNumbered
<1>2. Cardinality(Badged') \in Nat /\ Cardinality(Badged) \in Nat
  BY <1>1, FS_CardinalityType DEF BadgesNumbered
<1> QED BY <1>1, <1>2, ProfileStoreAssumption DEF BadgesNumbered, ProfileInv, ProfileTypeOK

LEMMA OneMoreBadge ==
  ASSUME ProfileInv, BadgesNumbered, NEW a \in Addresses, Badged' \subseteq Badged \cup {a},
         total' = total + 1, total' <= OgLimit
  PROVE  BadgesNumbered'
<1>1. IsFiniteSet(Badged \cup {a}) /\ Cardinality(Badged \cup {a}) <= Cardinality(Badged) + 1
  <2>0. IsFiniteSet(Badged) /\ Cardinality(Badged) \in Nat
    BY FS_CardinalityType DEF BadgesNumbered
  <2>1. CASE a \in Badged
    <3>1. Badged \cup {a} = Badged
      BY <2>1
    <3> QED BY <2>0, <3>1
  <2>2. CASE a \notin Badged
    <3>1. IsFiniteSet(Badged \cup {a}) /\ Cardinality(Badged \cup {a}) = Cardinality(Badged) + 1
      BY <2>0, <2>2, FS_AddElement
    <3> QED BY <2>0, <3>1
  <2> QED BY <2>1, <2>2
<1>2. IsFiniteSet(Badged') /\ Cardinality(Badged') <= Cardinality(Badged \cup {a})
  BY <1>1, FS_Subset
<1>3. Cardinality(Badged') \in Nat /\ Cardinality(Badged) \in Nat /\ Cardinality(Badged \cup {a}) \in Nat
  BY <1>1, <1>2, FS_CardinalityType DEF BadgesNumbered
<1>4. total \in Nat /\ OgLimit \in Nat
  BY ProfileStoreAssumption DEF ProfileInv, ProfileTypeOK
<1>5. Cardinality(Badged') <= total' /\ Cardinality(Badged') <= OgLimit
  BY <1>1, <1>2, <1>3, <1>4 DEF BadgesNumbered
<1> QED BY <1>2, <1>5 DEF BadgesNumbered

LEMMA BadgesNumberedNext ==
  ASSUME ProfileInv, BadgesNumbered, [ProfileOp]_profileVars
  PROVE  BadgesNumbered'
<1>0. total \in Nat /\ profCalls \in [ProfileCalls -> ProfileCall \cup {NoProfileCall}]
      /\ profiles \in [Addresses -> Profile \cup {NoProfile}]
  BY DEF ProfileInv, ProfileTypeOK
<1>a. ASSUME NEW c \in ProfileCalls
      PROVE  /\ \A a \in Addresses : OgCall(profCalls[c], a) => a \in Badged
             /\ \A a \in Addresses : OgRecord(profiles[a]) => a \in Badged
  BY DEF Badged
<1>b. \A a : ~OgCall(NoProfileCall, a)
  BY DEF OgCall
<1>c. ASSUME NEW c \in ProfileCalls, NEW stage, profCalls[c] # NoProfileCall, Become(c, stage)
      PROVE  /\ \A d \in ProfileCalls \ {c} : profCalls'[d] = profCalls[d]
             /\ \A a : OgCall(profCalls'[c], a) => OgCall(profCalls[c], a)
  <2>1. profCalls[c] \in ProfileCall
    BY <1>0, <1>c
  <2>2. /\ profCalls'[c].address = profCalls[c].address /\ profCalls'[c].record = profCalls[c].record
        /\ \A d \in ProfileCalls \ {c} : profCalls'[d] = profCalls[d]
    BY <1>0, <1>c, <2>1 DEF Become, ProfileCall
  <2> QED BY <1>c, <2>2 DEF OgCall
<1>d. ASSUME NEW c \in ProfileCalls, NEW ok \in BOOLEAN, profCalls[c] # NoProfileCall, Reply(c, ok)
      PROVE  /\ \A d \in ProfileCalls \ {c} : profCalls'[d] = profCalls[d]
             /\ \A a : OgCall(profCalls'[c], a) => OgCall(profCalls[c], a)
  <2>0. CallShape(profCalls[c])
    BY <1>d DEF ProfileInv, Shaped
  <2>1. CASE profCalls[c].kind = "claim"
    BY <1>d, <2>0, <2>1, StoreReplies DEF OgCall
  <2>2. CASE profCalls[c].kind # "claim"
    BY <1>b, <1>d, <2>0, <2>2, StoreReplies
  <2> QED BY <2>1, <2>2
<1>1. ASSUME NEW c \in ProfileCalls, NEW a \in Addresses, NEW n \in Usernames, PostClaim(c, a, n) \/ PatchProfile(c, a, n)
      PROVE  BadgesNumbered'
  <2>1. profCalls'[c].record = NoProfile /\ UNCHANGED <<profiles, total>>
        /\ \A d \in ProfileCalls \ {c} : profCalls'[d] = profCalls[d]
    BY <1>0, <1>1 DEF PostClaim, PatchProfile, checkRateLimit
  <2>2. Badged' \subseteq Badged
    BY <1>a, <2>1, NoNewBadge DEF OgCall, OgRecord
  <2> QED BY <1>0, <2>1, <2>2, SmallerBadged
<1>2. ASSUME NEW c \in ProfileCalls, ClaimNumbered(c)
      PROVE  BadgesNumbered'
  <2> DEFINE a == profCalls[c].address
             record == [username |-> profCalls[c].name, og |-> total' <= OgLimit, recentChange |-> TRUE]
  <2>0. profCalls[c] \in ProfileCall /\ a \in Addresses
    BY <1>0, <1>2, HasCall DEF ClaimNumbered, At, ProfileCall
  <2>1. /\ profCalls'[c].address = a /\ profCalls'[c].record = record
        /\ \A d \in ProfileCalls \ {c} : profCalls'[d] = profCalls[d]
    BY <1>0, <1>2, <2>0 DEF ClaimNumbered, ProfileCall
  <2>2. total' = total + 1 /\ UNCHANGED profiles
    BY <1>2 DEF ClaimNumbered
  <2>3. CASE total' <= OgLimit
    <3>1. Badged' \subseteq Badged \cup {a}
      BY <2>1, <2>2 DEF Badged, OgCall
    <3> QED BY <2>0, <2>2, <2>3, <3>1, OneMoreBadge
  <2>4. CASE ~(total' <= OgLimit)
    <3>a. (total' <= OgLimit) = FALSE
      BY <2>4, SMT
    <3>b. record = [username |-> profCalls[c].name, og |-> FALSE, recentChange |-> TRUE]
      BY <3>a, Zenon
    <3>0. record.og = FALSE
      BY <3>b, SMT
    <3> HIDE DEF record
    <3>1. ~OgRecord(profCalls'[c].record)
      BY <2>1, <3>0 DEF OgRecord
    <3>2. Badged' \subseteq Badged
      BY <1>a, <2>1, <2>2, <3>1, NoNewBadge DEF OgCall
    <3> QED BY <1>0, <2>2, <3>2, SmallerBadged
  <2> QED BY <2>3, <2>4
<1>3. ASSUME NEW c \in ProfileCalls,
             ClaimReads(c) \/ ClaimReserves(c) \/ ListClaim(c) \/ UpdateReserves(c) \/ linkProfileAlias(c)
      PROVE  BadgesNumbered'
  <2>1. /\ profCalls[c] # NoProfileCall /\ UNCHANGED <<profiles, total>>
        /\ (\E stage : Become(c, stage)) \/ (\E ok \in BOOLEAN : Reply(c, ok))
    BY <1>3, HasCall DEF ClaimReads, ClaimReserves, ListClaim, UpdateReserves, linkProfileAlias, At
  <2>2. /\ \A d \in ProfileCalls \ {c} : profCalls'[d] = profCalls[d]
        /\ \A a : OgCall(profCalls'[c], a) => OgCall(profCalls[c], a)
    BY <1>c, <1>d, <2>1
  <2>3. Badged' \subseteq Badged
    BY <1>a, <2>1, <2>2, NoNewBadge
  <2> QED BY <1>0, <2>1, <2>3, SmallerBadged
<1>4. ASSUME NEW c \in ProfileCalls, WriteProfile(c)
      PROVE  BadgesNumbered'
  <2>1. /\ profCalls[c] # NoProfileCall /\ UNCHANGED total
        /\ (\E stage : Become(c, stage)) \/ (\E ok \in BOOLEAN : Reply(c, ok))
    BY <1>4, HasCall DEF WriteProfile
  <2>2. /\ \A d \in ProfileCalls \ {c} : profCalls'[d] = profCalls[d]
        /\ \A a : OgCall(profCalls'[c], a) => OgCall(profCalls[c], a)
    BY <1>c, <1>d, <2>1
  <2>3. profiles' = [profiles EXCEPT ![profCalls[c].address] = profCalls[c].record]
    BY <1>4 DEF WriteProfile
  <2>4. \A a \in Addresses : OgRecord(profiles'[a]) => OgRecord(profiles[a]) \/ OgCall(profCalls[c], a)
    BY <1>0, <2>1, <2>3 DEF OgCall
  <2>5. Badged' \subseteq Badged
    BY <1>a, <2>2, <2>4, NoNewBadge
  <2> QED BY <1>0, <2>1, <2>5, SmallerBadged
<1>5. ASSUME NEW c \in ProfileCalls, UpdateReads(c)
      PROVE  BadgesNumbered'
  <2> DEFINE a == profCalls[c].address
  <2>1. /\ profCalls[c] # NoProfileCall /\ UNCHANGED <<profiles, total>>
        /\ \/ Reply(c, FALSE)
           \/ \E stage \in {"found", "written"} :
                profCalls' = [profCalls EXCEPT ![c].record = profiles[a], ![c].stage = stage]
    BY <1>5, HasCall DEF UpdateReads, At, getProfileByAddress
  <2>2. CASE Reply(c, FALSE)
    <3>1. /\ \A d \in ProfileCalls \ {c} : profCalls'[d] = profCalls[d]
          /\ \A b : OgCall(profCalls'[c], b) => OgCall(profCalls[c], b)
      BY <1>d, <2>1, <2>2
    <3>2. Badged' \subseteq Badged
      BY <1>a, <2>1, <3>1, NoNewBadge
    <3> QED BY <1>0, <2>1, <3>2, SmallerBadged
  <2>3. ASSUME NEW stage \in {"found", "written"},
               profCalls' = [profCalls EXCEPT ![c].record = profiles[a], ![c].stage = stage]
        PROVE  BadgesNumbered'
    <3>1. profCalls[c] \in ProfileCall
      BY <1>0, <2>1
    <3>2. /\ profCalls'[c].address = a /\ profCalls'[c].record = profiles[a]
          /\ \A d \in ProfileCalls \ {c} : profCalls'[d] = profCalls[d]
      BY <1>0, <2>3, <3>1 DEF ProfileCall
    <3>3. Badged' \subseteq Badged
      BY <1>a, <2>1, <3>2, NoNewBadge DEF OgCall
    <3> QED BY <1>0, <2>1, <3>3, SmallerBadged
  <2> QED BY <2>1, <2>2, <2>3
<1>6. ASSUME NEW c \in ProfileCalls, UpdateFrees(c)
      PROVE  BadgesNumbered'
  <2>0. profCalls[c] \in ProfileCall /\ profCalls[c].record \in Profile /\ profCalls[c] # NoProfileCall
    BY <1>0, <1>6, HasCall DEF UpdateFrees, At, CallShape
  <2>1. /\ profCalls'[c].address = profCalls[c].address /\ profCalls'[c].record.og = profCalls[c].record.og
        /\ \A d \in ProfileCalls \ {c} : profCalls'[d] = profCalls[d]
    BY <1>0, <1>6, <2>0 DEF UpdateFrees, ProfileCall, Profile
  <2>2. UNCHANGED <<profiles, total>>
    BY <1>6 DEF UpdateFrees
  <2>3. Badged' \subseteq Badged
    BY <1>a, <2>0, <2>1, <2>2, NoNewBadge, NotProfiles DEF OgCall, OgRecord
  <2> QED BY <1>0, <2>2, <2>3, SmallerBadged
<1>7. ASSUME NEW c \in ProfileCalls, NEW a \in Addresses, NEW b \in Addresses, LinkReads(c, a, b)
      PROVE  BadgesNumbered'
  <2>1. profCalls'[c].record = NoProfile /\ UNCHANGED <<profiles, total>>
        /\ \A d \in ProfileCalls \ {c} : profCalls'[d] = profCalls[d]
    BY <1>0, <1>7 DEF LinkReads
  <2>2. Badged' \subseteq Badged
    BY <1>a, <2>1, NoNewBadge DEF OgCall, OgRecord
  <2> QED BY <1>0, <2>1, <2>2, SmallerBadged
<1>8. ASSUME NEW c \in ProfileCalls, ProfileAnswered(c) \/ ProfileCallDies(c)
      PROVE  BadgesNumbered'
  <2>1. profCalls'[c] = NoProfileCall /\ UNCHANGED <<profiles, total>>
        /\ \A d \in ProfileCalls \ {c} : profCalls'[d] = profCalls[d]
    BY <1>0, <1>8 DEF ProfileAnswered, ProfileCallDies
  <2>2. Badged' \subseteq Badged
    BY <1>a, <1>b, <2>1, NoNewBadge
  <2> QED BY <1>0, <2>1, <2>2, SmallerBadged
<1>9. CASE MonthPasses
  <2>1. \A a \in Addresses : OgRecord(profiles'[a]) => OgRecord(profiles[a])
    BY <1>0, <1>9 DEF MonthPasses, OgRecord, Profile
  <2>2. UNCHANGED <<profCalls, total>>
    BY <1>9 DEF MonthPasses
  <2>3. Badged' \subseteq Badged
    BY <2>1, <2>2 DEF Badged
  <2> QED BY <1>0, <2>2, <2>3, SmallerBadged
<1>10. ASSUME UNCHANGED <<profCalls, profiles, total>>
       PROVE  BadgesNumbered'
  BY <1>10 DEF BadgesNumbered, Badged
<1>11. CASE UNCHANGED profileVars
  BY <1>10, <1>11 DEF profileVars
<1>12. ASSUME NEW a \in Addresses, NEW kind \in {"claim", "update"}, RateWindowEnds(kind, a)
       PROVE  BadgesNumbered'
  BY <1>10, <1>12 DEF RateWindowEnds
<1> QED BY <1>1, <1>2, <1>3, <1>4, <1>5, <1>6, <1>7, <1>8, <1>9, <1>11, <1>12 DEF ProfileOp

LEMMA BadgesNumberedInit == ProfileInit => BadgesNumbered
<1> SUFFICES ASSUME ProfileInit PROVE BadgesNumbered
  OBVIOUS
<1>1. Badged = {}
  BY DEF ProfileInit, Badged, OgRecord, OgCall
<1> QED BY <1>1, FS_EmptySet, ProfileStoreAssumption DEF BadgesNumbered, ProfileInit

LEMMA ScarceFromNumbers == BadgesNumbered => OgIsScarce
<1> SUFFICES ASSUME BadgesNumbered PROVE OgIsScarce
  OBVIOUS
<1> DEFINE BadgesShown == {a \in Addresses : profiles[a] # NoProfile /\ profiles[a].og}
<1>1. BadgesShown \subseteq Badged
  BY DEF Badged, OgRecord
<1>2. IsFiniteSet(BadgesShown) /\ Cardinality(BadgesShown) <= Cardinality(Badged)
  BY <1>1, FS_Subset DEF BadgesNumbered
<1>3. Cardinality(BadgesShown) \in Nat /\ Cardinality(Badged) \in Nat
  BY <1>2, FS_CardinalityType DEF BadgesNumbered
<1> QED BY <1>2, <1>3, ProfileStoreAssumption DEF BadgesNumbered, OgIsScarce

(* Never do more than OgLimit profiles carry the badge, however claims and *)
(* updates interleave, whatever handlers die and however many profiles     *)
(* there are.                                                              *)
THEOREM BadgesStayScarce == ProfileSpec => []OgIsScarce
<1>1. ProfileInit => ProfileInv /\ BadgesNumbered
  BY ProfileInvInit, BadgesNumberedInit
<1>2. ProfileInv /\ BadgesNumbered /\ [ProfileOp]_profileVars => (ProfileInv /\ BadgesNumbered)'
  BY ProfileInvNext, BadgesNumberedNext
<1>3. ProfileInv /\ BadgesNumbered => OgIsScarce
  BY ScarceFromNumbers
<1> QED BY <1>1, <1>2, <1>3, PTL DEF ProfileSpec

-----------------------------------------------------------------------------
(* The names *)

(* An update begins only where no other one of the address runs. *)
LEMMA OneUpdateStays ==
  ASSUME OneUpdate, NEW c \in ProfileCalls, \A d \in ProfileCalls \ {c} : profCalls'[d] = profCalls[d],
         \A a \in Addresses : Updating(c, a)' => Updating(c, a)
  PROVE  OneUpdate'
BY DEF OneUpdate, Updating

(* A handler that has no name and no record in hand disturbs no name. *)
LEMMA QuietNames ==
  ASSUME NamesGood, OneUpdate', NEW c \in ProfileCalls,
         \A d \in ProfileCalls \ {c} : profCalls'[d] = profCalls[d],
         ~Claims(c)', ~Updates(c)', ~At(c, "update", "written"),
         UNCHANGED <<names, profiles>>
  PROVE  NamesGood'
<1>1. \A a \in Addresses : Rewritten(a)' <=> Rewritten(a)
  BY DEF Rewritten, At, Updates
<1>2. HandNames'
  BY DEF NamesGood, HandNames, Claims, Updates, At
<1>3. ShownMine'
  BY <1>1 DEF NamesGood, ShownMine, Shows
<1>4. HandApart'
  <2> SUFFICES ASSUME NEW d \in ProfileCalls, Claims(d)'
               PROVE  /\ \A e \in ProfileCalls : Claims(e)' /\ profCalls'[d].name = profCalls'[e].name => d = e
                      /\ \A e \in ProfileCalls : Updates(e)' => profCalls'[d].name # profCalls'[e].record.username
                      /\ \A e \in ProfileCalls : At(e, "update", "taken")' => profCalls'[d].name # profCalls'[e].name
                      /\ \A a \in Addresses : Shows(a)' => profCalls'[d].name # profiles'[a].username
    BY DEF HandApart
  <2>1. d # c /\ profCalls'[d] = profCalls[d] /\ Claims(d)
    BY DEF Claims
  <2>2. ASSUME NEW e \in ProfileCalls, Claims(e)' \/ Updates(e)' \/ At(e, "update", "taken")'
        PROVE  e # c /\ profCalls'[e] = profCalls[e]
    BY <2>2 DEF Claims, Updates, At
  <2>3. \A e \in ProfileCalls : Claims(e)' /\ profCalls'[d].name = profCalls'[e].name => d = e
    BY <2>1, <2>2 DEF NamesGood, HandApart, Claims
  <2>4. \A e \in ProfileCalls : Updates(e)' => profCalls'[d].name # profCalls'[e].record.username
    BY <2>1, <2>2 DEF NamesGood, HandApart, Updates
  <2>5. \A e \in ProfileCalls : At(e, "update", "taken")' => profCalls'[d].name # profCalls'[e].name
    BY <2>1, <2>2 DEF NamesGood, HandApart, At
  <2>6. \A a \in Addresses : Shows(a)' => profCalls'[d].name # profiles'[a].username
    BY <1>1, <2>1 DEF NamesGood, HandApart, Shows
  <2> QED BY <2>3, <2>4, <2>5, <2>6
<1>5. NamedRecords'
  BY DEF NamesGood, NamedRecords, Claims, At
<1> QED BY <1>2, <1>3, <1>4, <1>5 DEF NamesGood

(* Other handlers write what they wrote. *)
LEMMA NamedStays ==
  ASSUME NamedRecords, NEW c \in ProfileCalls, \A d \in ProfileCalls \ {c} : profCalls'[d] = profCalls[d],
         ~At(c, "claim", "written")'
  PROVE  NamedRecords'
BY DEF NamedRecords, At

LEMMA NamesKeptNext ==
  ASSUME ProfileInv, NamesKept, [ProfileOp]_profileVars
  PROVE  NamesKept'
<1> SUFFICES ASSUME calm' PROVE NamesGood'
  BY DEF NamesKept
<1>0. /\ profCalls \in [ProfileCalls -> ProfileCall \cup {NoProfileCall}]
      /\ profiles \in [Addresses -> Profile \cup {NoProfile}]
      /\ names \in [Usernames -> Addresses \cup {Nobody}]
  BY DEF ProfileInv, ProfileTypeOK
<1>a. NoProfileCall.stage = "idle"
  BY DEF NoProfileCall
<1>b. calm => NamesGood
  BY DEF NamesKept
<1>f. ASSUME NEW d \in ProfileCalls
      PROVE  /\ Claims(d) => /\ profCalls[d].name \in Usernames
                             /\ profCalls[d].address \in Addresses /\ profCalls[d].address # Nobody
             /\ Updates(d) => /\ profCalls[d].name \in Usernames
                              /\ profCalls[d].record \in Profile /\ profCalls[d].record.username \in Usernames
                              /\ profCalls[d].address \in Addresses /\ profCalls[d].address # Nobody
                              /\ Updating(d, profCalls[d].address)
             /\ At(d, "update", "taken") \/ At(d, "update", "written") => Updates(d)
  <2>1. profCalls[d] # NoProfileCall =>
          /\ profCalls[d].address \in Addresses /\ profCalls[d].address # Nobody
          /\ CallShape(profCalls[d])
    BY <1>0, KeysAssumption DEF ProfileCall, ProfileInv, Shaped
  <2>2. Claims(d) \/ Updates(d) => profCalls[d] # NoProfileCall
    BY <1>a DEF Claims, Updates
  <2>3. \A record \in Profile : record.username \in Usernames
    BY DEF Profile
  <2> QED BY <2>1, <2>2, <2>3 DEF CallShape, Claims, Updates, Updating, At
<1>g. \A b \in Addresses : b # Nobody /\ (profiles[b] # NoProfile => profiles[b].username \in Usernames)
  BY <1>0, KeysAssumption DEF Profile
(* What a call is after one of the moves the actions share. *)
<1>c. ASSUME NEW c \in ProfileCalls, NEW stage \in ProfileStages, profCalls[c] # NoProfileCall, Become(c, stage)
      PROVE  /\ \A d \in ProfileCalls \ {c} : profCalls'[d] = profCalls[d]
             /\ profCalls'[c].stage = stage /\ profCalls'[c].kind = profCalls[c].kind
             /\ profCalls'[c].name = profCalls[c].name /\ profCalls'[c].address = profCalls[c].address
             /\ profCalls'[c].record = profCalls[c].record /\ profCalls'[c] # NoProfileCall
  <2>1. profCalls[c] \in ProfileCall
    BY <1>0, <1>c
  <2>2. /\ profCalls'[c].stage = stage /\ profCalls'[c].kind = profCalls[c].kind
        /\ profCalls'[c].name = profCalls[c].name /\ profCalls'[c].address = profCalls[c].address
        /\ profCalls'[c].record = profCalls[c].record
        /\ \A d \in ProfileCalls \ {c} : profCalls'[d] = profCalls[d]
    BY <1>0, <1>c, <2>1 DEF Become, ProfileCall
  <2> QED BY <1>a, <1>c, <2>2, NotProfiles
<1>d. ASSUME NEW c \in ProfileCalls, NEW ok \in BOOLEAN, profCalls[c] # NoProfileCall, Reply(c, ok)
      PROVE  /\ \A d \in ProfileCalls \ {c} : profCalls'[d] = profCalls[d]
             /\ profCalls'[c].stage \in {"idle", "answered"}
             /\ profCalls'[c] # NoProfileCall => profCalls[c].kind = "claim" /\ profCalls'[c].kind = "claim"
  <2>0. CallShape(profCalls[c])
    BY <1>d DEF ProfileInv, Shaped
  <2>1. CASE profCalls[c].kind = "claim"
    BY <1>d, <2>0, <2>1, StoreReplies
  <2>2. CASE profCalls[c].kind # "claim"
    BY <1>a, <1>d, <2>0, <2>2, StoreReplies
  <2> QED BY <2>1, <2>2
(* A refusal, and other replies of a handler that does not write. *)
<1>e. ASSUME NEW c \in ProfileCalls, NEW ok \in BOOLEAN, calm, profCalls[c] # NoProfileCall, Reply(c, ok),
             ~At(c, "update", "written"), UNCHANGED <<names, profiles>>
      PROVE  NamesGood'
  <2>1. ~Claims(c)' /\ ~Updates(c)'
    BY <1>d, <1>e DEF Claims, Updates
  <2>2. OneUpdate'
    <3>1. \A a \in Addresses : ~Updating(c, a)'
      BY <1>d, <1>e DEF Updating
    <3> QED BY <1>b, <1>d, <1>e, <3>1, OneUpdateStays DEF NamesGood
  <2> QED BY <1>b, <1>d, <1>e, <2>1, <2>2, QuietNames
<1>1. ASSUME NEW c \in ProfileCalls, NEW a \in Addresses, NEW n \in Usernames, PostClaim(c, a, n) \/ PatchProfile(c, a, n)
      PROVE  NamesGood'
  <2>0. checkRateLimit(c, "claim", ClaimLimit, a, n) \/ checkRateLimit(c, "update", UpdateLimit, a, n)
    BY <1>1 DEF PostClaim, PatchProfile
  <2>c. calm /\ UNCHANGED <<names, profiles>>
    BY <1>1 DEF PostClaim, PatchProfile
  <2>a. /\ profCalls[c] = NoProfileCall
        /\ profCalls'[c].stage = "limited" /\ profCalls'[c].address = a
        /\ \A d \in ProfileCalls \ {c} : profCalls'[d] = profCalls[d]
    BY <1>0, <2>0 DEF checkRateLimit
  <2>b. profCalls'[c].kind = "update" => ~\E d \in ProfileCalls : Updating(d, a)
    <3>1. CASE PostClaim(c, a, n)
      BY <1>0, <3>1 DEF PostClaim, checkRateLimit
    <3>2. CASE PatchProfile(c, a, n)
      BY <3>2 DEF PatchProfile, Updating
    <3> QED BY <1>1, <3>1, <3>2
  <2>1. /\ profCalls[c] = NoProfileCall /\ calm /\ UNCHANGED <<names, profiles>>
        /\ profCalls'[c].stage = "limited" /\ profCalls'[c].address = a
        /\ profCalls'[c].kind = "update" => ~\E d \in ProfileCalls : Updating(d, a)
        /\ \A d \in ProfileCalls \ {c} : profCalls'[d] = profCalls[d]
    BY <2>a, <2>b, <2>c
  <2>2. OneUpdate'
    BY <1>b, <2>1 DEF NamesGood, OneUpdate, Updating
  <2>3. ~Claims(c)' /\ ~Updates(c)' /\ ~At(c, "update", "written")
    BY <1>a, <2>1 DEF Claims, Updates, At
  <2> QED BY <1>b, <2>1, <2>2, <2>3, QuietNames
<1>2. ASSUME NEW c \in ProfileCalls, ClaimReads(c)
      PROVE  NamesGood'
  <2>1. /\ profCalls[c] # NoProfileCall /\ At(c, "claim", "limited") /\ calm
        /\ UNCHANGED <<names, profiles>>
        /\ Become(c, "fresh") \/ Reply(c, FALSE)
    BY <1>2, HasCall DEF ClaimReads, At
  <2>2. ~At(c, "update", "written")
    BY <2>1 DEF At
  <2>3. CASE Become(c, "fresh")
    <3>1. /\ \A d \in ProfileCalls \ {c} : profCalls'[d] = profCalls[d]
          /\ profCalls'[c].stage = "fresh" /\ profCalls'[c].kind = "claim"
      BY <1>c, <2>1, <2>3 DEF ProfileStages, At
    <3>2. OneUpdate'
      BY <1>b, <2>1, <3>1, OneUpdateStays DEF NamesGood, Updating
    <3> QED BY <1>b, <2>1, <2>2, <3>1, <3>2, QuietNames DEF Claims, Updates
  <2>4. CASE Reply(c, FALSE)
    BY <1>e, <2>1, <2>2, <2>4
  <2> QED BY <2>1, <2>3, <2>4
<1>3. ASSUME NEW c \in ProfileCalls, ClaimReserves(c)
      PROVE  NamesGood'
  <2> DEFINE n == profCalls[c].name
             a == profCalls[c].address
  <2>1. /\ profCalls[c] # NoProfileCall /\ At(c, "claim", "fresh") /\ calm
        /\ UNCHANGED profiles
        /\ \/ Become(c, "reserved") /\ names[n] = Nobody /\ names' = [names EXCEPT ![n] = a]
           \/ Reply(c, FALSE) /\ UNCHANGED names
    BY <1>3, HasCall DEF ClaimReserves, At, isUsernameAvailable
  <2>2. CASE Reply(c, FALSE) /\ UNCHANGED names
    BY <1>e, <2>1, <2>2 DEF At
  <2>3. CASE Become(c, "reserved") /\ names[n] = Nobody /\ names' = [names EXCEPT ![n] = a]
    <3>1. /\ \A d \in ProfileCalls \ {c} : profCalls'[d] = profCalls[d]
          /\ profCalls'[c].stage = "reserved" /\ profCalls'[c].kind = "claim"
          /\ profCalls'[c].name = n /\ profCalls'[c].address = a
      BY <1>c, <2>1, <2>3 DEF ProfileStages, At
    <3>2. n \in Usernames /\ a \in Addresses /\ a # Nobody
      BY <1>0, <1>g, <2>1, HasCall DEF CallShape, ProfileCall, At
    <3>3. /\ names'[n] = a
          /\ \A m \in Usernames : names[m] # Nobody => m # n /\ names'[m] = names[m]
      BY <1>0, <2>3, <3>2
    <3>4. OneUpdate'
      BY <1>b, <2>1, <3>1, OneUpdateStays DEF NamesGood, Updating
    <3>5. \A b \in Addresses : Rewritten(b)' <=> Rewritten(b)
      BY <2>1, <3>1 DEF Rewritten, At
    <3>6. ShownMine'
      BY <1>b, <1>g, <2>1, <3>3, <3>5 DEF NamesGood, ShownMine, Shows
    <3>7. ASSUME NEW d \in ProfileCalls \ {c}, Claims(d)' \/ Updates(d)' \/ At(d, "update", "taken")'
          PROVE  /\ profCalls'[d] = profCalls[d]
                 /\ Claims(d)' => Claims(d) /\ names[profCalls[d].name] = profCalls[d].address
                                  /\ names[profCalls[d].name] # Nobody /\ profCalls[d].name \in Usernames
                 /\ Updates(d)' => Updates(d) /\ names[profCalls[d].record.username] = profCalls[d].address
                                   /\ names[profCalls[d].record.username] # Nobody
                                   /\ profCalls[d].record.username \in Usernames
                 /\ At(d, "update", "taken")' =>
                      /\ At(d, "update", "taken") /\ names[profCalls[d].name] = profCalls[d].address
                      /\ names[profCalls[d].name] # Nobody /\ profCalls[d].name \in Usernames
                      /\ profCalls[d].name # profCalls[d].record.username
      BY <1>b, <1>f, <2>1, <3>1 DEF NamesGood, HandNames, Claims, Updates, At
    <3>8. ~Updates(c)' /\ ~At(c, "update", "taken")'
      BY <3>1 DEF Updates, At
    <3>9. HandNames'
      BY <3>1, <3>3, <3>7, <3>8 DEF HandNames
    <3>10. HandApart'
      <4>1. \A d, e \in ProfileCalls : Claims(d)' /\ Claims(e)' /\ profCalls'[d].name = profCalls'[e].name => d = e
        <5> SUFFICES ASSUME NEW d \in ProfileCalls, NEW e \in ProfileCalls, Claims(d)', Claims(e)',
                            profCalls'[d].name = profCalls'[e].name, d # e
                     PROVE  FALSE
          OBVIOUS
        <5>1. CASE d = c
          BY <3>1, <3>3, <3>7, <5>1
        <5>2. CASE e = c
          BY <3>1, <3>3, <3>7, <5>2
        <5>3. CASE d # c /\ e # c
          BY <1>b, <2>1, <3>7, <5>3 DEF NamesGood, HandApart
        <5> QED BY <5>1, <5>2, <5>3
      <4>2. \A d, e \in ProfileCalls : Claims(d)' /\ Updates(e)' => profCalls'[d].name # profCalls'[e].record.username
        BY <1>b, <2>1, <3>1, <3>3, <3>7, <3>8 DEF NamesGood, HandApart
      <4>3. \A d, e \in ProfileCalls : Claims(d)' /\ At(e, "update", "taken")' => profCalls'[d].name # profCalls'[e].name
        BY <1>b, <2>1, <3>1, <3>3, <3>7, <3>8 DEF NamesGood, HandApart
      <4>4. \A d \in ProfileCalls, b \in Addresses : Claims(d)' /\ Shows(b)' => profCalls'[d].name # profiles'[b].username
        <5> SUFFICES ASSUME NEW d \in ProfileCalls, NEW b \in Addresses, Claims(d)', Shows(b)'
                     PROVE  profCalls'[d].name # profiles'[b].username
          OBVIOUS
        <5>1. Shows(b) /\ profiles'[b] = profiles[b]
          BY <2>1, <3>5 DEF Shows
        <5>2. names[profiles[b].username] = b /\ profiles[b].username \in Usernames /\ b # Nobody
          BY <1>b, <1>g, <2>1, <5>1 DEF NamesGood, ShownMine, Shows
        <5>3. CASE d = c
          BY <3>1, <3>3, <5>1, <5>2, <5>3
        <5>4. CASE d # c
          BY <1>b, <2>1, <3>7, <5>1, <5>4 DEF NamesGood, HandApart
        <5> QED BY <5>3, <5>4
      <4> QED BY <4>1, <4>2, <4>3, <4>4 DEF HandApart
    <3>11. NamedRecords'
      BY <1>b, <2>1, <3>1, NamedStays DEF NamesGood, At
    <3> QED BY <3>4, <3>6, <3>9, <3>10, <3>11 DEF NamesGood
  <2> QED BY <2>1, <2>2, <2>3
<1>4. ASSUME NEW c \in ProfileCalls, ClaimNumbered(c)
      PROVE  NamesGood'
  <2>1. /\ profCalls[c] # NoProfileCall /\ At(c, "claim", "reserved") /\ calm
        /\ UNCHANGED <<names, profiles>>
    BY <1>4, HasCall DEF ClaimNumbered, At
  <2>2. /\ \A d \in ProfileCalls \ {c} : profCalls'[d] = profCalls[d]
        /\ profCalls'[c].stage = "written" /\ profCalls'[c].kind = "claim"
        /\ profCalls'[c].name = profCalls[c].name /\ profCalls'[c].address = profCalls[c].address
    <3>1. profCalls[c] \in ProfileCall
      BY <1>0, <2>1
    <3> QED BY <1>0, <1>4, <2>1, <3>1 DEF ClaimNumbered, ProfileCall, At
  <2>3. OneUpdate'
    BY <1>b, <2>1, <2>2, OneUpdateStays DEF NamesGood, Updating, At
  <2>4. \A d \in ProfileCalls : /\ Claims(d)' <=> Claims(d)
                                /\ Updates(d)' <=> Updates(d)
                                /\ At(d, "update", "taken")' <=> At(d, "update", "taken")
                                /\ At(d, "update", "written")' <=> At(d, "update", "written")
                                /\ profCalls'[d].name = profCalls[d].name
                                /\ profCalls'[d].address = profCalls[d].address
                                /\ Updates(d) => profCalls'[d].record = profCalls[d].record
    BY <2>1, <2>2 DEF Claims, Updates, At
  <2>5. \A b \in Addresses : Rewritten(b)' <=> Rewritten(b)
    BY <2>4 DEF Rewritten
  <2>6. HandNames'
    BY <1>b, <2>1, <2>4 DEF NamesGood, HandNames, Updates, At
  <2>7. ShownMine'
    BY <1>b, <2>1, <2>5 DEF NamesGood, ShownMine, Shows
  <2>8. HandApart'
    BY <1>b, <2>1, <2>4, <2>5 DEF NamesGood, HandApart, Shows
  <2>9. NamedRecords'
    <3>1. profCalls'[c].record.username = profCalls[c].name
      <4>1. profCalls[c] \in ProfileCall
        BY <1>0, <2>1
      <4>2. profCalls'[c].record = [username |-> profCalls[c].name, og |-> total' <= OgLimit, recentChange |-> TRUE]
        BY <1>0, <1>4, <4>1 DEF ClaimNumbered, ProfileCall
      <4> QED BY <4>2
    <3> QED BY <1>b, <2>1, <2>2, <3>1 DEF NamesGood, NamedRecords, At
  <2> QED BY <2>3, <2>6, <2>7, <2>8, <2>9 DEF NamesGood
<1>5. ASSUME NEW c \in ProfileCalls, WriteProfile(c)
      PROVE  NamesGood'
  <2> DEFINE a == profCalls[c].address
             record == profCalls[c].record
  <2>1. /\ profCalls[c] # NoProfileCall /\ calm /\ profCalls[c].stage = "written"
        /\ profCalls[c].kind \in {"claim", "update"}
        /\ names' = names /\ profiles' = [profiles EXCEPT ![a] = record]
        /\ profCalls[c].kind = "claim" => Become(c, "listed")
        /\ profCalls[c].kind # "claim" => Reply(c, TRUE)
    BY <1>5, HasCall DEF WriteProfile, CallShape, ProfileCall
  <2>2. /\ \A d \in ProfileCalls \ {c} : profCalls'[d] = profCalls[d]
        /\ ~Claims(c)' /\ ~Updates(c)' /\ ~At(c, "update", "written")' /\ ~At(c, "update", "taken")'
        /\ ~At(c, "claim", "written")'
        /\ \A b : Updating(c, b)' => Updating(c, b)
    <3>1. CASE profCalls[c].kind = "claim"
      <4>1. /\ \A d \in ProfileCalls \ {c} : profCalls'[d] = profCalls[d]
            /\ profCalls'[c].stage = "listed" /\ profCalls'[c].kind = "claim"
        BY <1>c, <2>1, <3>1 DEF ProfileStages
      <4> QED BY <4>1 DEF Claims, Updates, At, Updating
    <3>2. CASE profCalls[c].kind # "claim"
      BY <1>d, <2>1, <3>2 DEF Claims, Updates, At, Updating
    <3> QED BY <3>1, <3>2
  <2>3. names[record.username] = a
    <3>1. CASE profCalls[c].kind = "claim"
      BY <1>b, <2>1, <3>1 DEF NamesGood, HandNames, NamedRecords, Claims, At
    <3>2. CASE profCalls[c].kind = "update"
      BY <1>b, <2>1, <3>2 DEF NamesGood, HandNames, Updates
    <3> QED BY <2>1, <3>1, <3>2
  <2>4. \A d \in ProfileCalls : Claims(d)' => Claims(d) /\ profCalls'[d] = profCalls[d]
                                              /\ profCalls[d].name # record.username
    <3>1. CASE profCalls[c].kind = "claim"
      BY <1>b, <2>1, <2>2, <3>1 DEF NamesGood, HandApart, NamedRecords, Claims, At
    <3>2. CASE profCalls[c].kind = "update"
      BY <1>b, <2>1, <2>2, <3>2 DEF NamesGood, HandApart, Claims, Updates
    <3> QED BY <2>1, <3>1, <3>2
  <2>5. \A b \in Addresses \ {a} : Shows(b)' => Shows(b) /\ profiles'[b] = profiles[b]
    BY <1>0, <2>1, <2>2 DEF Shows, Rewritten, At
  <2>6. a \in Addresses => profiles'[a] = record
    BY <1>0, <2>1
  <2>7. OneUpdate'
    BY <1>b, <2>1, <2>2, OneUpdateStays DEF NamesGood
  <2>8. HandNames'
    BY <1>b, <2>1, <2>2 DEF NamesGood, HandNames, Claims, Updates, At
  <2>9. ShownMine'
    <3> SUFFICES ASSUME NEW b \in Addresses, Shows(b)'
                 PROVE  names'[profiles'[b].username] = b
      BY DEF ShownMine
    <3>1. CASE b = a
      BY <2>1, <2>3, <2>6, <3>1
    <3>2. CASE b # a
      BY <1>b, <2>1, <2>5, <3>2 DEF NamesGood, ShownMine
    <3> QED BY <3>1, <3>2
  <2>10. HandApart'
    <3>1. \A d, e \in ProfileCalls : Claims(d)' /\ Claims(e)' /\ profCalls'[d].name = profCalls'[e].name => d = e
      BY <1>b, <2>1, <2>4 DEF NamesGood, HandApart
    <3>2. \A d, e \in ProfileCalls : Claims(d)' /\ Updates(e)' => profCalls'[d].name # profCalls'[e].record.username
      BY <1>b, <2>1, <2>2, <2>4 DEF NamesGood, HandApart, Updates
    <3>3. \A d, e \in ProfileCalls : Claims(d)' /\ At(e, "update", "taken")' => profCalls'[d].name # profCalls'[e].name
      BY <1>b, <2>1, <2>2, <2>4 DEF NamesGood, HandApart, At
    <3>4. \A d \in ProfileCalls, b \in Addresses : Claims(d)' /\ Shows(b)' => profCalls'[d].name # profiles'[b].username
      <4> SUFFICES ASSUME NEW d \in ProfileCalls, NEW b \in Addresses, Claims(d)', Shows(b)'
                   PROVE  profCalls'[d].name # profiles'[b].username
        OBVIOUS
      <4>1. CASE b = a
        BY <2>4, <2>6, <4>1
      <4>2. CASE b # a
        BY <1>b, <2>1, <2>4, <2>5, <4>2 DEF NamesGood, HandApart
      <4> QED BY <4>1, <4>2
    <3> QED BY <3>1, <3>2, <3>3, <3>4 DEF HandApart
  <2>11. NamedRecords'
    BY <1>b, <2>1, <2>2, NamedStays DEF NamesGood
  <2> QED BY <2>7, <2>8, <2>9, <2>10, <2>11 DEF NamesGood
<1>6. ASSUME NEW c \in ProfileCalls, ListClaim(c) \/ linkProfileAlias(c)
      PROVE  NamesGood'
  <2>1. /\ profCalls[c] # NoProfileCall /\ calm /\ UNCHANGED <<names, profiles>>
        /\ ~At(c, "update", "written") /\ Reply(c, TRUE)
    BY <1>6, HasCall DEF ListClaim, linkProfileAlias, At
  <2> QED BY <1>e, <2>1
<1>7. ASSUME NEW c \in ProfileCalls, UpdateReads(c)
      PROVE  NamesGood'
  <2> DEFINE a == profCalls[c].address
  <2>1. /\ profCalls[c] # NoProfileCall /\ calm /\ At(c, "update", "limited")
        /\ UNCHANGED <<names, profiles>>
        /\ \/ Reply(c, FALSE)
           \/ /\ profiles[a] # NoProfile
              /\ \E stage \in {"found", "written"} :
                   profCalls' = [profCalls EXCEPT ![c].record = profiles[a], ![c].stage = stage]
    BY <1>7, HasCall DEF UpdateReads, At, getProfileByAddress
  <2>2. CASE Reply(c, FALSE)
    BY <1>e, <2>1, <2>2 DEF At
  <2>3. ASSUME NEW stage \in {"found", "written"}, profiles[a] # NoProfile,
               profCalls' = [profCalls EXCEPT ![c].record = profiles[a], ![c].stage = stage]
        PROVE  NamesGood'
    <3>1. profCalls[c] \in ProfileCall /\ a \in Addresses
      BY <1>0, <2>1 DEF ProfileCall
    <3>2. /\ profCalls'[c].address = a /\ profCalls'[c].record = profiles[a]
          /\ profCalls'[c].stage = stage /\ profCalls'[c].kind = "update"
          /\ \A d \in ProfileCalls \ {c} : profCalls'[d] = profCalls[d]
      BY <1>0, <2>1, <2>3, <3>1 DEF ProfileCall, At
    <3>3. Shows(a)
      <4>1. ASSUME NEW e \in ProfileCalls, At(e, "update", "written"), profCalls[e].address = a
            PROVE  FALSE
        <5>1. Updating(e, a) /\ Updating(c, a)
          BY <1>a, <2>1, <4>1 DEF At, Updating
        <5>2. e = c
          BY <1>b, <2>1, <3>1, <5>1 DEF NamesGood, OneUpdate
        <5> QED BY <2>1, <4>1, <5>2 DEF At
      <4> QED BY <2>3, <4>1 DEF Shows, Rewritten
    <3>4. names[profiles[a].username] = a /\ \A d \in ProfileCalls : Claims(d) => profCalls[d].name # profiles[a].username
      BY <1>b, <2>1, <3>1, <3>3 DEF NamesGood, ShownMine, HandApart
    <3>5. ~Claims(c)' /\ ~At(c, "update", "taken")' /\ ~At(c, "claim", "written")'
      BY <3>2 DEF Claims, At
    <3>6. OneUpdate'
      BY <1>b, <2>1, <3>2, OneUpdateStays DEF NamesGood, Updating, At
    <3>7. HandNames'
      BY <1>b, <2>1, <3>2, <3>4, <3>5 DEF NamesGood, HandNames, Claims, Updates, At
    <3>8. \A b \in Addresses : Shows(b)' => Shows(b)
      BY <2>1, <3>2 DEF Shows, Rewritten, At
    <3>9. ShownMine'
      BY <1>b, <2>1, <3>8 DEF NamesGood, ShownMine
    <3>a. \A d \in ProfileCalls : Claims(d)' => d # c /\ Claims(d) /\ profCalls'[d] = profCalls[d]
      BY <3>2, <3>5 DEF Claims
    <3>10. HandApart'
      <4>1. \A d, e \in ProfileCalls : Claims(d)' /\ Claims(e)' /\ profCalls'[d].name = profCalls'[e].name => d = e
        BY <1>b, <2>1, <3>a DEF NamesGood, HandApart
      <4>2. \A d, e \in ProfileCalls : Claims(d)' /\ Updates(e)' => profCalls'[d].name # profCalls'[e].record.username
        BY <1>b, <2>1, <3>a, <3>2, <3>4 DEF NamesGood, HandApart, Updates
      <4>3. \A d, e \in ProfileCalls : Claims(d)' /\ At(e, "update", "taken")' => profCalls'[d].name # profCalls'[e].name
        BY <1>b, <2>1, <3>a, <3>2, <3>5 DEF NamesGood, HandApart, At
      <4>4. \A d \in ProfileCalls, b \in Addresses : Claims(d)' /\ Shows(b)' => profCalls'[d].name # profiles'[b].username
        BY <1>b, <2>1, <3>a, <3>8 DEF NamesGood, HandApart
      <4> QED BY <4>1, <4>2, <4>3, <4>4 DEF HandApart
    <3>11. NamedRecords'
      BY <1>b, <2>1, <3>2, <3>5, NamedStays DEF NamesGood
    <3> QED BY <3>6, <3>7, <3>9, <3>10, <3>11 DEF NamesGood
  <2> QED BY <2>1, <2>2, <2>3
<1>8. ASSUME NEW c \in ProfileCalls, UpdateReserves(c)
      PROVE  NamesGood'
  <2> DEFINE n == profCalls[c].name
             a == profCalls[c].address
  <2>1. /\ profCalls[c] # NoProfileCall /\ At(c, "update", "found") /\ calm
        /\ UNCHANGED profiles
        /\ \/ Become(c, "taken") /\ names[n] = Nobody /\ names' = [names EXCEPT ![n] = a]
           \/ Reply(c, FALSE) /\ UNCHANGED names
    BY <1>8, HasCall DEF UpdateReserves, At, isUsernameAvailable
  <2>2. CASE Reply(c, FALSE) /\ UNCHANGED names
    BY <1>e, <2>1, <2>2 DEF At
  <2>3. CASE Become(c, "taken") /\ names[n] = Nobody /\ names' = [names EXCEPT ![n] = a]
    <3>1. /\ \A d \in ProfileCalls \ {c} : profCalls'[d] = profCalls[d]
          /\ profCalls'[c].stage = "taken" /\ profCalls'[c].kind = "update"
          /\ profCalls'[c].name = n /\ profCalls'[c].address = a
          /\ profCalls'[c].record = profCalls[c].record
      BY <1>c, <2>1, <2>3 DEF ProfileStages, At
    <3>a. Updates(c)
      BY <2>1 DEF Updates, At
    <3>2. n \in Usernames /\ a \in Addresses /\ a # Nobody
      BY <1>f, <3>a
    <3>3. /\ names'[n] = a
          /\ \A m \in Usernames : names[m] # Nobody => m # n /\ names'[m] = names[m]
      BY <1>0, <2>3, <3>2
    <3>4. OneUpdate'
      BY <1>b, <2>1, <3>1, OneUpdateStays DEF NamesGood, Updating, At
    <3>5. \A b \in Addresses : Rewritten(b)' <=> Rewritten(b)
      BY <2>1, <3>1 DEF Rewritten, At
    <3>6. ShownMine'
      BY <1>b, <1>g, <2>1, <3>3, <3>5 DEF NamesGood, ShownMine, Shows
    <3>7. ASSUME NEW d \in ProfileCalls
          PROVE  /\ Claims(d)' => d # c /\ profCalls'[d] = profCalls[d] /\ Claims(d)
                                  /\ names[profCalls[d].name] = profCalls[d].address
                                  /\ names[profCalls[d].name] # Nobody /\ profCalls[d].name \in Usernames
                 /\ Updates(d)' => Updates(d) /\ profCalls'[d].record = profCalls[d].record
                                   /\ profCalls'[d].address = profCalls[d].address
                                   /\ names[profCalls[d].record.username] = profCalls[d].address
                                   /\ names[profCalls[d].record.username] # Nobody
                                   /\ profCalls[d].record.username \in Usernames
                 /\ At(d, "update", "taken")' /\ d # c =>
                      /\ profCalls'[d] = profCalls[d]
                      /\ At(d, "update", "taken") /\ names[profCalls[d].name] = profCalls[d].address
                      /\ names[profCalls[d].name] # Nobody /\ profCalls[d].name \in Usernames
                      /\ profCalls[d].name # profCalls[d].record.username
      BY <1>b, <1>f, <2>1, <3>1, <3>a DEF NamesGood, HandNames, Claims, Updates, At
    <3>8. n # profCalls[c].record.username
      BY <1>b, <2>1, <2>3, <3>2, <3>a DEF NamesGood, HandNames
    <3>9. HandNames'
      <4>1. \A d \in ProfileCalls : Claims(d)' => names'[profCalls'[d].name] = profCalls'[d].address
        BY <3>3, <3>7
      <4>2. \A e \in ProfileCalls : Updates(e)' => names'[profCalls'[e].record.username] = profCalls'[e].address
        BY <3>3, <3>7
      <4>3. \A e \in ProfileCalls : At(e, "update", "taken")' =>
              names'[profCalls'[e].name] = profCalls'[e].address /\ profCalls'[e].name # profCalls'[e].record.username
        <5> SUFFICES ASSUME NEW e \in ProfileCalls, At(e, "update", "taken")'
                     PROVE  names'[profCalls'[e].name] = profCalls'[e].address /\ profCalls'[e].name # profCalls'[e].record.username
          OBVIOUS
        <5>1. CASE e = c
          BY <3>1, <3>3, <3>8, <5>1
        <5>2. CASE e # c
          BY <3>3, <3>7, <5>2
        <5> QED BY <5>1, <5>2
      <4> QED BY <4>1, <4>2, <4>3 DEF HandNames
    <3>10. HandApart'
      <4>1. \A d, e \in ProfileCalls : Claims(d)' /\ Claims(e)' /\ profCalls'[d].name = profCalls'[e].name => d = e
        BY <1>b, <2>1, <3>7 DEF NamesGood, HandApart
      <4>2. \A d, e \in ProfileCalls : Claims(d)' /\ Updates(e)' => profCalls'[d].name # profCalls'[e].record.username
        BY <1>b, <2>1, <3>7 DEF NamesGood, HandApart
      <4>3. \A d, e \in ProfileCalls : Claims(d)' /\ At(e, "update", "taken")' => profCalls'[d].name # profCalls'[e].name
        <5> SUFFICES ASSUME NEW d \in ProfileCalls, NEW e \in ProfileCalls, Claims(d)', At(e, "update", "taken")'
                     PROVE  profCalls'[d].name # profCalls'[e].name
          OBVIOUS
        <5>1. CASE e = c
          BY <3>1, <3>3, <3>7, <5>1
        <5>2. CASE e # c
          BY <1>b, <2>1, <3>7, <5>2 DEF NamesGood, HandApart
        <5> QED BY <5>1, <5>2
      <4>4. \A d \in ProfileCalls, b \in Addresses : Claims(d)' /\ Shows(b)' => profCalls'[d].name # profiles'[b].username
        BY <1>b, <2>1, <3>5, <3>7 DEF NamesGood, HandApart, Shows
      <4> QED BY <4>1, <4>2, <4>3, <4>4 DEF HandApart
    <3>11. NamedRecords'
      BY <1>b, <2>1, <3>1, NamedStays DEF NamesGood, At
    <3> QED BY <3>4, <3>6, <3>9, <3>10, <3>11 DEF NamesGood
  <2> QED BY <2>1, <2>2, <2>3
<1>9. ASSUME NEW c \in ProfileCalls, UpdateFrees(c)
      PROVE  NamesGood'
  <2> DEFINE n == profCalls[c].name
             a == profCalls[c].address
             old == profCalls[c].record.username
  <2>1. /\ profCalls[c] # NoProfileCall /\ At(c, "update", "taken") /\ calm
        /\ UNCHANGED profiles /\ names' = [names EXCEPT ![old] = Nobody]
    BY <1>9, HasCall DEF UpdateFrees, At
  <2>2. /\ Updates(c) /\ Updating(c, a) /\ n \in Usernames /\ old \in Usernames /\ a \in Addresses /\ a # Nobody
        /\ profCalls[c] \in ProfileCall /\ profCalls[c].record \in Profile
    BY <1>0, <1>f, <2>1
  <2>3. /\ profCalls'[c].stage = "written" /\ profCalls'[c].kind = "update" /\ profCalls'[c].address = a
        /\ profCalls'[c].record.username = n
        /\ \A d \in ProfileCalls \ {c} : profCalls'[d] = profCalls[d]
    BY <1>0, <1>9, <2>1, <2>2 DEF UpdateFrees, ProfileCall, Profile, At
  <2>4. names[old] = a /\ names[n] = a /\ n # old
    BY <1>b, <2>1, <2>2 DEF NamesGood, HandNames
  <2>5. \A m \in Usernames : m # old => names'[m] = names[m]
    BY <1>0, <2>1, <2>2
  <2>6. ~Claims(c)' /\ ~At(c, "update", "taken")' /\ ~At(c, "claim", "written")'
    BY <2>3 DEF Claims, At
  <2>7. OneUpdate'
    BY <1>b, <2>1, <2>3, OneUpdateStays DEF NamesGood, Updating, At
  <2>8. ASSUME NEW d \in ProfileCalls
        PROVE  /\ Claims(d)' => /\ d # c /\ profCalls'[d] = profCalls[d] /\ Claims(d)
                                /\ names[profCalls[d].name] = profCalls[d].address
                                /\ profCalls[d].name \in Usernames /\ profCalls[d].name # old /\ profCalls[d].name # n
               /\ Updates(d)' /\ d # c => /\ profCalls'[d] = profCalls[d] /\ Updates(d)
                                          /\ names[profCalls[d].record.username] = profCalls[d].address
                                          /\ profCalls[d].address # a
                                          /\ profCalls[d].record.username \in Usernames
               /\ At(d, "update", "taken")' =>
                      /\ d # c /\ profCalls'[d] = profCalls[d] /\ At(d, "update", "taken")
                      /\ names[profCalls[d].name] = profCalls[d].address
                      /\ profCalls[d].address # a /\ profCalls[d].name \in Usernames
                      /\ profCalls[d].name # profCalls[d].record.username
    <3>1. Claims(d)' => d # c /\ profCalls'[d] = profCalls[d] /\ Claims(d)
      BY <2>3, <2>6 DEF Claims
    <3>2. Claims(d) => profCalls[d].name # old /\ profCalls[d].name # n
      BY <1>b, <2>1, <2>2 DEF NamesGood, HandApart
    <3>3. Updates(d)' /\ d # c => profCalls'[d] = profCalls[d] /\ Updates(d)
      BY <2>3 DEF Updates
    <3>4. At(d, "update", "taken")' => d # c /\ profCalls'[d] = profCalls[d] /\ At(d, "update", "taken")
      BY <2>3, <2>6 DEF At
    <3>5. Updates(d) /\ d # c => profCalls[d].address # a
      BY <1>b, <1>f, <2>1, <2>2 DEF NamesGood, OneUpdate
    <3> QED BY <1>b, <1>f, <2>1, <3>1, <3>2, <3>3, <3>4, <3>5 DEF NamesGood, HandNames
  <2>9. HandNames'
    <3>1. \A d \in ProfileCalls : Claims(d)' => names'[profCalls'[d].name] = profCalls'[d].address
      BY <2>5, <2>8
    <3>2. \A e \in ProfileCalls : Updates(e)' => names'[profCalls'[e].record.username] = profCalls'[e].address
      <4> SUFFICES ASSUME NEW e \in ProfileCalls, Updates(e)'
                   PROVE  names'[profCalls'[e].record.username] = profCalls'[e].address
        OBVIOUS
      <4>1. CASE e = c
        BY <2>2, <2>3, <2>4, <2>5, <4>1
      <4>2. CASE e # c
        BY <2>4, <2>5, <2>8, <4>2
      <4> QED BY <4>1, <4>2
    <3>3. \A e \in ProfileCalls : At(e, "update", "taken")' =>
            names'[profCalls'[e].name] = profCalls'[e].address /\ profCalls'[e].name # profCalls'[e].record.username
      BY <2>4, <2>5, <2>8
    <3> QED BY <3>1, <3>2, <3>3 DEF HandNames
  <2>10. \A b \in Addresses : Shows(b)' => b # a /\ Shows(b)
    BY <2>1, <2>3 DEF Shows, Rewritten, At
  <2>11. ShownMine'
    BY <1>b, <1>g, <2>1, <2>4, <2>5, <2>10 DEF NamesGood, ShownMine, Shows
  <2>12. HandApart'
    <3>1. \A d, e \in ProfileCalls : Claims(d)' /\ Claims(e)' /\ profCalls'[d].name = profCalls'[e].name => d = e
      BY <1>b, <2>1, <2>8 DEF NamesGood, HandApart
    <3>2. \A d, e \in ProfileCalls : Claims(d)' /\ Updates(e)' => profCalls'[d].name # profCalls'[e].record.username
      BY <1>b, <2>1, <2>3, <2>8 DEF NamesGood, HandApart
    <3>3. \A d, e \in ProfileCalls : Claims(d)' /\ At(e, "update", "taken")' => profCalls'[d].name # profCalls'[e].name
      BY <1>b, <2>1, <2>8 DEF NamesGood, HandApart
    <3>4. \A d \in ProfileCalls, b \in Addresses : Claims(d)' /\ Shows(b)' => profCalls'[d].name # profiles'[b].username
      BY <1>b, <2>1, <2>8, <2>10 DEF NamesGood, HandApart
    <3> QED BY <3>1, <3>2, <3>3, <3>4 DEF HandApart
  <2>13. NamedRecords'
    BY <1>b, <2>1, <2>3, <2>6, NamedStays DEF NamesGood
  <2> QED BY <2>7, <2>9, <2>11, <2>12, <2>13 DEF NamesGood
<1>10. ASSUME NEW c \in ProfileCalls, NEW a \in Addresses, NEW b \in Addresses, LinkReads(c, a, b)
       PROVE  NamesGood'
  <2>1. /\ profCalls[c] = NoProfileCall /\ calm /\ UNCHANGED <<names, profiles>>
        /\ profCalls'[c].kind = "link" /\ profCalls'[c].stage = "seen"
        /\ \A d \in ProfileCalls \ {c} : profCalls'[d] = profCalls[d]
    BY <1>0, <1>10 DEF LinkReads
  <2>2. ~Claims(c)' /\ ~Updates(c)' /\ ~At(c, "update", "written")
    BY <1>a, <2>1 DEF Claims, Updates, At
  <2>3. OneUpdate'
    BY <1>b, <2>1, OneUpdateStays DEF NamesGood, Updating
  <2> QED BY <1>b, <2>1, <2>2, <2>3, QuietNames
<1>11. ASSUME NEW c \in ProfileCalls, ProfileAnswered(c) \/ ProfileCallDies(c)
       PROVE  NamesGood'
  <2>1. /\ profCalls'[c] = NoProfileCall /\ calm /\ UNCHANGED <<names, profiles>>
        /\ ~At(c, "update", "written")
        /\ \A d \in ProfileCalls \ {c} : profCalls'[d] = profCalls[d]
    BY <1>0, <1>11 DEF ProfileAnswered, ProfileCallDies, At
  <2>2. ~Claims(c)' /\ ~Updates(c)'
    BY <1>a, <2>1 DEF Claims, Updates
  <2>3. OneUpdate'
    BY <1>b, <2>1, OneUpdateStays DEF NamesGood, Updating
  <2> QED BY <1>b, <2>1, <2>2, <2>3, QuietNames
<1>12. ASSUME calm, UNCHANGED <<names, profCalls>>,
              \A a \in Addresses : /\ profiles'[a] # NoProfile => profiles[a] # NoProfile
                                   /\ profiles'[a] # NoProfile => profiles'[a].username = profiles[a].username
       PROVE  NamesGood'
  <2>1. OneUpdate' /\ HandNames' /\ NamedRecords'
    BY <1>b, <1>12 DEF NamesGood, OneUpdate, HandNames, NamedRecords, Updating, Updates, Claims, At
  <2>2. \A a \in Addresses : Shows(a)' => Shows(a) /\ profiles'[a].username = profiles[a].username
    BY <1>12 DEF Shows, Rewritten, At
  <2>3. ShownMine'
    BY <1>b, <1>12, <2>2 DEF NamesGood, ShownMine
  <2>4. HandApart'
    BY <1>b, <1>12, <2>2 DEF NamesGood, HandApart, Claims, Updates, At
  <2> QED BY <2>1, <2>3, <2>4 DEF NamesGood
<1>13. ASSUME NEW a \in Addresses, NEW kind \in {"claim", "update"}, RateWindowEnds(kind, a)
       PROVE  NamesGood'
  BY <1>12, <1>13 DEF RateWindowEnds
<1>14. CASE MonthPasses
  <2>1. calm /\ UNCHANGED <<names, profCalls>>
    BY <1>14 DEF MonthPasses
  <2>2. \A a \in Addresses : /\ profiles'[a] # NoProfile => profiles[a] # NoProfile
                             /\ profiles'[a] # NoProfile => profiles'[a].username = profiles[a].username
    BY <1>0, <1>14 DEF MonthPasses, Profile
  <2> QED BY <1>12, <2>1, <2>2
<1>15. CASE UNCHANGED profileVars
  BY <1>12, <1>15 DEF profileVars
<1> QED BY <1>1, <1>2, <1>3, <1>4, <1>5, <1>6, <1>7, <1>8, <1>9, <1>10, <1>11, <1>13, <1>14, <1>15 DEF ProfileOp

LEMMA NamesKeptInit == ProfileInit => NamesKept
BY DEF ProfileInit, NamesKept, NamesGood, OneUpdate, HandNames, HandApart, ShownMine, NamedRecords,
   Updating, Updates, Claims, At, Shows, NoProfileCall

LEMMA MineFromKept == NamesKept => NameIsMine
BY DEF NamesKept, NamesGood, ShownMine, Shows, Rewritten, NameIsMine

(* As long as updates of one profile neither overlap nor die half-way, a   *)
(* shown name is reserved for the address that shows it, however claims    *)
(* race, die with a name reserved and are repeated.                        *)
THEOREM NamesStayMine == ProfileSpec => []NameIsMine
<1>1. ProfileInit => ProfileInv /\ NamesKept
  BY ProfileInvInit, NamesKeptInit
<1>2. ProfileInv /\ NamesKept /\ [ProfileOp]_profileVars => (ProfileInv /\ NamesKept)'
  BY ProfileInvNext, NamesKeptNext
<1>3. NamesKept => NameIsMine
  BY MineFromKept
<1> QED BY <1>1, <1>2, <1>3, PTL DEF ProfileSpec

-----------------------------------------------------------------------------
(* The dialog *)

Landed(c) == At(c, "claim", "listed") \/ (At(c, "claim", "answered") /\ profCalls[c].ok)

(* What a step of the store leaves of calls, claims and profiles: a call   *)
(* in flight stays the call of its player, a claim ends well only after    *)
(* its profile is written, and no profile disappears.                      *)
LEMMA StoreKeeps ==
  ASSUME ProfileInv, ClaimsLand, [ProfileOp]_profileVars
  PROVE  /\ ClaimsLand'
         /\ \A a \in Addresses : profiles[a] # NoProfile => profiles'[a] # NoProfile
         /\ \A d \in ProfileCalls : profCalls[d] # NoProfileCall /\ profCalls'[d] # NoProfileCall =>
              profCalls'[d].kind = profCalls[d].kind /\ profCalls'[d].address = profCalls[d].address
<1> DEFINE Kept ==
      \A d \in ProfileCalls : profCalls[d] # NoProfileCall /\ profCalls'[d] # NoProfileCall =>
        profCalls'[d].kind = profCalls[d].kind /\ profCalls'[d].address = profCalls[d].address
    Grown == \A a \in Addresses : profiles[a] # NoProfile => profiles'[a] # NoProfile
<1>0. /\ profCalls \in [ProfileCalls -> ProfileCall \cup {NoProfileCall}]
      /\ profiles \in [Addresses -> Profile \cup {NoProfile}]
      /\ NoProfile \notin Profile
  BY NotProfiles DEF ProfileInv, ProfileTypeOK
<1>a. NoProfileCall.stage = "idle"
  BY DEF NoProfileCall
<1>b. ClaimsLand <=> \A c \in ProfileCalls : Landed(c) => profiles[profCalls[c].address] # NoProfile
  BY DEF ClaimsLand, Landed
<1>c. ClaimsLand' <=> \A c \in ProfileCalls : Landed(c)' => profiles'[profCalls'[c].address] # NoProfile
  BY DEF ClaimsLand, Landed
<1>d. \A c \in ProfileCalls : Landed(c) => profCalls[c].address \in Addresses
  BY <1>0, <1>a DEF Landed, At, ProfileCall
(* One handler moves, and lands only over a profile. *)
<1>e. ASSUME NEW c \in ProfileCalls, \A d \in ProfileCalls \ {c} : profCalls'[d] = profCalls[d],
             profCalls[c] # NoProfileCall /\ profCalls'[c] # NoProfileCall =>
               profCalls'[c].kind = profCalls[c].kind /\ profCalls'[c].address = profCalls[c].address,
             Grown, Landed(c)' => profiles'[profCalls'[c].address] # NoProfile
      PROVE  ClaimsLand' /\ Grown /\ Kept
  <2>1. \A d \in ProfileCalls \ {c} : Landed(d)' => Landed(d) /\ profCalls'[d].address = profCalls[d].address
    BY <1>e DEF Landed, At
  <2>2. ClaimsLand'
    BY <1>b, <1>c, <1>d, <1>e, <2>1
  <2>3. Kept
    BY <1>e
  <2> QED BY <1>e, <2>2, <2>3
<1>f. ASSUME NEW c \in ProfileCalls, NEW stage, profCalls[c] # NoProfileCall, Become(c, stage)
      PROVE  /\ \A d \in ProfileCalls \ {c} : profCalls'[d] = profCalls[d]
             /\ profCalls'[c].stage = stage /\ profCalls'[c].kind = profCalls[c].kind
             /\ profCalls'[c].address = profCalls[c].address
  <2>1. profCalls[c] \in ProfileCall
    BY <1>0, <1>f
  <2> QED BY <1>0, <1>f, <2>1 DEF Become, ProfileCall
<1>g. ASSUME NEW c \in ProfileCalls, NEW ok \in BOOLEAN, profCalls[c] # NoProfileCall, Reply(c, ok)
      PROVE  /\ \A d \in ProfileCalls \ {c} : profCalls'[d] = profCalls[d]
             /\ profCalls'[c] # NoProfileCall =>
                  /\ profCalls[c].kind = "claim" /\ profCalls'[c].kind = "claim"
                  /\ profCalls'[c].address = profCalls[c].address
                  /\ profCalls'[c].stage = "answered" /\ profCalls'[c].ok = ok
  <2>0. CallShape(profCalls[c])
    BY <1>g DEF ProfileInv, Shaped
  <2>1. CASE profCalls[c].kind = "claim"
    BY <1>g, <2>0, <2>1, StoreReplies
  <2>2. CASE profCalls[c].kind # "claim"
    BY <1>g, <2>0, <2>2, StoreReplies
  <2> QED BY <2>1, <2>2
<1>h. \A c : profCalls'[c] = NoProfileCall => ~Landed(c)'
  BY <1>a DEF Landed, At
<1>1. ASSUME NEW c \in ProfileCalls, NEW a \in Addresses, NEW n \in Usernames, PostClaim(c, a, n) \/ PatchProfile(c, a, n)
      PROVE  ClaimsLand' /\ Grown /\ Kept
  <2>1. checkRateLimit(c, "claim", ClaimLimit, a, n) \/ checkRateLimit(c, "update", UpdateLimit, a, n)
    BY <1>1 DEF PostClaim, PatchProfile
  <2>2. profiles' = profiles
    BY <1>1 DEF PostClaim, PatchProfile
  <2>3. /\ profCalls[c] = NoProfileCall /\ profCalls'[c].stage = "limited"
        /\ \A d \in ProfileCalls \ {c} : profCalls'[d] = profCalls[d]
    BY <1>0, <2>1 DEF checkRateLimit
  <2>4. ~Landed(c)'
    BY <2>3 DEF Landed, At
  <2> QED BY <1>e, <2>2, <2>3, <2>4
<1>2. ASSUME NEW c \in ProfileCalls,
             ClaimReads(c) \/ ClaimReserves(c) \/ UpdateReserves(c)
      PROVE  ClaimsLand' /\ Grown /\ Kept
  <2>1. /\ profCalls[c] # NoProfileCall /\ profiles' = profiles
        /\ (\E stage \in {"fresh", "reserved", "taken"} : Become(c, stage)) \/ Reply(c, FALSE)
    BY <1>2, HasCall DEF ClaimReads, ClaimReserves, UpdateReserves, At
  <2>2. ASSUME NEW stage \in {"fresh", "reserved", "taken"}, Become(c, stage)
        PROVE  ClaimsLand' /\ Grown /\ Kept
    <3>1. ~Landed(c)'
      BY <1>f, <2>1, <2>2 DEF Landed, At
    <3> QED BY <1>e, <1>f, <2>1, <2>2, <3>1
  <2>3. CASE Reply(c, FALSE)
    <3>1. ~Landed(c)'
      BY <1>g, <1>h, <2>1, <2>3 DEF Landed, At
    <3> QED BY <1>e, <1>g, <2>1, <2>3, <3>1
  <2> QED BY <2>1, <2>2, <2>3
<1>3. ASSUME NEW c \in ProfileCalls, ClaimNumbered(c) \/ UpdateFrees(c)
      PROVE  ClaimsLand' /\ Grown /\ Kept
  <2>1. profCalls[c] # NoProfileCall /\ profCalls[c] \in ProfileCall /\ profiles' = profiles
    BY <1>0, <1>3, HasCall DEF ClaimNumbered, UpdateFrees, At
  <2>2. /\ \A d \in ProfileCalls \ {c} : profCalls'[d] = profCalls[d]
        /\ profCalls'[c].stage = "written" /\ profCalls'[c].kind = profCalls[c].kind
        /\ profCalls'[c].address = profCalls[c].address
    BY <1>0, <1>3, <2>1 DEF ClaimNumbered, UpdateFrees, ProfileCall
  <2>3. ~Landed(c)'
    BY <2>2 DEF Landed, At
  <2> QED BY <1>e, <2>1, <2>2, <2>3
<1>4. ASSUME NEW c \in ProfileCalls, WriteProfile(c)
      PROVE  ClaimsLand' /\ Grown /\ Kept
  <2> DEFINE a == profCalls[c].address
  <2>1. /\ profCalls[c] # NoProfileCall /\ profCalls[c].record \in Profile /\ a \in Addresses
        /\ profiles' = [profiles EXCEPT ![a] = profCalls[c].record]
        /\ (Become(c, "listed") \/ (profCalls[c].kind # "claim" /\ Reply(c, TRUE)))
    BY <1>4, HasCall DEF WriteProfile, CallShape, ProfileCall
  <2>2. Grown /\ profiles'[a] # NoProfile
    BY <1>0, <2>1
  <2>3. CASE Become(c, "listed")
    BY <1>e, <1>f, <2>1, <2>2, <2>3
  <2>4. CASE profCalls[c].kind # "claim" /\ Reply(c, TRUE)
    <3>1. profCalls'[c] = NoProfileCall
      BY <1>g, <2>1, <2>4
    <3> QED BY <1>e, <1>g, <1>h, <2>1, <2>2, <2>4, <3>1
  <2> QED BY <2>1, <2>3, <2>4
<1>5. ASSUME NEW c \in ProfileCalls, ListClaim(c)
      PROVE  ClaimsLand' /\ Grown /\ Kept
  <2>1. profCalls[c] # NoProfileCall /\ Landed(c) /\ profiles' = profiles /\ Reply(c, TRUE)
    BY <1>5, HasCall DEF ListClaim, At, Landed
  <2>2. profiles[profCalls[c].address] # NoProfile
    BY <1>b, <2>1
  <2>3. Landed(c)' => profCalls'[c].address = profCalls[c].address
    BY <1>g, <1>h, <2>1
  <2> QED BY <1>e, <1>g, <2>1, <2>2, <2>3
<1>6. ASSUME NEW c \in ProfileCalls, UpdateReads(c)
      PROVE  ClaimsLand' /\ Grown /\ Kept
  <2>1. /\ profCalls[c] # NoProfileCall /\ profCalls[c] \in ProfileCall /\ profiles' = profiles
        /\ \/ Reply(c, FALSE)
           \/ \E stage \in {"found", "written"} :
                profCalls' = [profCalls EXCEPT ![c].record = profiles[profCalls[c].address], ![c].stage = stage]
    BY <1>0, <1>6, HasCall DEF UpdateReads, At, getProfileByAddress
  <2>2. CASE Reply(c, FALSE)
    <3>1. ~Landed(c)'
      BY <1>g, <1>h, <2>1, <2>2 DEF Landed, At
    <3> QED BY <1>e, <1>g, <2>1, <2>2, <3>1
  <2>3. ASSUME NEW stage \in {"found", "written"},
               profCalls' = [profCalls EXCEPT ![c].record = profiles[profCalls[c].address], ![c].stage = stage]
        PROVE  ClaimsLand' /\ Grown /\ Kept
    <3>1. /\ \A d \in ProfileCalls \ {c} : profCalls'[d] = profCalls[d]
          /\ profCalls'[c].stage = stage /\ profCalls'[c].kind = profCalls[c].kind
          /\ profCalls'[c].address = profCalls[c].address
      BY <1>0, <2>1, <2>3 DEF ProfileCall
    <3>2. ~Landed(c)'
      BY <3>1 DEF Landed, At
    <3> QED BY <1>e, <2>1, <3>1, <3>2
  <2> QED BY <2>1, <2>2, <2>3
<1>7. ASSUME NEW c \in ProfileCalls, NEW a \in Addresses, NEW b \in Addresses, LinkReads(c, a, b)
      PROVE  ClaimsLand' /\ Grown /\ Kept
  <2>1. /\ profCalls[c] = NoProfileCall /\ profiles' = profiles /\ profCalls'[c].stage = "seen"
        /\ \A d \in ProfileCalls \ {c} : profCalls'[d] = profCalls[d]
    BY <1>0, <1>7 DEF LinkReads
  <2>2. ~Landed(c)'
    BY <2>1 DEF Landed, At
  <2> QED BY <1>e, <2>1, <2>2
<1>8. ASSUME NEW c \in ProfileCalls, linkProfileAlias(c)
      PROVE  ClaimsLand' /\ Grown /\ Kept
  <2>1. profCalls[c] # NoProfileCall /\ profCalls[c].kind = "link" /\ profiles' = profiles /\ Reply(c, TRUE)
    BY <1>8, HasCall DEF linkProfileAlias, At
  <2>2. profCalls'[c] = NoProfileCall
    BY <1>g, <2>1
  <2> QED BY <1>e, <1>g, <1>h, <2>1, <2>2
<1>9. ASSUME NEW c \in ProfileCalls, ProfileAnswered(c) \/ ProfileCallDies(c)
      PROVE  ClaimsLand' /\ Grown /\ Kept
  <2>1. /\ profCalls'[c] = NoProfileCall /\ profiles' = profiles
        /\ \A d \in ProfileCalls \ {c} : profCalls'[d] = profCalls[d]
    BY <1>0, <1>9 DEF ProfileAnswered, ProfileCallDies
  <2> QED BY <1>e, <1>h, <2>1
<1>10. ASSUME profCalls' = profCalls, Grown
       PROVE  ClaimsLand' /\ Grown /\ Kept
  <2>1. \A c \in ProfileCalls : Landed(c)' => Landed(c)
    BY <1>10 DEF Landed, At
  <2> QED BY <1>b, <1>c, <1>d, <1>10, <2>1
<1>11. CASE MonthPasses
  <2>1. profCalls' = profCalls /\ Grown
    BY <1>0, <1>11 DEF MonthPasses, Profile
  <2> QED BY <1>10, <2>1
<1>12. CASE UNCHANGED profileVars
  BY <1>10, <1>12 DEF profileVars
<1>13. ASSUME NEW a \in Addresses, NEW kind \in {"claim", "update"}, RateWindowEnds(kind, a)
       PROVE  ClaimsLand' /\ Grown /\ Kept
  BY <1>10, <1>13 DEF RateWindowEnds
<1> QED BY <1>1, <1>2, <1>3, <1>4, <1>5, <1>6, <1>7, <1>8, <1>9, <1>11, <1>12, <1>13 DEF ProfileOp

LEMMA ClaimInvInit == ClaimInit => ClaimInv
<1> SUFFICES ASSUME ClaimInit PROVE ClaimInv
  OBVIOUS
<1>1. ProfileInv
  BY ProfileInvInit DEF ClaimInit
<1>2. ModalTypeOK /\ OwnCalls /\ SuccessKept
  BY DEF ClaimInit, ModalInit, ModalTypeOK, Modal, OwnCalls, SuccessKept, NoSubmission
<1>3. ClaimsLand
  BY DEF ClaimInit, ProfileInit, ClaimsLand, At, NoProfileCall
<1> QED BY <1>1, <1>2, <1>3 DEF ClaimInv

LEMMA NotSubmissions == NoSubmission \notin Submission /\ NoSubmission.stage = "none"
BY DEF NoSubmission, Submission

(* Behind the dialog the store takes its own steps. *)
LEMMA DialogUsesStore ==
  ASSUME ModalTypeOK, OwnCalls, [ClaimOp]_<<profileVars, modalVars>>
  PROVE  [ProfileOp]_profileVars
<1>1. ASSUME NEW s \in Submissions, NEW c \in ProfileCalls, ClaimArrives(s, c)
      PROVE  ProfileOp
  <2>1. submissions[s] \in Submission
    BY <1>1, NotSubmissions DEF ModalTypeOK, ClaimArrives
  <2>2. submissions[s].name \in Usernames
    BY <2>1 DEF Submission
  <2>3. PostClaim(c, Me, submissions[s].name) /\ Me \in Addresses
    BY <1>1, ClaimModalAssumption DEF ClaimArrives
  <2> QED BY <2>2, <2>3 DEF ProfileOp
<1>2. ASSUME NEW s \in Submissions, ClaimAnswer(s) \/ HandlerDies(s)
      PROVE  ProfileOp
  <2>1. /\ submissions[s].stage = "waiting"
        /\ ProfileAnswered(submissions[s].call) \/ ProfileCallDies(submissions[s].call)
    BY <1>2 DEF ClaimAnswer, HandlerDies
  <2>2. submissions[s].call \in ProfileCalls
    BY <2>1 DEF OwnCalls
  <2> QED BY <2>1, <2>2 DEF ProfileOp
<1>3. ASSUME NEW s \in Submissions, handleClaim(s) \/ ClaimSigned(s) \/ ClaimFails(s)
      PROVE  UNCHANGED profileVars
  BY <1>3 DEF handleClaim, ClaimSigned, ClaimFails
<1>4. ASSUME OpenModal \/ CloseModal \/ CheckUsername \/ (\E n \in Usernames \cup {NoName} : TypeUsername(n))
      PROVE  UNCHANGED profileVars
  BY <1>4 DEF OpenModal, CloseModal, CheckUsername, TypeUsername
<1>5. StoreStep => ProfileOp
  BY DEF StoreStep
<1> QED BY <1>1, <1>2, <1>3, <1>4, <1>5 DEF ClaimOp

LEMMA ClaimInvNext ==
  ASSUME ClaimInv, [ClaimOp]_<<profileVars, modalVars>>
  PROVE  ClaimInv'
<1>0. /\ profCalls \in [ProfileCalls -> ProfileCall \cup {NoProfileCall}]
      /\ submissions \in [Submissions -> Submission \cup {NoSubmission}]
      /\ modal \in Modal
  BY DEF ClaimInv, ProfileInv, ProfileTypeOK, ModalTypeOK
(* The store's part. *)
<1>1. [ProfileOp]_profileVars
  BY DialogUsesStore DEF ClaimInv
<1>2. ProfileInv' /\ ClaimsLand'
  BY <1>1, ProfileInvNext, StoreKeeps DEF ClaimInv
<1>3. /\ profiles[Me] # NoProfile => profiles'[Me] # NoProfile
      /\ \A d \in ProfileCalls : profCalls[d] # NoProfileCall /\ profCalls'[d] # NoProfileCall =>
           profCalls'[d].kind = profCalls[d].kind /\ profCalls'[d].address = profCalls[d].address
  BY <1>1, StoreKeeps, ClaimModalAssumption DEF ClaimInv
(* Submissions that go on waiting keep their calls. *)
<1>4. ASSUME \A t \in Submissions : submissions'[t].stage = "waiting" =>
               /\ submissions[t].stage = "waiting" /\ submissions'[t].call = submissions[t].call
               /\ profCalls'[submissions[t].call] # NoProfileCall
      PROVE  OwnCalls'
  <2>1. \A t \in Submissions : submissions'[t].stage = "waiting" =>
          /\ submissions'[t].call \in ProfileCalls
          /\ profCalls'[submissions'[t].call] # NoProfileCall
          /\ profCalls'[submissions'[t].call].kind = "claim"
          /\ profCalls'[submissions'[t].call].address = Me
    BY <1>3, <1>4 DEF ClaimInv, OwnCalls
  <2>2. \A s, t \in Submissions :
          /\ submissions'[s].stage = "waiting" /\ submissions'[t].stage = "waiting"
          /\ submissions'[s].call = submissions'[t].call
          => s = t
    BY <1>4 DEF ClaimInv, OwnCalls
  <2> QED BY <2>1, <2>2 DEF OwnCalls
<1>5. ASSUME UNCHANGED profileVars,
             \A t \in Submissions : submissions'[t].stage = "waiting" =>
               submissions[t].stage = "waiting" /\ submissions'[t].call = submissions[t].call
      PROVE  OwnCalls'
  <2>1. profCalls' = profCalls
    BY <1>5 DEF profileVars
  <2>2. \A t \in Submissions : submissions[t].stage = "waiting" => profCalls[submissions[t].call] # NoProfileCall
    BY DEF ClaimInv, OwnCalls
  <2> QED BY <1>4, <1>5, <2>1, <2>2
<1>6. ASSUME modal'.step = "success" => modal.step = "success"
      PROVE  SuccessKept'
  BY <1>3, <1>6 DEF ClaimInv, SuccessKept
<1>7. ASSUME NEW s \in Submissions, submissions' = [submissions EXCEPT ![s] = NoSubmission]
      PROVE  /\ submissions' \in [Submissions -> Submission \cup {NoSubmission}]
             /\ \A t \in Submissions : submissions'[t].stage = "waiting" => t # s /\ submissions'[t] = submissions[t]
  BY <1>0, <1>7, NotSubmissions
<1>8. ASSUME OpenModal \/ CloseModal \/ CheckUsername \/ (\E n \in Usernames \cup {NoName} : TypeUsername(n))
      PROVE  ModalTypeOK' /\ OwnCalls' /\ SuccessKept'
  <2>1. submissions' = submissions /\ UNCHANGED profileVars
    BY <1>8 DEF OpenModal, CloseModal, CheckUsername, TypeUsername
  <2>2. modal' \in Modal /\ (modal'.step = "success" => modal.step = "success")
    BY <1>0, <1>8 DEF OpenModal, CloseModal, CheckUsername, TypeUsername, Modal
  <2> QED BY <1>0, <1>5, <1>6, <2>1, <2>2 DEF ModalTypeOK
<1>9. ASSUME NEW s \in Submissions, handleClaim(s)
      PROVE  ModalTypeOK' /\ OwnCalls' /\ SuccessKept'
  <2>1. UNCHANGED profileVars /\ modal' = [modal EXCEPT !.error = FALSE]
        /\ submissions' = [submissions EXCEPT ![s] = [stage |-> "signing", name |-> modal.username, call |-> NoName]]
    BY <1>9 DEF handleClaim
  <2>2. modal.username \in Usernames
    BY <1>0, <1>9 DEF handleClaim, ClaimPanel, canSubmit, Modal
  <2>3. modal' \in Modal /\ modal'.step = modal.step
    BY <1>0, <2>1 DEF Modal
  <2>4. [stage |-> "signing", name |-> modal.username, call |-> NoName] \in Submission
    BY <2>2 DEF Submission
  <2>5. submissions' \in [Submissions -> Submission \cup {NoSubmission}]
    BY <1>0, <2>1, <2>4
  <2>6. \A t \in Submissions : submissions'[t].stage = "waiting" => submissions'[t] = submissions[t]
    BY <1>0, <2>1
  <2> QED BY <1>5, <1>6, <2>1, <2>3, <2>5, <2>6 DEF ModalTypeOK
<1>10. ASSUME NEW s \in Submissions, ClaimSigned(s)
       PROVE  ModalTypeOK' /\ OwnCalls' /\ SuccessKept'
  <2>1. UNCHANGED profileVars /\ modal' = [modal EXCEPT !.last = s]
        /\ submissions' = [submissions EXCEPT ![s].stage = "posting"] /\ submissions[s].stage = "signing"
    BY <1>10 DEF ClaimSigned
  <2>2. submissions[s] \in Submission
    BY <1>0, <2>1, NotSubmissions
  <2>3. modal' \in Modal /\ modal'.step = modal.step
    BY <1>0, <2>1 DEF Modal
  <2>4. submissions'[s] \in Submission /\ submissions'[s].stage = "posting"
        /\ \A t \in Submissions \ {s} : submissions'[t] = submissions[t]
    BY <1>0, <2>1, <2>2 DEF Submission
  <2>5. submissions' \in [Submissions -> Submission \cup {NoSubmission}]
    BY <1>0, <2>1, <2>4
  <2>6. \A t \in Submissions : submissions'[t].stage = "waiting" => submissions'[t] = submissions[t]
    BY <2>4
  <2> QED BY <1>5, <1>6, <2>1, <2>3, <2>5, <2>6 DEF ModalTypeOK
<1>11. ASSUME NEW s \in Submissions, NEW c \in ProfileCalls, ClaimArrives(s, c)
       PROVE  ModalTypeOK' /\ OwnCalls' /\ SuccessKept'
  <2>1. /\ modal' = modal /\ submissions[s].stage = "posting"
        /\ submissions' = [submissions EXCEPT ![s].stage = "waiting", ![s].call = c]
        /\ PostClaim(c, Me, submissions[s].name)
    BY <1>11 DEF ClaimArrives
  <2>2. submissions[s] \in Submission
    BY <1>0, <2>1, NotSubmissions
  <2>3. /\ submissions'[s] \in Submission /\ submissions'[s].stage = "waiting" /\ submissions'[s].call = c
        /\ \A t \in Submissions \ {s} : submissions'[t] = submissions[t]
    BY <1>0, <2>1, <2>2 DEF Submission
  <2>4. submissions' \in [Submissions -> Submission \cup {NoSubmission}]
    BY <1>0, <2>1, <2>3
  <2>5. /\ profCalls[c] = NoProfileCall
        /\ profCalls'[c].kind = "claim" /\ profCalls'[c].address = Me /\ profCalls'[c].stage = "limited"
        /\ \A d \in ProfileCalls \ {c} : profCalls'[d] = profCalls[d]
    BY <1>0, <2>1 DEF PostClaim, checkRateLimit
  <2>6. profCalls'[c] # NoProfileCall
    BY <2>5 DEF NoProfileCall
  <2>7. \A t \in Submissions \ {s} : submissions[t].stage = "waiting" =>
          /\ submissions[t].call \in ProfileCalls \ {c}
          /\ profCalls[submissions[t].call] # NoProfileCall
          /\ profCalls[submissions[t].call].kind = "claim" /\ profCalls[submissions[t].call].address = Me
    BY <2>5 DEF ClaimInv, OwnCalls
  <2>8. \A t \in Submissions : submissions'[t].stage = "waiting" =>
          /\ submissions'[t].call \in ProfileCalls
          /\ profCalls'[submissions'[t].call] # NoProfileCall
          /\ profCalls'[submissions'[t].call].kind = "claim"
          /\ profCalls'[submissions'[t].call].address = Me
    <3> SUFFICES ASSUME NEW t \in Submissions, submissions'[t].stage = "waiting"
                 PROVE  /\ submissions'[t].call \in ProfileCalls
                        /\ profCalls'[submissions'[t].call] # NoProfileCall
                        /\ profCalls'[submissions'[t].call].kind = "claim"
                        /\ profCalls'[submissions'[t].call].address = Me
      OBVIOUS
    <3>1. CASE t = s
      BY <2>3, <2>5, <2>6, <3>1
    <3>2. CASE t # s
      BY <2>3, <2>5, <2>7, <3>2
    <3> QED BY <3>1, <3>2
  <2>9. \A r, t \in Submissions :
          /\ submissions'[r].stage = "waiting" /\ submissions'[t].stage = "waiting"
          /\ submissions'[r].call = submissions'[t].call
          => r = t
    <3> SUFFICES ASSUME NEW r \in Submissions, NEW t \in Submissions, r # t, submissions'[r].stage = "waiting",
                        submissions'[t].stage = "waiting", submissions'[r].call = submissions'[t].call
                 PROVE  FALSE
      OBVIOUS
    <3>1. CASE r = s \/ t = s
      BY <2>3, <2>7, <3>1
    <3>2. CASE r # s /\ t # s
      BY <2>3, <3>2 DEF ClaimInv, OwnCalls
    <3> QED BY <3>1, <3>2
  <2>10. OwnCalls'
    BY <2>8, <2>9 DEF OwnCalls
  <2> QED BY <1>0, <1>6, <2>1, <2>4, <2>10 DEF ModalTypeOK
(* An answer and a death take the submission with the call. *)
<1>12. ASSUME NEW s \in Submissions, submissions[s].stage = "waiting",
              submissions' = [submissions EXCEPT ![s] = NoSubmission],
              profCalls' = [profCalls EXCEPT ![submissions[s].call] = NoProfileCall]
       PROVE  OwnCalls'
  <2>1. submissions[s].call \in ProfileCalls
    BY <1>12 DEF ClaimInv, OwnCalls
  <2>2. \A t \in Submissions \ {s} : submissions[t].stage = "waiting" =>
          /\ submissions[t].call \in ProfileCalls /\ submissions[t].call # submissions[s].call
          /\ profCalls[submissions[t].call] # NoProfileCall
    BY <1>12 DEF ClaimInv, OwnCalls
  <2>3. \A t \in Submissions \ {s} : submissions[t].stage = "waiting" => profCalls'[submissions[t].call] # NoProfileCall
    BY <1>0, <1>12, <2>1, <2>2
  <2> QED BY <1>4, <1>7, <1>12, <2>3
<1>13. ASSUME NEW s \in Submissions, ClaimAnswer(s)
       PROVE  ModalTypeOK' /\ OwnCalls' /\ SuccessKept'
  <2> DEFINE c == submissions[s].call
  <2>1. /\ submissions[s].stage = "waiting" /\ profCalls[c].stage = "answered"
        /\ profCalls' = [profCalls EXCEPT ![c] = NoProfileCall] /\ profiles' = profiles
        /\ submissions' = [submissions EXCEPT ![s] = NoSubmission]
        /\ \/ profCalls[c].ok /\ modal' = [modal EXCEPT !.step = "success"]
           \/ modal' = [modal EXCEPT !.error = TRUE]
    BY <1>13 DEF ClaimAnswer, ProfileAnswered
  <2>2. OwnCalls' /\ submissions' \in [Submissions -> Submission \cup {NoSubmission}]
    BY <1>7, <1>12, <2>1
  <2>3. modal' \in Modal
    BY <1>0, <2>1 DEF Modal
  <2>4. SuccessKept'
    <3>1. CASE profCalls[c].ok
      <4>1. profiles[Me] # NoProfile
        BY <2>1, <3>1 DEF ClaimInv, OwnCalls, ClaimsLand, At
      <4> QED BY <2>1, <4>1 DEF SuccessKept
    <3>2. CASE ~profCalls[c].ok
      BY <1>0, <1>6, <2>1, <3>2 DEF Modal
    <3> QED BY <3>1, <3>2
  <2> QED BY <2>2, <2>3, <2>4 DEF ModalTypeOK
<1>14. ASSUME NEW s \in Submissions, ClaimFails(s) \/ HandlerDies(s)
       PROVE  ModalTypeOK' /\ OwnCalls' /\ SuccessKept'
  <2>1. modal' = [modal EXCEPT !.error = TRUE] /\ submissions' = [submissions EXCEPT ![s] = NoSubmission]
    BY <1>14 DEF ClaimFails, HandlerDies
  <2>2. modal' \in Modal /\ modal'.step = modal.step
    BY <1>0, <2>1 DEF Modal
  <2>3. OwnCalls'
    <3>1. CASE ClaimFails(s)
      BY <1>5, <1>7, <2>1, <3>1 DEF ClaimFails
    <3>2. CASE HandlerDies(s)
      BY <1>12, <2>1, <3>2 DEF HandlerDies, ProfileCallDies
    <3> QED BY <1>14, <3>1, <3>2
  <2> QED BY <1>6, <1>7, <2>1, <2>2, <2>3 DEF ModalTypeOK
<1>15. ASSUME StoreStep
       PROVE  ModalTypeOK' /\ OwnCalls' /\ SuccessKept'
  <2>1. modal' = modal /\ submissions' = submissions
        /\ \A s \in Submissions : submissions[s].stage = "waiting" => profCalls'[submissions[s].call] # NoProfileCall
    BY <1>15 DEF StoreStep, modalVars
  <2> QED BY <1>0, <1>4, <1>6, <2>1 DEF ModalTypeOK
<1>16. ASSUME UNCHANGED <<profileVars, modalVars>>
       PROVE  ModalTypeOK' /\ OwnCalls' /\ SuccessKept'
  <2>1. UNCHANGED profileVars /\ modal' = modal /\ submissions' = submissions
    BY <1>16 DEF modalVars
  <2> QED BY <1>0, <1>5, <1>6, <2>1 DEF ModalTypeOK
<1>17. ModalTypeOK' /\ OwnCalls' /\ SuccessKept'
  BY <1>8, <1>9, <1>10, <1>11, <1>13, <1>14, <1>15, <1>16 DEF ClaimOp
<1> QED BY <1>2, <1>17 DEF ClaimInv

(* "Identity claimed" is shown only to a player who has a profile, for any *)
(* overlapping submissions, lost answers and racing claims.                *)
THEOREM SuccessStaysReal == ClaimSpec => []SuccessIsReal
<1>1. ClaimInv => SuccessIsReal
  BY DEF ClaimInv, SuccessKept, SuccessIsReal, ClaimPanel, getProfileByAddress
<1> QED BY <1>1, ClaimInvInit, ClaimInvNext, PTL DEF ClaimSpec

(* The dialog's store is the store: its names and badges are safe too. *)
THEOREM DialogKeepsStore == ClaimSpec => [](NameIsMine /\ OgIsScarce)
<1>1. ClaimInit => ClaimInv /\ NamesKept /\ BadgesNumbered
  BY ClaimInvInit, NamesKeptInit, BadgesNumberedInit DEF ClaimInit
<1>2. ClaimInv /\ NamesKept /\ BadgesNumbered /\ [ClaimOp]_<<profileVars, modalVars>>
        => (ClaimInv /\ NamesKept /\ BadgesNumbered)'
  BY ClaimInvNext, DialogUsesStore, NamesKeptNext, BadgesNumberedNext DEF ClaimInv
<1>3. NamesKept /\ BadgesNumbered => NameIsMine /\ OgIsScarce
  BY MineFromKept, ScarceFromNumbers
<1> QED BY <1>1, <1>2, <1>3, PTL DEF ClaimSpec

-----------------------------------------------------------------------------
(* A request's date is a day its player had one dated. *)
DatesPlayed ==
  \A c \in StreakCalls : streakCalls[c].stage = "dated" => streakCalls[c].today \in played[streakCalls[c].address]

StreakInv == StreakTypeOK /\ DatesPlayed /\ StreakIsEarned

(* What StreakIsEarned says of the overlay. *)
OverlayEarned(a) ==
  overlay[a] # Nothing =>
    /\ \E d \in 0..LastDay : PlayedRun(a, d, overlay[a].longest)
    /\ overlay[a].mode # "nudge" => \E d \in 0..LastDay : PlayedRun(a, d, overlay[a].current)

CallEarned(c) ==
  streakCalls[c].stage = "answered" => EarnedBy(streakCalls[c].address, streakCalls[c].result)

PlayerEarned(a) ==
  /\ EarnedBy(a, stored[a]) /\ EarnedBy(a, pending[a])
  /\ view[a] # Loading => EarnedBy(a, view[a])
  /\ OverlayEarned(a)

AllEarned == (\A a \in Streakers : PlayerEarned(a)) /\ (\A c \in StreakCalls : CallEarned(c))

LEMMA EarnedParts == StreakIsEarned <=> AllEarned
<1>1. \A a \in Streakers : (OverlayScreen(a).mode = "earned") <=> overlay[a].mode # "nudge"
  BY DEF OverlayScreen
<1>2. \A a \in Streakers : overlay[a].mode # "nudge" => OverlayScreen(a).days = overlay[a].current
  BY DEF OverlayScreen
<1>3. \A a \in Streakers :
        OverlayEarned(a) <=>
          /\ overlay[a] # Nothing => \E d \in 0..LastDay : PlayedRun(a, d, overlay[a].longest)
          /\ (overlay[a] # Nothing /\ OverlayScreen(a).mode = "earned") =>
               \E d \in 0..LastDay : PlayedRun(a, d, OverlayScreen(a).days)
  BY <1>1, <1>2 DEF OverlayEarned
<1> QED BY <1>3 DEF StreakIsEarned, CallEarned, AllEarned, PlayerEarned

-----------------------------------------------------------------------------
(* Runs of played days *)

LEMMA NoRun == \A a, d : PlayedRun(a, d, 0)
BY DEF PlayedRun

(* A streak and its longest are inside the days played. *)
LEMMA RunFits ==
  ASSUME NEW a, played[a] \subseteq Day, NEW d \in Int, NEW n \in Nat \ {0}, PlayedRun(a, d, n)
  PROVE  d \in Day /\ n <= d
<1>1. d - 0 \in played[a] /\ d - (n - 1) \in played[a]
  BY DEF PlayedRun
<1> QED BY <1>1, StreakAssumption DEF Day

(* The record script counts one more played day, or the same one again.    *)
LEMMA RecordEarned ==
  ASSUME NEW a \in Streakers, played[a] \subseteq Day, NEW old \in Stored, NEW date \in played[a], EarnedBy(a, old)
  PROVE  Record(old, date) \in Stored /\ EarnedBy(a, Record(old, date))
<1> DEFINE current == IF old.last = date THEN old.current
                      ELSE IF old.last = date - 1 THEN old.current + 1 ELSE 1
           new == Record(old, date)
<1>1. /\ date \in Day /\ date \in Nat \ {0} /\ LastDay \in Nat \ {0} /\ date <= LastDay
      /\ old.current \in Nat /\ old.longest \in Nat /\ old.last \in Nat
      /\ old.longest <= LastDay
  BY StreakAssumption DEF Day, Stored
<1>2. new = [current |-> current, longest |-> MaxOf(current, old.longest), last |-> date]
  BY DEF Record
<1>3. PlayedRun(a, date, current) /\ current \in Nat /\ (current # 0 => current <= date)
  <2>1. CASE old.last = date
    <3>1. PlayedRun(a, date, current)
      BY <2>1 DEF EarnedBy
    <3>2. current \in Nat
      BY <1>1, <2>1
    <3> QED BY <1>1, <3>1, <3>2, RunFits
  <2>2. CASE old.last # date /\ old.last = date - 1
    <3>1. current = old.current + 1
      BY <2>2
    <3>2. \A k \in 0..(old.current - 1) : old.last - k \in played[a]
      BY DEF EarnedBy, PlayedRun
    <3>3. ASSUME NEW k \in 0..(current - 1)
          PROVE  date - k \in played[a]
      <4>1. CASE k = 0
        BY <1>1, <4>1
      <4>2. CASE k # 0
        <5>1. k - 1 \in 0..(old.current - 1) /\ date - k = old.last - (k - 1)
          BY <1>1, <2>2, <3>1, <4>2
        <5> QED BY <3>2, <5>1
      <4> QED BY <4>1, <4>2
    <3>4. PlayedRun(a, date, current) /\ current \in Nat \ {0}
      BY <1>1, <3>1, <3>3 DEF PlayedRun
    <3> QED BY <1>1, <3>4, RunFits
  <2>3. CASE old.last # date /\ old.last # date - 1
    <3>1. current = 1
      BY <2>3
    <3>2. PlayedRun(a, date, 1)
      BY <1>1 DEF PlayedRun
    <3> QED BY <1>1, <3>1, <3>2
  <2> QED BY <2>1, <2>2, <2>3
<1> HIDE DEF current
<1>4. /\ MaxOf(current, old.longest) \in {current, old.longest}
      /\ current <= MaxOf(current, old.longest) /\ MaxOf(current, old.longest) \in 0..LastDay
  BY <1>1, <1>3 DEF MaxOf
<1>5. new \in Stored
  BY <1>1, <1>2, <1>3, <1>4 DEF Stored
<1>6. \E d \in 0..LastDay : PlayedRun(a, d, MaxOf(current, old.longest))
  BY <1>1, <1>3, <1>4 DEF EarnedBy
<1>7. EarnedBy(a, new)
  BY <1>2, <1>3, <1>4, <1>6 DEF EarnedBy
<1> QED BY <1>5, <1>7

(* What is derived for display is no longer than what is stored. *)
LEMMA DeriveEarned ==
  ASSUME NEW a \in Streakers, NEW s \in Stored, EarnedBy(a, s)
  PROVE  deriveStreak(s) \in Stored /\ EarnedBy(a, deriveStreak(s))
<1>1. /\ s.current \in 0..LastDay /\ s.longest \in 0..LastDay /\ s.last \in 0..LastDay /\ LastDay \in Nat
      /\ s = [current |-> s.current, longest |-> s.longest, last |-> s.last]
  BY StreakAssumption DEF Stored
<1>2. \/ deriveStreak(s) = [current |-> 0, longest |-> s.longest, last |-> 0]
      \/ deriveStreak(s) = [current |-> 0, longest |-> s.longest, last |-> s.last]
      \/ deriveStreak(s) = s
  BY <1>1 DEF deriveStreak, Never
<1> QED BY <1>1, <1>2, NoRun DEF EarnedBy, Stored

(* What was earned stays earned as more days are played. *)
LEMMA OverlayStaysEarned ==
  ASSUME \A a \in Streakers : played[a] \subseteq played'[a]
  PROVE  /\ \A a \in Streakers : \A d, n : PlayedRun(a, d, n) => PlayedRun(a, d, n)'
         /\ \A a \in Streakers : \A s : EarnedBy(a, s) => EarnedBy(a, s)'
<1>1. \A a \in Streakers : \A d, n : PlayedRun(a, d, n) => PlayedRun(a, d, n)'
  BY DEF PlayedRun
<1> QED BY <1>1 DEF EarnedBy

-----------------------------------------------------------------------------
LEMMA NeverEarned == Never \in Stored /\ \A a : EarnedBy(a, Never)
<1>1. Never.current = 0 /\ Never.longest = 0 /\ Never.last = 0 /\ 0 \in 0..LastDay
  BY StreakAssumption DEF Never
<1> QED BY <1>1, NoRun DEF Never, Stored, EarnedBy

LEMMA StreakInvInit == StreakInit => StreakInv
<1> SUFFICES ASSUME StreakInit PROVE StreakInv
  OBVIOUS
<1>1. StreakTypeOK
  BY NeverEarned, StreakAssumption DEF StreakInit, StreakTypeOK, Day
<1>2. DatesPlayed
  BY DEF StreakInit, DatesPlayed, NoStreakCall
<1>3. StreakIsEarned
  BY EarnedParts, NeverEarned DEF AllEarned, PlayerEarned, StreakInit, OverlayEarned, CallEarned, NoStreakCall
<1> QED BY <1>1, <1>2, <1>3 DEF StreakInv

(* A dispatch shows what it was given, or nothing new.                     *)
LEMMA DispatchEarned ==
  ASSUME StreakInv, NEW a \in Streakers, NEW mode \in Modes, NEW current \in 0..LastDay, NEW longest \in 0..LastDay,
         \E d \in 0..LastDay : PlayedRun(a, d, longest),
         mode = "earned" => \E d \in 0..LastDay : PlayedRun(a, d, current),
         Dispatch(a, mode, current, longest), played' = played
  PROVE  /\ overlay' \in [Streakers -> Shown \cup {Nothing}]
         /\ (storage \in BOOLEAN => guard' \in [Modes -> [Streakers -> 0..LastDay]])
         /\ \A b \in Streakers : OverlayEarned(b)'
<1>0. /\ overlay \in [Streakers -> Shown \cup {Nothing}]
      /\ guard \in [Modes -> [Streakers -> 0..LastDay]] /\ clock \in 0..LastDay
      /\ \A b \in Streakers : OverlayEarned(b)
  BY EarnedParts, StreakAssumption DEF AllEarned, PlayerEarned, StreakInv, StreakTypeOK, Day
<1>1. CASE UNCHANGED <<overlay, guard>>
  BY <1>0, <1>1 DEF OverlayEarned, PlayedRun
<1>2. CASE /\ guard' = (IF storage THEN [guard EXCEPT ![mode][a] = clock] ELSE guard)
           /\ overlay' = [overlay EXCEPT ![a] = [mode |-> mode, current |-> current, longest |-> longest]]
  <2> DEFINE shown == [mode |-> mode, current |-> current, longest |-> longest]
  <2>1. shown \in Shown
    BY DEF Shown
  <2>2. overlay'[a] = shown /\ \A b \in Streakers \ {a} : overlay'[b] = overlay[b]
    BY <1>0, <1>2
  <2>3. overlay' \in [Streakers -> Shown \cup {Nothing}] /\ guard' \in [Modes -> [Streakers -> 0..LastDay]]
    BY <1>0, <1>2, <2>1
  <2>4. mode # "nudge" => mode = "earned"
    BY DEF Modes
  <2>5. OverlayEarned(a)'
    BY <2>2, <2>4 DEF OverlayEarned, PlayedRun
  <2>6. \A b \in Streakers \ {a} : OverlayEarned(b)'
    BY <1>0, <2>2 DEF OverlayEarned, PlayedRun
  <2> QED BY <2>3, <2>5, <2>6
<1> QED BY <1>1, <1>2 DEF Dispatch

LEMMA StreakInvNext ==
  ASSUME StreakInv, [StreakOp]_streakVars
  PROVE  StreakInv'
<1>0. /\ clock \in Day /\ stored \in [Streakers -> Stored]
      /\ streakCalls \in [StreakCalls -> StreakCall \cup {NoStreakCall}]
      /\ played \in [Streakers -> SUBSET Day]
      /\ view \in [Streakers -> Stored \cup {Loading}] /\ pending \in [Streakers -> Stored]
      /\ overlay \in [Streakers -> Shown \cup {Nothing}]
      /\ guard \in [Modes -> [Streakers -> 0..LastDay]] /\ nudged \subseteq Streakers /\ storage \in BOOLEAN
  BY DEF StreakInv, StreakTypeOK
<1>a. DatesPlayed /\ (\A a \in Streakers : PlayerEarned(a)) /\ (\A c \in StreakCalls : CallEarned(c))
  BY EarnedParts DEF StreakInv, AllEarned
<1>b. NoStreakCall.stage = "idle" /\ NoStreakCall \notin StreakCall
  BY DEF NoStreakCall, StreakCall
<1>c. \A c \in StreakCalls : streakCalls[c].stage # "idle" => streakCalls[c] \in StreakCall
  BY <1>0, <1>b
<1>d. \A call \in StreakCall : call.address \in Streakers /\ call.result \in Stored /\ call.today \in 0..LastDay
                               /\ call.bot \in BOOLEAN
  BY DEF StreakCall
<1>e. LastDay \in Nat \ {0}
  BY StreakAssumption
(* Nobody forgets a played day. *)
<1>f. ASSUME \A a \in Streakers : played[a] \subseteq played'[a]
      PROVE  /\ \A a \in Streakers : \A s : EarnedBy(a, s) => EarnedBy(a, s)'
             /\ \A a \in Streakers : overlay'[a] = overlay[a] /\ OverlayEarned(a) => OverlayEarned(a)'
  BY <1>f, OverlayStaysEarned DEF OverlayEarned
(* Requests that keep, or lose, what they have. *)
<1>g. ASSUME played' = played, NEW c \in StreakCalls,
             \A d \in StreakCalls \ {c} : streakCalls'[d] = streakCalls[d],
             streakCalls'[c].stage = "dated" => streakCalls'[c].today \in played[streakCalls'[c].address],
             streakCalls'[c].stage = "answered" => EarnedBy(streakCalls'[c].address, streakCalls'[c].result)
      PROVE  DatesPlayed' /\ \A d \in StreakCalls : CallEarned(d)'
  BY <1>a, <1>g DEF DatesPlayed, CallEarned, EarnedBy, PlayedRun
<1>h. AllEarned' => StreakIsEarned'
  BY EarnedParts, PTL
<1>i. played' = played => /\ \A a \in Streakers : \A s : EarnedBy(a, s) => EarnedBy(a, s)'
                          /\ \A a \in Streakers : overlay'[a] = overlay[a] /\ OverlayEarned(a) => OverlayEarned(a)'
  BY <1>f
(* Only a request changes. *)
<1>j. ASSUME UNCHANGED <<clock, stored, played, view, pending, overlay, guard, nudged, storage>>,
             streakCalls' \in [StreakCalls -> StreakCall \cup {NoStreakCall}],
             DatesPlayed', \A d \in StreakCalls : CallEarned(d)'
      PROVE  StreakInv'
  <2>1. StreakTypeOK'
    BY <1>0, <1>j DEF StreakTypeOK
  <2>2. \A a \in Streakers : PlayerEarned(a)'
    BY <1>a, <1>i, <1>j DEF PlayerEarned
  <2> QED BY <1>h, <1>j, <2>1, <2>2 DEF StreakInv, AllEarned
(* The requests stay and no day is played. *)
<1>k. ASSUME UNCHANGED <<streakCalls, played>>, StreakTypeOK', \A a \in Streakers : PlayerEarned(a)'
      PROVE  StreakInv'
  <2>1. DatesPlayed' /\ \A d \in StreakCalls : CallEarned(d)'
    BY <1>a, <1>i, <1>k DEF DatesPlayed, CallEarned, EarnedBy, PlayedRun
  <2> QED BY <1>h, <1>k, <2>1 DEF StreakInv, AllEarned
<1>1. ASSUME NEW c \in StreakCalls, NEW a \in Streakers, NEW bot \in BOOLEAN, PostStreak(c, a, bot)
      PROVE  StreakInv'
  <2> DEFINE call == [stage |-> "counted", address |-> a, bot |-> bot, today |-> 0, result |-> Never]
  <2>1. call \in StreakCall
    BY <1>e, NeverEarned DEF StreakCall
  <2>2. streakCalls' \in [StreakCalls -> StreakCall \cup {NoStreakCall}] /\ streakCalls'[c].stage = "counted"
        /\ \A d \in StreakCalls \ {c} : streakCalls'[d] = streakCalls[d]
    BY <1>0, <1>1, <2>1 DEF PostStreak
  <2>3. UNCHANGED <<clock, stored, played, view, pending, overlay, guard, nudged, storage>>
    BY <1>1 DEF PostStreak
  <2> QED BY <1>g, <1>j, <2>2, <2>3
<1>2. ASSUME NEW c \in StreakCalls, DateStreak(c)
      PROVE  StreakInv'
  <2> DEFINE a == streakCalls[c].address
  <2>1. streakCalls[c] \in StreakCall /\ a \in Streakers
    BY <1>2, <1>c, <1>d DEF DateStreak
  <2>2. /\ streakCalls' = [streakCalls EXCEPT ![c].stage = "dated", ![c].today = clock]
        /\ played' = [played EXCEPT ![a] = @ \cup {clock}]
        /\ UNCHANGED <<clock, stored, view, pending, overlay, guard, nudged, storage>>
    BY <1>2 DEF DateStreak
  <2>a. clock \in 0..LastDay
    BY <1>0, <1>e DEF Day
  <2>3. /\ streakCalls'[c].stage = "dated" /\ streakCalls'[c].today = clock /\ streakCalls'[c].address = a
        /\ streakCalls'[c] \in StreakCall
        /\ \A d \in StreakCalls \ {c} : streakCalls'[d] = streakCalls[d]
    BY <1>0, <2>1, <2>2, <2>a DEF StreakCall
  <2>4. streakCalls' \in [StreakCalls -> StreakCall \cup {NoStreakCall}]
    BY <1>0, <2>2, <2>3
  <2>5. /\ \A b \in Streakers : played[b] \subseteq played'[b]
        /\ played' \in [Streakers -> SUBSET Day] /\ clock \in played'[a]
    BY <1>0, <2>1, <2>2
  <2>6. StreakTypeOK'
    BY <1>0, <2>2, <2>4, <2>5 DEF StreakTypeOK
  <2>7. DatesPlayed'
    <3> SUFFICES ASSUME NEW d \in StreakCalls, streakCalls'[d].stage = "dated"
                 PROVE  streakCalls'[d].today \in played'[streakCalls'[d].address]
      BY DEF DatesPlayed
    <3>1. CASE d = c
      BY <2>3, <2>5, <3>1
    <3>2. CASE d # c
      <4>1. streakCalls'[d] = streakCalls[d] /\ streakCalls[d].address \in Streakers
        BY <1>c, <1>d, <2>3, <3>2
      <4> QED BY <1>a, <2>5, <4>1 DEF DatesPlayed
    <3> QED BY <3>1, <3>2
  <2>8. \A s, b : b \in Streakers /\ EarnedBy(b, s) => EarnedBy(b, s)'
    BY <1>f, <2>5
  <2>9. \A d \in StreakCalls : CallEarned(d)'
    <3> SUFFICES ASSUME NEW d \in StreakCalls, streakCalls'[d].stage = "answered"
                 PROVE  EarnedBy(streakCalls[d].address, streakCalls[d].result)'
      BY DEF CallEarned
    <3>1. d # c /\ streakCalls'[d] = streakCalls[d] /\ streakCalls[d].address \in Streakers
      BY <1>c, <1>d, <2>3
    <3>2. EarnedBy(streakCalls[d].address, streakCalls[d].result)
      BY <1>a, <3>1 DEF CallEarned
    <3> QED BY <2>5, <3>1, <3>2 DEF EarnedBy, PlayedRun
  <2>10. \A b \in Streakers : PlayerEarned(b)'
    BY <1>a, <1>f, <2>2, <2>5 DEF PlayerEarned
  <2> QED BY <1>h, <2>6, <2>7, <2>9, <2>10 DEF StreakInv, AllEarned
<1>3. ASSUME NEW c \in StreakCalls, recordPlayDay(c)
      PROVE  StreakInv'
  <2> DEFINE a == streakCalls[c].address
             new == Record(stored[a], streakCalls[c].today)
  <2>1. streakCalls[c] \in StreakCall /\ a \in Streakers
    BY <1>3, <1>c, <1>d DEF recordPlayDay
  <2>2. /\ stored' = [stored EXCEPT ![a] = new]
        /\ streakCalls' = [streakCalls EXCEPT ![c].stage = "answered", ![c].result = stored'[a]]
        /\ UNCHANGED <<clock, played, view, pending, overlay, guard, nudged, storage>>
    BY <1>3 DEF recordPlayDay
  <2>3. streakCalls[c].today \in played[a]
    BY <1>3, <1>a DEF recordPlayDay, DatesPlayed
  <2>4. new \in Stored /\ EarnedBy(a, new)
    BY <1>0, <1>a, <2>1, <2>3, RecordEarned DEF PlayerEarned
  <2> HIDE DEF new
  <2>5. stored'[a] = new /\ stored' \in [Streakers -> Stored] /\ \A b \in Streakers \ {a} : stored'[b] = stored[b]
    BY <1>0, <2>1, <2>2, <2>4
  <2>6. /\ streakCalls'[c].stage = "answered" /\ streakCalls'[c].result = new /\ streakCalls'[c].address = a
        /\ streakCalls'[c] \in StreakCall
        /\ \A d \in StreakCalls \ {c} : streakCalls'[d] = streakCalls[d]
    BY <1>0, <2>1, <2>2, <2>4, <2>5 DEF StreakCall
  <2>7. streakCalls' \in [StreakCalls -> StreakCall \cup {NoStreakCall}]
    BY <1>0, <2>2, <2>6
  <2>8. StreakTypeOK'
    BY <1>0, <2>2, <2>5, <2>7 DEF StreakTypeOK
  <2>9. DatesPlayed' /\ \A d \in StreakCalls : CallEarned(d)'
    BY <1>g, <2>2, <2>4, <2>6
  <2>10. \A b \in Streakers : PlayerEarned(b)'
    <3> SUFFICES ASSUME NEW b \in Streakers PROVE PlayerEarned(b)'
      OBVIOUS
    <3>1. EarnedBy(b, stored'[b])
      BY <1>a, <2>4, <2>5 DEF PlayerEarned
    <3> QED BY <1>a, <1>i, <2>2, <3>1 DEF PlayerEarned
  <2> QED BY <1>h, <2>8, <2>9, <2>10 DEF StreakInv, AllEarned
<1>4. ASSUME NEW c \in StreakCalls, StreakCallEnds(c)
      PROVE  StreakInv'
  <2>1. streakCalls' \in [StreakCalls -> StreakCall \cup {NoStreakCall}] /\ streakCalls'[c].stage = "idle"
        /\ \A d \in StreakCalls \ {c} : streakCalls'[d] = streakCalls[d]
    BY <1>0, <1>4, <1>b DEF StreakCallEnds
  <2>2. UNCHANGED <<clock, stored, played, view, pending, overlay, guard, nudged, storage>>
    BY <1>4 DEF StreakCallEnds
  <2> QED BY <1>g, <1>j, <2>1, <2>2
<1>5. ASSUME NEW c \in StreakCalls, StreakAnswer(c)
      PROVE  StreakInv'
  <2> DEFINE a == streakCalls[c].address
             res == streakCalls[c].result
  <2>1. a \in Streakers /\ res \in Stored /\ EarnedBy(a, res)
    BY <1>5, <1>a, <1>c, <1>d DEF StreakAnswer, CallEarned
  <2>2. /\ streakCalls' = [streakCalls EXCEPT ![c] = NoStreakCall]
        /\ \/ Dispatch(a, "earned", res.current, res.longest) /\ UNCHANGED pending
           \/ pending' = [pending EXCEPT ![a] = res] /\ UNCHANGED <<overlay, guard>>
        /\ UNCHANGED <<clock, stored, played, view, nudged, storage>>
    BY <1>5 DEF StreakAnswer
  <2>3. streakCalls' \in [StreakCalls -> StreakCall \cup {NoStreakCall}] /\ streakCalls'[c].stage = "idle"
        /\ \A d \in StreakCalls \ {c} : streakCalls'[d] = streakCalls[d]
    BY <1>0, <1>b, <2>2
  <2>4. DatesPlayed' /\ \A d \in StreakCalls : CallEarned(d)'
    BY <1>g, <2>2, <2>3
  <2>5. /\ overlay' \in [Streakers -> Shown \cup {Nothing}] /\ guard' \in [Modes -> [Streakers -> 0..LastDay]]
        /\ pending' \in [Streakers -> Stored]
        /\ \A b \in Streakers : OverlayEarned(b)' /\ EarnedBy(b, pending'[b])
    <3>1. CASE Dispatch(a, "earned", res.current, res.longest) /\ UNCHANGED pending
      <4>1. /\ res.current \in 0..LastDay /\ res.longest \in 0..LastDay /\ res.last \in 0..LastDay
            /\ PlayedRun(a, res.last, res.current) /\ \E d \in 0..LastDay : PlayedRun(a, d, res.longest)
        BY <2>1 DEF Stored, EarnedBy
      <4>2. "earned" \in Modes
        BY DEF Modes
      <4> QED BY <1>0, <1>a, <2>1, <2>2, <3>1, <4>1, <4>2, DispatchEarned DEF PlayerEarned
    <3>2. CASE pending' = [pending EXCEPT ![a] = res] /\ UNCHANGED <<overlay, guard>>
      <4>1. \A b \in Streakers : OverlayEarned(b)'
        BY <1>a, <1>i, <2>2, <3>2 DEF PlayerEarned
      <4> QED BY <1>0, <1>a, <2>1, <3>2, <4>1 DEF PlayerEarned
    <3> QED BY <2>2, <3>1, <3>2
  <2>6. StreakTypeOK'
    BY <1>0, <2>2, <2>3, <2>5 DEF StreakTypeOK
  <2>7. \A b \in Streakers : PlayerEarned(b)'
    BY <1>a, <1>i, <2>2, <2>5 DEF PlayerEarned
  <2> QED BY <1>h, <2>4, <2>6, <2>7 DEF StreakInv, AllEarned
<1>6. ASSUME NEW a \in Streakers, leaveToLobby(a)
      PROVE  StreakInv'
  <2>1. /\ Dispatch(a, "earned", pending[a].current, pending[a].longest)
        /\ pending' = [pending EXCEPT ![a] = Never]
        /\ UNCHANGED <<clock, stored, streakCalls, played, view, nudged, storage>>
    BY <1>6 DEF leaveToLobby
  <2>2. pending[a] \in Stored /\ EarnedBy(a, pending[a]) /\ "earned" \in Modes
    BY <1>0, <1>a DEF PlayerEarned, Modes
  <2>3. /\ pending[a].current \in 0..LastDay /\ pending[a].longest \in 0..LastDay /\ pending[a].last \in 0..LastDay
        /\ PlayedRun(a, pending[a].last, pending[a].current)
        /\ \E d \in 0..LastDay : PlayedRun(a, d, pending[a].longest)
    BY <2>2 DEF Stored, EarnedBy
  <2>4. /\ overlay' \in [Streakers -> Shown \cup {Nothing}] /\ guard' \in [Modes -> [Streakers -> 0..LastDay]]
        /\ \A b \in Streakers : OverlayEarned(b)'
    BY <1>0, <2>1, <2>2, <2>3, DispatchEarned
  <2>5. pending' \in [Streakers -> Stored] /\ \A b \in Streakers : EarnedBy(b, pending'[b])
    BY <1>0, <1>a, <2>1, NeverEarned DEF PlayerEarned
  <2>6. StreakTypeOK'
    BY <1>0, <2>1, <2>4, <2>5 DEF StreakTypeOK
  <2>7. \A b \in Streakers : PlayerEarned(b)'
    BY <1>a, <1>i, <2>1, <2>4, <2>5 DEF PlayerEarned
  <2> QED BY <1>k, <2>1, <2>6, <2>7
<1>7. ASSUME NEW a \in Streakers, getStreak(a)
      PROVE  StreakInv'
  <2>1. /\ view' = [view EXCEPT ![a] = deriveStreak(stored[a])]
        /\ UNCHANGED <<clock, stored, streakCalls, played, pending, overlay, guard, nudged, storage>>
    BY <1>7 DEF getStreak
  <2>2. deriveStreak(stored[a]) \in Stored /\ EarnedBy(a, deriveStreak(stored[a]))
    BY <1>0, <1>a, DeriveEarned DEF PlayerEarned
  <2>3. view' \in [Streakers -> Stored \cup {Loading}]
        /\ \A b \in Streakers : view'[b] # Loading => EarnedBy(b, view'[b])
    BY <1>0, <1>a, <2>1, <2>2 DEF PlayerEarned
  <2>4. StreakTypeOK'
    BY <1>0, <2>1, <2>3 DEF StreakTypeOK
  <2>5. \A b \in Streakers : PlayerEarned(b)'
    BY <1>a, <1>i, <2>1, <2>3 DEF PlayerEarned
  <2> QED BY <1>k, <2>1, <2>4, <2>5
<1>8. ASSUME NEW a \in Streakers, LobbyNudge(a)
      PROVE  StreakInv'
  <2>1. /\ view[a] # Loading /\ nudged' = nudged \cup {a}
        /\ Dispatch(a, "nudge", 0, view[a].longest)
        /\ UNCHANGED <<clock, stored, streakCalls, played, view, pending, storage>>
    BY <1>8 DEF LobbyNudge
  <2>2. view[a] \in Stored /\ EarnedBy(a, view[a]) /\ "nudge" \in Modes
    BY <1>0, <1>a, <2>1 DEF PlayerEarned, Modes
  <2>3. view[a].longest \in 0..LastDay /\ 0 \in 0..LastDay /\ \E d \in 0..LastDay : PlayedRun(a, d, view[a].longest)
    BY <1>e, <2>2 DEF Stored, EarnedBy
  <2>4. /\ overlay' \in [Streakers -> Shown \cup {Nothing}] /\ guard' \in [Modes -> [Streakers -> 0..LastDay]]
        /\ \A b \in Streakers : OverlayEarned(b)'
    BY <1>0, <2>1, <2>2, <2>3, DispatchEarned
  <2>5. StreakTypeOK'
    BY <1>0, <2>1, <2>4 DEF StreakTypeOK
  <2>6. \A b \in Streakers : PlayerEarned(b)'
    BY <1>a, <1>i, <2>1, <2>4 DEF PlayerEarned
  <2> QED BY <1>k, <2>1, <2>5, <2>6
<1>9. ASSUME NEW a \in Streakers, CloseOverlay(a)
      PROVE  StreakInv'
  <2>1. /\ overlay' = [overlay EXCEPT ![a] = Nothing]
        /\ UNCHANGED <<clock, stored, streakCalls, played, view, pending, guard, nudged, storage>>
    BY <1>9 DEF CloseOverlay
  <2>2. StreakTypeOK'
    BY <1>0, <2>1 DEF StreakTypeOK
  <2>3. \A b \in Streakers : OverlayEarned(b)'
    <3>1. \A b \in Streakers : overlay'[b] = Nothing \/ overlay'[b] = overlay[b]
      BY <1>0, <2>1
    <3> QED BY <1>a, <1>i, <2>1, <3>1 DEF OverlayEarned, PlayerEarned
  <2>4. \A b \in Streakers : PlayerEarned(b)'
    BY <1>a, <1>i, <2>1, <2>3 DEF PlayerEarned
  <2> QED BY <1>k, <2>1, <2>2, <2>4
<1>10. ASSUME UNCHANGED <<stored, streakCalls, played, view, pending, overlay, guard, storage>>,
              clock' \in Day, nudged' \subseteq Streakers
       PROVE  StreakInv'
  <2>1. StreakTypeOK'
    BY <1>0, <1>10 DEF StreakTypeOK
  <2>2. \A b \in Streakers : PlayerEarned(b)'
    BY <1>a, <1>i, <1>10 DEF PlayerEarned
  <2> QED BY <1>k, <1>10, <2>1, <2>2
<1>11. ASSUME NEW a \in Streakers, LobbyAgain(a)
       PROVE  StreakInv'
  BY <1>0, <1>10, <1>11 DEF LobbyAgain
<1>12. CASE Midnight
  BY <1>0, <1>e, <1>10, <1>12 DEF Midnight, Day
<1>13. CASE UNCHANGED streakVars
  BY <1>0, <1>10, <1>13 DEF streakVars
<1> QED BY <1>1, <1>2, <1>3, <1>4, <1>5, <1>6, <1>7, <1>8, <1>9, <1>11, <1>12, <1>13 DEF StreakOp, RecordOp

(* No streak, stored, cached, pending or on the screen, is ever longer     *)
(* than the days in a row that were played, however requests are delayed   *)
(* over midnight, overtake each other and get lost.                        *)
THEOREM StreaksEarned == StreakSpec => []StreakIsEarned
<1>1. StreakInv => StreakIsEarned
  BY DEF StreakInv
<1> QED BY <1>1, StreakInvInit, StreakInvNext, PTL DEF StreakSpec

-----------------------------------------------------------------------------
Masteries == UNION {[S -> 0..100] : S \in SUBSET AllConcepts}

Patches == [coach: Coaches \cup {None}, level: Levels \cup {None}, placed: BOOLEAN,
            mastery: Masteries, lesson: Lessons \cup {None}]

TrainCallRecords == [stage: TrainStages, method: {"GET", "PATCH"}, patch: Patches, home: BOOLEAN,
                     mine: BOOLEAN, model: Learner \cup {NoLearner}]

LearnPages == [screen: {"hub", "lesson", "placement", "settings", "elsewhere"}, asked: BOOLEAN,
          adopt: Coaches \cup {None}, lesson: Lessons \cup {None}, step: Nat \ {0}, phase: Phases,
          judging: SUBSET (Nat \X BOOLEAN), results: Seq(BOOLEAN), rights: SUBSET Nat]

(* What EarnedProgress says, of the lessons done and the tests taken so    *)
(* far; and what a change on its way must have behind it.                  *)
Earned(m, done, taken) ==
  m # NoLearner => /\ m.completed \subseteq done
                   /\ m.level = "intermediate" => \E n \in taken : n >= EnoughSolved

EarnedPatch(patch, done, taken) ==
  /\ patch.lesson # None => patch.lesson \in done
  /\ patch.level = "intermediate" => \E n \in taken : n >= EnoughSolved

EarnedCall(call, done, taken) ==
  call # NoTrainCall => /\ Earned(call.model, done, taken) /\ EarnedPatch(call.patch, done, taken)
                        /\ call.stage # "asked" => call.model \in Learner

(* A page waits for one verdict at most, on the move of its step; the      *)
(* steps before it were judged right, and so was the step itself once the  *)
(* button leads on.                                                        *)
Behind(pg) == IF pg.phase \in {"right", "complete"} THEN pg.step ELSE pg.step - 1

OneVerdict(pg) ==
  IF pg.phase = "checking" THEN \E key \in BOOLEAN : pg.judging = {<<pg.step, key>>} ELSE pg.judging = {}

PageInOrder(pg) ==
  /\ OneVerdict(pg)
  /\ pg.screen = "lesson" =>
       pg.lesson \in Lessons /\ pg.step <= StepsOf(pg.lesson) /\ pg.rights = 1..Behind(pg)
  /\ pg.screen = "placement" =>
       pg.step <= Len(PlacementItems) /\ Len(pg.results) = Behind(pg) /\ pg.phase # "wrong"

TrainTyped ==
  /\ learner \in Learner \cup {NoLearner} /\ learnerView \in Learner \cup {NoLearner}
  /\ trainCalls \in [TrainCalls -> TrainCallRecords \cup {NoTrainCall}]
  /\ page \in LearnPages
  /\ navCoach \in Coaches \cup {None}
  /\ solved \subseteq Lessons /\ placements \subseteq 0..Len(PlacementItems)
  /\ trainCalm \in BOOLEAN

TrainInv ==
  /\ TrainTyped
  /\ Earned(learner, solved, placements) /\ Earned(learnerView, solved, placements)
  /\ \A c \in TrainCalls : EarnedCall(trainCalls[c], solved, placements)
  /\ PageInOrder(page)

(* While no handler read in between, at most one holds a copy: of no       *)
(* record yet, or one that takes nothing away from it.                     *)
NothingLost(m, n) == m # NoLearner => m.completed \subseteq n.completed /\ (m.placed => n.placed)

CalmCalls ==
  trainCalm =>
    /\ \A c, d \in TrainCalls : Holding(c) /\ Holding(d) => c = d
    /\ \A c \in TrainCalls : trainCalls[c].stage = "fresh" => learner = NoLearner
    /\ \A c \in TrainCalls : trainCalls[c].stage = "saving" => NothingLost(learner, trainCalls[c].model)

-----------------------------------------------------------------------------
(* The operators of the store.                                             *)

LEMMA LearnerIsARecord == ASSUME NEW m \in Learner PROVE m # NoLearner
  <1>1. "level" \in DOMAIN m
    BY DEF Learner
  <1>2. "level" \notin DOMAIN NoLearner
    BY DEF NoLearner
  <1> QED BY <1>1, <1>2

LEMMA CallIsARecord == ASSUME NEW call \in TrainCallRecords PROVE call # NoTrainCall
  <1>1. call.stage # "idle"
    BY DEF TrainCallRecords, TrainStages
  <1> QED BY <1>1 DEF NoTrainCall

LEMMA ClampType == ASSUME NEW v \in Int PROVE Clamp(v) \in 0..100
  BY DEF Clamp

LEMMA NoPatchType == NoPatch \in Patches
  <1>1. [k \in {} |-> 0] \in [{} -> 0..100]
    OBVIOUS
  <1>2. [k \in {} |-> 0] \in Masteries
    BY <1>1 DEF Masteries
  <1> QED BY <1>2 DEF NoPatch, Patches

LEMMA EmptyLearnerType ==
  ASSUME NEW coach \in Coaches \cup {None}
  PROVE  emptyLearner(coach) \in Learner
  BY TrainAssumption DEF emptyLearner, Learner, Levels

LEMMA EmptyLearnerEarned ==
  ASSUME NEW coach, NEW done, NEW taken
  PROVE  Earned(emptyLearner(coach), done, taken)
  BY DEF emptyLearner, Earned

LEMMA ApplyPatchType ==
  ASSUME NEW m \in Learner, NEW patch \in Patches
  PROVE  applyPatch(m, patch) \in Learner
  <1>1. \A k \in AllConcepts : m.mastery[k] \in 0..100
    BY DEF Learner
  <1>2. PICK S \in SUBSET AllConcepts : patch.mastery \in [S -> 0..100]
    BY DEF Patches, Masteries
  <1>3. \A k \in DOMAIN patch.mastery : Clamp(patch.mastery[k]) \in 0..100
    <2>1. \A k \in S : patch.mastery[k] \in Int
      BY <1>2
    <2> QED BY <1>2, <2>1, ClampType
  <1>4. [k \in AllConcepts |-> IF k \in DOMAIN patch.mastery THEN Clamp(patch.mastery[k])
                               ELSE m.mastery[k]] \in [AllConcepts -> 0..100]
    BY <1>1, <1>3
  <1>5. /\ (IF patch.coach = None THEN m.coach ELSE patch.coach) \in Coaches
        /\ (IF patch.level = None THEN m.level ELSE patch.level) \in Levels
        /\ (m.placed \/ patch.placed) \in BOOLEAN
        /\ (IF patch.lesson = None THEN m.completed ELSE m.completed \cup {patch.lesson}) \in SUBSET Lessons
    BY DEF Learner, Patches
  <1> QED BY <1>4, <1>5 DEF applyPatch, Learner

LEMMA ApplyPatchEarned ==
  ASSUME NEW m \in Learner, NEW patch \in Patches, NEW done, NEW taken,
         Earned(m, done, taken), EarnedPatch(patch, done, taken)
  PROVE  Earned(applyPatch(m, patch), done, taken)
  BY LearnerIsARecord DEF applyPatch, Earned, EarnedPatch, Patches

LEMMA ApplyPatchKeeps ==
  ASSUME NEW m \in Learner, NEW patch \in Patches
  PROVE  NothingLost(m, applyPatch(m, patch))
  BY DEF applyPatch, NothingLost, Learner, Patches

(* More lessons and tests leave earned what was earned. *)
LEMMA EarnedStays ==
  ASSUME NEW done, NEW taken, NEW done2, NEW taken2, done \subseteq done2, taken \subseteq taken2
  PROVE  /\ \A m : Earned(m, done, taken) => Earned(m, done2, taken2)
         /\ \A patch : EarnedPatch(patch, done, taken) => EarnedPatch(patch, done2, taken2)
         /\ \A call : EarnedCall(call, done, taken) => EarnedCall(call, done2, taken2)
  <1>1. \A m : Earned(m, done, taken) => Earned(m, done2, taken2)
    BY DEF Earned
  <1>2. \A patch : EarnedPatch(patch, done, taken) => EarnedPatch(patch, done2, taken2)
    BY DEF EarnedPatch
  <1> QED BY <1>1, <1>2 DEF EarnedCall

-----------------------------------------------------------------------------
(* The steps of a call.                                                    *)
Follows(old, new) ==
  \/ old = NoTrainCall /\ new = NoTrainCall
  \/ /\ old \in TrainCallRecords /\ new \in TrainCallRecords
     /\ new.stage = old.stage /\ new.method = old.method /\ new.patch = old.patch /\ new.model = old.model

LEMMA FollowsEarned ==
  ASSUME NEW done, NEW taken, NEW old, NEW new, Follows(old, new), EarnedCall(old, done, taken)
  PROVE  EarnedCall(new, done, taken)
  BY CallIsARecord DEF Follows, EarnedCall

LEMMA OrphanFollows ==
  ASSUME TrainTyped, NEW d \in TrainCalls
  PROVE  /\ Orphans[d] \in TrainCallRecords \cup {NoTrainCall}
         /\ Follows(trainCalls[d], Orphans[d])
  <1>1. trainCalls[d] \in TrainCallRecords \cup {NoTrainCall}
    BY DEF TrainTyped
  <1>2. CASE trainCalls[d] = NoTrainCall
    BY <1>2 DEF Orphans, Follows
  <1>3. CASE trainCalls[d] \in TrainCallRecords
    <2>1. Orphans[d] = [trainCalls[d] EXCEPT !.mine = FALSE]
      BY <1>3, CallIsARecord DEF Orphans
    <2>2. \A call \in TrainCallRecords :
            LET orphan == [call EXCEPT !.mine = FALSE]
            IN  /\ orphan \in TrainCallRecords
                /\ orphan.stage = call.stage /\ orphan.method = call.method
                /\ orphan.patch = call.patch /\ orphan.model = call.model
      BY DEF TrainCallRecords
    <2> QED BY <1>3, <2>1, <2>2 DEF Follows
  <1> QED BY <1>1, <1>2, <1>3

LEMMA AskedCalls ==
  ASSUME TrainTyped, NEW c \in TrainCalls, NEW method \in {"GET", "PATCH"}, NEW patch \in Patches,
         NEW home \in BOOLEAN, Ask(c, method, patch, home)
  PROVE  /\ trainCalls' \in [TrainCalls -> TrainCallRecords \cup {NoTrainCall}]
         /\ \A d \in TrainCalls \ {c} : trainCalls'[d] = trainCalls[d]
         /\ trainCalls'[c] \in TrainCallRecords
         /\ trainCalls'[c].stage = "asked" /\ trainCalls'[c].model = NoLearner
         /\ trainCalls'[c].patch = patch
  <1> DEFINE call == [stage |-> "asked", method |-> method, patch |-> patch, home |-> home,
                      mine |-> TRUE, model |-> NoLearner]
  <1>1. call \in TrainCallRecords
    BY DEF TrainCallRecords, TrainStages
  <1>2. trainCalls' = [trainCalls EXCEPT ![c] = call]
    BY DEF Ask
  <1>3. call.stage = "asked" /\ call.model = NoLearner /\ call.patch = patch
    OBVIOUS
  <1> HIDE DEF call
  <1> QED BY <1>1, <1>2, <1>3 DEF TrainTyped

LEMMA CallsWith ==
  ASSUME TrainTyped, NEW c \in TrainCalls, trainCalls[c] # NoTrainCall,
         NEW stage \in TrainStages, NEW model \in Learner, With(c, stage, model)
  PROVE  /\ trainCalls' \in [TrainCalls -> TrainCallRecords \cup {NoTrainCall}]
         /\ \A d \in TrainCalls \ {c} : trainCalls'[d] = trainCalls[d]
         /\ trainCalls'[c] \in TrainCallRecords
         /\ trainCalls'[c].stage = stage /\ trainCalls'[c].model = model
         /\ trainCalls'[c].patch = trainCalls[c].patch
  <1> DEFINE call == trainCalls[c]
             next == [call EXCEPT !.stage = stage, !.model = model]
  <1>1. call \in TrainCallRecords
    BY DEF TrainTyped
  <1>2. /\ next \in TrainCallRecords
        /\ next.stage = stage /\ next.model = model /\ next.patch = call.patch
    BY <1>1 DEF TrainCallRecords
  <1>3. trainCalls' = [trainCalls EXCEPT ![c] = next]
    BY DEF With, TrainTyped
  <1> HIDE DEF next
  <1> QED BY <1>2, <1>3 DEF TrainTyped

(* A call that is over: what becomes of the others, and of the page. *)
LEMMA EndedCalls ==
  ASSUME TrainTyped, NEW c \in TrainCalls, Ended(c)
  PROVE  /\ trainCalls' \in [TrainCalls -> TrainCallRecords \cup {NoTrainCall}]
         /\ \A d \in TrainCalls \ {c} : Follows(trainCalls[d], trainCalls'[d])
         /\ trainCalls'[c] = NoTrainCall
         /\ \/ page' = page
            \/ page' # page /\ page' = PageAt("hub", None, None) /\ learnerView' = NoLearner
  <1>1. CASE trainCalls[c].home /\ page.screen # "hub"
    <2>1. /\ page' = PageAt("hub", None, None) /\ learnerView' = NoLearner
          /\ trainCalls' = [Orphans EXCEPT ![c] = NoTrainCall]
      BY <1>1 DEF Ended
    <2>2. page' # page
      BY <1>1, <2>1 DEF PageAt
    <2>3. Orphans \in [TrainCalls -> TrainCallRecords \cup {NoTrainCall}]
      <3>1. Orphans = [d \in TrainCalls |-> Orphans[d]]
        BY DEF Orphans
      <3> QED BY <3>1, OrphanFollows
    <2>4. \A d \in TrainCalls \ {c} : trainCalls'[d] = Orphans[d]
      BY <2>1, <2>3
    <2> QED BY <2>1, <2>2, <2>3, <2>4, OrphanFollows
  <1>2. CASE ~(trainCalls[c].home /\ page.screen # "hub")
    <2>1. page' = page /\ trainCalls' = [trainCalls EXCEPT ![c] = NoTrainCall]
      BY <1>2 DEF Ended
    <2> QED BY <2>1 DEF TrainTyped, Follows
  <1> QED BY <1>1, <1>2

LEMMA GoneCalls ==
  ASSUME TrainTyped, trainCalls' = Orphans
  PROVE  /\ trainCalls' \in [TrainCalls -> TrainCallRecords \cup {NoTrainCall}]
         /\ \A d \in TrainCalls : Follows(trainCalls[d], trainCalls'[d])
  <1>1. Orphans = [d \in TrainCalls |-> Orphans[d]]
    BY DEF Orphans
  <1> QED BY <1>1, OrphanFollows

-----------------------------------------------------------------------------
(* The pages.                                                              *)

LEMMA LessonSteps ==
  ASSUME NEW lesson \in Lessons
  PROVE  StepsOf(lesson) \in Nat \ {0} /\ ConceptOf(lesson) \in AllConcepts
  <1>1. PICK i \in DOMAIN Curriculum : Curriculum[i].id = lesson
    BY DEF Lessons
  <1> DEFINE j == CHOOSE k \in DOMAIN Curriculum : Curriculum[k].id = lesson
  <1>2. j \in DOMAIN Curriculum
    BY <1>1
  <1> HIDE DEF j
  <1>3. Curriculum[j].steps \in Nat \ {0} /\ Curriculum[j].concept \in AllConcepts
    BY <1>2, CurriculumAssumption
  <1> QED BY <1>3 DEF StepsOf, ConceptOf, j

LEMMA NewPage ==
  ASSUME NEW screen \in {"hub", "lesson", "placement", "settings", "elsewhere"},
         NEW adopt \in Coaches \cup {None}, NEW lesson \in Lessons \cup {None},
         screen = "lesson" => lesson \in Lessons
  PROVE  PageAt(screen, adopt, lesson) \in LearnPages /\ PageInOrder(PageAt(screen, adopt, lesson))
  <1> DEFINE pg == PageAt(screen, adopt, lesson)
  <1>1. pg \in LearnPages
    BY DEF LearnPages, PageAt, Phases
  <1>2. /\ pg.screen = screen /\ pg.lesson = lesson /\ pg.step = 1 /\ pg.phase = "solving"
        /\ pg.judging = {} /\ pg.results = <<>> /\ pg.rights = {}
    BY DEF PageAt
  <1>3. Behind(pg) = 0 /\ OneVerdict(pg)
    BY <1>2 DEF Behind, OneVerdict
  <1>4. screen = "lesson" => 1 <= StepsOf(lesson)
    BY LessonSteps
  <1>5. Len(PlacementItems) >= 1
    BY CurriculumAssumption
  <1> HIDE DEF pg
  <1> QED BY <1>1, <1>2, <1>3, <1>4, <1>5 DEF PageInOrder, pg

LEMMA MoveInOrder ==
  ASSUME NEW pg \in LearnPages, PageInOrder(pg), NEW key \in BOOLEAN,
         pg.phase = "solving" \/ (pg.phase = "wrong" /\ pg.screen = "lesson")
  PROVE  LET next == [pg EXCEPT !.phase = "checking", !.judging = @ \cup {<<pg.step, key>>}]
         IN  next \in LearnPages /\ PageInOrder(next)
  <1> DEFINE next == [pg EXCEPT !.phase = "checking", !.judging = @ \cup {<<pg.step, key>>}]
  <1>0. /\ pg.judging \cup {<<pg.step, key>>} \in SUBSET (Nat \X BOOLEAN)
        /\ "checking" \in Phases
    BY DEF LearnPages, Phases
  <1>1. /\ next \in LearnPages
        /\ next.phase = "checking" /\ next.judging = pg.judging \cup {<<pg.step, key>>}
        /\ next.screen = pg.screen /\ next.lesson = pg.lesson /\ next.step = pg.step
        /\ next.results = pg.results /\ next.rights = pg.rights
    BY <1>0 DEF LearnPages
  <1>2. pg.judging = {}
    BY DEF PageInOrder, OneVerdict
  <1>3. OneVerdict(next)
    BY <1>1, <1>2 DEF OneVerdict
  <1>4. Behind(next) = Behind(pg)
    BY <1>1 DEF Behind
  <1> HIDE DEF next
  <1>5. PageInOrder(next)
    BY <1>1, <1>3, <1>4 DEF PageInOrder
  <1> QED BY <1>1, <1>5 DEF next

(* The move a verdict is on is the one of the page's step. *)
LEMMA VerdictIsOfTheStep ==
  ASSUME NEW pg \in LearnPages, PageInOrder(pg), NEW move \in pg.judging
  PROVE  pg.phase = "checking" /\ move[1] = pg.step /\ pg.judging \ {move} = {} /\ Behind(pg) = pg.step - 1
  BY DEF PageInOrder, OneVerdict, Behind

LEMMA LessonVerdictInOrder ==
  ASSUME NEW pg \in LearnPages, PageInOrder(pg), pg.screen = "lesson", NEW move \in pg.judging,
         NEW ok \in BOOLEAN
  PROVE  LET next == [pg EXCEPT !.judging = @ \ {move}, !.phase = IF ok THEN "right" ELSE "wrong",
                                !.rights = IF ok THEN @ \cup {move[1]} ELSE @]
         IN  next \in LearnPages /\ PageInOrder(next)
  <1> DEFINE next == [pg EXCEPT !.judging = @ \ {move}, !.phase = IF ok THEN "right" ELSE "wrong",
                                !.rights = IF ok THEN @ \cup {move[1]} ELSE @]
  <1>1. pg.step \in Nat \ {0} /\ pg.rights \in SUBSET Nat
    BY DEF LearnPages
  <1>2. /\ next \in LearnPages
        /\ next.phase = (IF ok THEN "right" ELSE "wrong") /\ next.judging = pg.judging \ {move}
        /\ next.screen = pg.screen /\ next.lesson = pg.lesson /\ next.step = pg.step
        /\ next.rights = IF ok THEN pg.rights \cup {move[1]} ELSE pg.rights
    <2> DEFINE judging == pg.judging \ {move}
               phase == IF ok THEN "right" ELSE "wrong"
               rights == IF ok THEN pg.rights \cup {move[1]} ELSE pg.rights
    <2>1. judging \in SUBSET (Nat \X BOOLEAN)
      BY DEF LearnPages
    <2>2. phase \in Phases
      BY DEF Phases
    <2>3. rights \in SUBSET Nat
      BY <1>1, VerdictIsOfTheStep
    <2>4. next = [pg EXCEPT !.judging = judging, !.phase = phase, !.rights = rights]
      OBVIOUS
    <2> HIDE DEF next, judging, phase, rights
    <2>5. /\ next \in LearnPages /\ next.phase = phase /\ next.judging = judging /\ next.rights = rights
          /\ next.screen = pg.screen /\ next.lesson = pg.lesson /\ next.step = pg.step
      BY <2>1, <2>2, <2>3, <2>4 DEF LearnPages
    <2> QED BY <2>5 DEF judging, phase, rights
  <1> HIDE DEF next
  <1>3. OneVerdict(next)
    BY <1>2, VerdictIsOfTheStep DEF OneVerdict
  <1>4. Behind(next) = IF ok THEN pg.step ELSE pg.step - 1
    BY <1>2 DEF Behind
  <1>5. pg.rights = 1..(pg.step - 1)
    BY VerdictIsOfTheStep DEF PageInOrder
  <1>6. next.rights = 1..Behind(next)
    <2>1. move[1] = pg.step
      BY VerdictIsOfTheStep
    <2>2. (1..(pg.step - 1)) \cup {pg.step} = 1..pg.step
      BY <1>1
    <2> QED BY <1>2, <1>4, <1>5, <2>1, <2>2
  <1>7. PageInOrder(next)
    BY <1>2, <1>3, <1>6 DEF PageInOrder
  <1> QED BY <1>2, <1>7 DEF next

LEMMA PlacementVerdictInOrder ==
  ASSUME NEW pg \in LearnPages, PageInOrder(pg), pg.screen = "placement", NEW move \in pg.judging,
         NEW ok \in BOOLEAN
  PROVE  LET next == [pg EXCEPT !.judging = @ \ {move}, !.phase = "right", !.results = Append(@, ok)]
         IN  next \in LearnPages /\ PageInOrder(next)
  <1> DEFINE next == [pg EXCEPT !.judging = @ \ {move}, !.phase = "right", !.results = Append(@, ok)]
  <1>1. pg.step \in Nat \ {0} /\ pg.results \in Seq(BOOLEAN)
    BY DEF LearnPages
  <1>2. Append(pg.results, ok) \in Seq(BOOLEAN) /\ Len(Append(pg.results, ok)) = Len(pg.results) + 1
    BY <1>1
  <1>3. /\ next \in LearnPages
        /\ next.phase = "right" /\ next.judging = pg.judging \ {move}
        /\ next.screen = pg.screen /\ next.step = pg.step
        /\ next.results = Append(pg.results, ok)
    BY <1>2 DEF LearnPages, Phases
  <1> HIDE DEF next
  <1>4. OneVerdict(next)
    BY <1>3, VerdictIsOfTheStep DEF OneVerdict
  <1>5. Behind(next) = pg.step
    BY <1>3 DEF Behind
  <1>6. Len(pg.results) = pg.step - 1 /\ pg.step <= Len(PlacementItems)
    BY VerdictIsOfTheStep DEF PageInOrder
  <1>7. PageInOrder(next)
    BY <1>1, <1>2, <1>3, <1>4, <1>5, <1>6 DEF PageInOrder
  <1> QED BY <1>3, <1>7 DEF next

LEMMA OnwardInOrder ==
  ASSUME NEW pg \in LearnPages, PageInOrder(pg), pg.phase = "right",
         pg.screen = "lesson" => pg.step < StepsOf(pg.lesson),
         pg.screen = "placement" => pg.step < Len(PlacementItems)
  PROVE  LET next == [pg EXCEPT !.step = @ + 1, !.phase = "solving"]
         IN  next \in LearnPages /\ PageInOrder(next)
  <1> DEFINE next == [pg EXCEPT !.step = @ + 1, !.phase = "solving"]
  <1>0. pg.step + 1 \in Nat \ {0} /\ "solving" \in Phases
    BY DEF LearnPages, Phases
  <1>1. /\ next \in LearnPages
        /\ next.phase = "solving" /\ next.step = pg.step + 1 /\ next.judging = pg.judging
        /\ next.screen = pg.screen /\ next.lesson = pg.lesson
        /\ next.results = pg.results /\ next.rights = pg.rights
    BY <1>0 DEF LearnPages
  <1> HIDE DEF next
  <1>2. pg.step \in Nat
    BY DEF LearnPages
  <1>3. OneVerdict(next)
    BY <1>1 DEF OneVerdict, PageInOrder
  <1>4. Behind(next) = Behind(pg)
    BY <1>1, <1>2 DEF Behind
  <1>5. pg.screen = "lesson" => StepsOf(pg.lesson) \in Nat
    BY LessonSteps DEF PageInOrder
  <1>6. Len(PlacementItems) \in Nat
    BY CurriculumAssumption
  <1>7. PageInOrder(next)
    BY <1>1, <1>2, <1>3, <1>4, <1>5, <1>6 DEF PageInOrder
  <1> QED BY <1>1, <1>7 DEF next

LEMMA AskedInOrder ==
  ASSUME NEW pg \in LearnPages, PageInOrder(pg)
  PROVE  /\ [pg EXCEPT !.asked = TRUE] \in LearnPages /\ PageInOrder([pg EXCEPT !.asked = TRUE])
         /\ [pg EXCEPT !.adopt = None] \in LearnPages /\ PageInOrder([pg EXCEPT !.adopt = None])
  <1>1. \A next \in LearnPages :
          /\ next.phase = pg.phase /\ next.step = pg.step /\ next.judging = pg.judging
          /\ next.screen = pg.screen /\ next.lesson = pg.lesson
          /\ next.results = pg.results /\ next.rights = pg.rights
          => PageInOrder(next)
    BY DEF PageInOrder, OneVerdict, Behind
  <1> DEFINE asked == [pg EXCEPT !.asked = TRUE]
             adopted == [pg EXCEPT !.adopt = None]
  <1>2. /\ asked \in LearnPages /\ asked.phase = pg.phase /\ asked.step = pg.step
        /\ asked.judging = pg.judging /\ asked.screen = pg.screen /\ asked.lesson = pg.lesson
        /\ asked.results = pg.results /\ asked.rights = pg.rights
    BY DEF LearnPages
  <1>3. /\ adopted \in LearnPages /\ adopted.phase = pg.phase /\ adopted.step = pg.step
        /\ adopted.judging = pg.judging /\ adopted.screen = pg.screen /\ adopted.lesson = pg.lesson
        /\ adopted.results = pg.results /\ adopted.rights = pg.rights
    BY DEF LearnPages
  <1> HIDE DEF asked, adopted
  <1> QED BY <1>1, <1>2, <1>3 DEF asked, adopted

LEMMA CompleteInOrder ==
  ASSUME NEW pg \in LearnPages, PageInOrder(pg), pg.phase = "right"
  PROVE  [pg EXCEPT !.phase = "complete"] \in LearnPages /\ PageInOrder([pg EXCEPT !.phase = "complete"])
  <1> DEFINE next == [pg EXCEPT !.phase = "complete"]
  <1>1. /\ next \in LearnPages
        /\ next.phase = "complete" /\ next.step = pg.step /\ next.judging = pg.judging
        /\ next.screen = pg.screen /\ next.lesson = pg.lesson
        /\ next.results = pg.results /\ next.rights = pg.rights
    BY DEF LearnPages, Phases
  <1> HIDE DEF next
  <1>2. OneVerdict(next) /\ Behind(next) = Behind(pg)
    BY <1>1 DEF OneVerdict, PageInOrder, Behind
  <1>3. PageInOrder(next)
    BY <1>1, <1>2 DEF PageInOrder
  <1> QED BY <1>1, <1>3 DEF next

-----------------------------------------------------------------------------
(* The steps, by what they leave alone.                                    *)

LEMMA PageSteps ==
  ASSUME TrainInv, PageOnly, UNCHANGED <<solved, placements>>, page' \in LearnPages, PageInOrder(page')
  PROVE  TrainInv'
  BY DEF TrainInv, TrainTyped, PageOnly

LEMMA AskSteps ==
  ASSUME TrainInv, NEW c \in TrainCalls, NEW method \in {"GET", "PATCH"}, NEW patch \in Patches,
         NEW home \in BOOLEAN, Ask(c, method, patch, home),
         UNCHANGED <<learner, learnerView, trainCalm>>,
         navCoach' \in Coaches \cup {None},
         solved \subseteq solved', solved' \subseteq Lessons,
         placements \subseteq placements', placements' \subseteq 0..Len(PlacementItems),
         EarnedPatch(patch, solved', placements'),
         page' \in LearnPages, PageInOrder(page')
  PROVE  TrainInv'
  <1>1. TrainTyped /\ \A d \in TrainCalls : EarnedCall(trainCalls[d], solved, placements)
    BY DEF TrainInv
  <1>2. /\ trainCalls' \in [TrainCalls -> TrainCallRecords \cup {NoTrainCall}]
        /\ \A d \in TrainCalls \ {c} : trainCalls'[d] = trainCalls[d]
        /\ trainCalls'[c].stage = "asked" /\ trainCalls'[c].model = NoLearner
        /\ trainCalls'[c].patch = patch
    BY <1>1, AskedCalls
  <1>3. TrainTyped'
    BY <1>1, <1>2 DEF TrainTyped
  <1>4. \A d \in TrainCalls : EarnedCall(trainCalls'[d], solved', placements')
    <2> TAKE d \in TrainCalls
    <2>1. CASE d = c
      BY <1>2, <2>1 DEF EarnedCall, Earned
    <2>2. CASE d # c
      BY <1>1, <1>2, <2>2, EarnedStays
    <2> QED BY <2>1, <2>2
  <1>5. Earned(learner, solved, placements)' /\ Earned(learnerView, solved, placements)'
    BY EarnedStays DEF TrainInv
  <1> QED BY <1>3, <1>4, <1>5 DEF TrainInv

LEMMA GoSteps ==
  ASSUME TrainInv, NEW pg \in LearnPages, PageInOrder(pg), GoTo(pg),
         UNCHANGED <<learner, solved, placements, trainCalm>>, navCoach' \in Coaches \cup {None}
  PROVE  TrainInv'
  <1>1. TrainTyped /\ \A d \in TrainCalls : EarnedCall(trainCalls[d], solved, placements)
    BY DEF TrainInv
  <1>2. /\ trainCalls' \in [TrainCalls -> TrainCallRecords \cup {NoTrainCall}]
        /\ \A d \in TrainCalls : Follows(trainCalls[d], trainCalls'[d])
    BY <1>1, GoneCalls DEF GoTo
  <1>3. \A d \in TrainCalls : EarnedCall(trainCalls'[d], solved', placements')
    BY <1>1, <1>2, FollowsEarned
  <1>4. TrainTyped'
    BY <1>1, <1>2 DEF TrainTyped, GoTo
  <1>5. Earned(learnerView', solved', placements')
    BY DEF GoTo, Earned
  <1> QED BY <1>3, <1>4, <1>5 DEF TrainInv, GoTo

LEMMA WithSteps ==
  ASSUME TrainInv, NEW c \in TrainCalls, trainCalls[c] # NoTrainCall,
         NEW stage \in TrainStages, NEW model \in Learner, Earned(model, solved, placements),
         With(c, stage, model),
         learner' = learner \/ (learner' = trainCalls[c].model /\ trainCalls[c].stage # "asked"),
         UNCHANGED <<learnerView, page, navCoach, solved, placements>>, trainCalm' \in BOOLEAN
  PROVE  TrainInv'
  <1>1. TrainTyped /\ \A d \in TrainCalls : EarnedCall(trainCalls[d], solved, placements)
    BY DEF TrainInv
  <1>2. /\ trainCalls' \in [TrainCalls -> TrainCallRecords \cup {NoTrainCall}]
        /\ \A d \in TrainCalls \ {c} : trainCalls'[d] = trainCalls[d]
        /\ trainCalls'[c].model = model /\ trainCalls'[c].patch = trainCalls[c].patch
    BY <1>1, CallsWith
  <1>3. \A d \in TrainCalls : EarnedCall(trainCalls'[d], solved', placements')
    BY <1>1, <1>2 DEF EarnedCall
  <1>4. learner' \in Learner \cup {NoLearner} /\ Earned(learner', solved', placements')
    BY <1>1 DEF TrainInv, TrainTyped, EarnedCall
  <1>5. TrainTyped'
    BY <1>1, <1>2, <1>4 DEF TrainTyped
  <1>6. Earned(learnerView', solved', placements') /\ PageInOrder(page')
    BY DEF TrainInv
  <1> QED BY <1>3, <1>4, <1>5, <1>6 DEF TrainInv

LEMMA EndSteps ==
  ASSUME TrainInv, NEW c \in TrainCalls, Ended(c),
         page' = page => \/ learnerView' = learnerView
                         \/ trainCalls[c].stage = "answered" /\ learnerView' = trainCalls[c].model,
         UNCHANGED <<learner, solved, placements, trainCalm>>, navCoach' \in Coaches \cup {None}
  PROVE  TrainInv'
  <1>1. TrainTyped /\ \A d \in TrainCalls : EarnedCall(trainCalls[d], solved, placements)
    BY DEF TrainInv
  <1>2. /\ trainCalls' \in [TrainCalls -> TrainCallRecords \cup {NoTrainCall}]
        /\ \A d \in TrainCalls \ {c} : Follows(trainCalls[d], trainCalls'[d])
        /\ trainCalls'[c] = NoTrainCall
        /\ \/ page' = page
           \/ page' # page /\ page' = PageAt("hub", None, None) /\ learnerView' = NoLearner
    BY <1>1, EndedCalls
  <1>3. \A d \in TrainCalls : EarnedCall(trainCalls'[d], solved', placements')
    <2>1. EarnedCall(NoTrainCall, solved', placements')
      BY DEF EarnedCall
    <2> QED BY <1>1, <1>2, <2>1, FollowsEarned
  <1>4. page' \in LearnPages /\ PageInOrder(page')
    BY <1>2, NewPage DEF TrainInv, TrainTyped
  <1>5. learnerView' \in Learner \cup {NoLearner} /\ Earned(learnerView', solved', placements')
    <2>1. CASE trainCalls[c].stage = "answered" /\ learnerView' = trainCalls[c].model
      <3>1. trainCalls[c] # NoTrainCall
        BY <2>1 DEF NoTrainCall
      <3> QED BY <1>1, <2>1, <3>1 DEF EarnedCall
    <2>2. CASE learnerView' = learnerView
      BY <2>2 DEF TrainInv, TrainTyped
    <2>3. CASE learnerView' = NoLearner
      BY <2>3 DEF Earned
    <2> QED BY <1>2, <2>1, <2>2, <2>3
  <1>6. TrainTyped'
    BY <1>1, <1>2, <1>4, <1>5 DEF TrainTyped
  <1> QED BY <1>3, <1>4, <1>5, <1>6 DEF TrainInv

(* What a finished test posts. *)
LEMMA ScoreType ==
  ASSUME NEW results \in Seq(BOOLEAN), Len(results) <= Len(PlacementItems)
  PROVE  LET right == {i \in DOMAIN results : results[i]}
         IN  /\ Cardinality(right) \in 0..Len(PlacementItems)
             /\ scorePlacement(results).level \in Levels
             /\ scorePlacement(results).mastery \in Masteries
             /\ scorePlacement(results).level = "intermediate" => Cardinality(right) >= EnoughSolved
  <1> DEFINE right == {i \in DOMAIN results : results[i]}
             items(k) == {i \in DOMAIN results : PlacementItems[i].concept = k}
             named == {PlacementItems[i].concept : i \in DOMAIN results}
             seed == [k \in named |-> IF items(k) \cap right # {} THEN 60 ELSE 15]
  <1>1. Len(results) \in Nat /\ Len(PlacementItems) \in Nat /\ DOMAIN results = 1..Len(results)
    BY CurriculumAssumption
  <1>2. Cardinality(right) \in 0..Len(PlacementItems)
    <2>1. IsFiniteSet(1..Len(results)) /\ Cardinality(1..Len(results)) = Len(results)
      <3>1. 1 \in Int /\ Len(results) \in Int
        BY <1>1
      <3>2. /\ IsFiniteSet(1..Len(results))
            /\ Cardinality(1..Len(results)) = IF 1 > Len(results) THEN 0 ELSE Len(results) - 1 + 1
        BY ONLY <3>1, FS_Interval
      <3> QED BY <1>1, <3>2
    <2>2. right \subseteq 1..Len(results)
      BY <1>1
    <2>3. IsFiniteSet(right) /\ Cardinality(right) <= Cardinality(1..Len(results))
      BY <2>1, <2>2, FS_Subset
    <2>4. Cardinality(right) \in Nat
      BY <2>3, FS_CardinalityType
    <2> QED BY <1>1, <2>1, <2>3, <2>4
  <1>3. named \subseteq AllConcepts
    <2>1. \A i \in DOMAIN results : PlacementItems[i] \in [concept: AllConcepts, level: Levels]
      <3> DEFINE Item == [concept: AllConcepts, level: Levels]
      <3>1. PlacementItems \in Seq(Item)
        BY CurriculumAssumption
      <3>2. \A i \in DOMAIN results : i \in 1..Len(PlacementItems)
        BY <1>1
      <3> HIDE DEF Item
      <3>3. \A i \in 1..Len(PlacementItems) : PlacementItems[i] \in Item
        BY <3>1
      <3> QED BY <3>2, <3>3 DEF Item
    <2> QED BY <2>1
  <1>4. seed \in [named -> 0..100]
    OBVIOUS
  <1>5. seed \in Masteries
    BY <1>3, <1>4 DEF Masteries
  <1>6. scorePlacement(results).mastery = seed
    BY DEF scorePlacement
  <1>7. scorePlacement(results).level =
          IF Cardinality(right) >= EnoughSolved
             /\ \E i \in right : PlacementItems[i].level = "intermediate"
          THEN "intermediate" ELSE "basics"
    BY DEF scorePlacement
  <1> QED BY <1>2, <1>5, <1>6, <1>7 DEF Levels

-----------------------------------------------------------------------------
LEMMA ActiveCall ==
  ASSUME NEW c \in TrainCalls, trainCalls[c].stage \in TrainStages, TrainInv
  PROVE  /\ trainCalls[c] # NoTrainCall /\ trainCalls[c] \in TrainCallRecords
         /\ trainCalls[c].patch \in Patches
         /\ Earned(trainCalls[c].model, solved, placements)
         /\ EarnedPatch(trainCalls[c].patch, solved, placements)
         /\ trainCalls[c].stage # "asked" => trainCalls[c].model \in Learner
  <1>1. trainCalls[c] # NoTrainCall
    BY DEF NoTrainCall, TrainStages
  <1>2. trainCalls[c] \in TrainCallRecords /\ EarnedCall(trainCalls[c], solved, placements)
    BY <1>1 DEF TrainInv, TrainTyped
  <1> QED BY <1>1, <1>2 DEF EarnedCall, TrainCallRecords

LEMMA ReadKeeps ==
  ASSUME TrainInv, NEW c \in TrainCalls, getOrCreateLearner(c)
  PROVE  TrainInv'
  <1> DEFINE call == trainCalls[c]
  <1>1. call.stage = "asked"
    BY DEF getOrCreateLearner
  <1>2. call # NoTrainCall /\ call.patch \in Patches /\ EarnedPatch(call.patch, solved, placements)
    BY <1>1, ActiveCall DEF TrainStages
  <1>3. UNCHANGED <<learner, learnerView, page, navCoach, solved, placements>>
    BY DEF getOrCreateLearner
  <1>4. /\ "fresh" \in TrainStages /\ "answered" \in TrainStages /\ "saving" \in TrainStages
        /\ learner' = learner \/ (learner' = trainCalls[c].model /\ trainCalls[c].stage # "asked")
    BY <1>3 DEF TrainStages
  <1>5. learner # NoLearner => learner \in Learner /\ Earned(learner, solved, placements)
    BY DEF TrainInv, TrainTyped
  <1>6. CASE With(c, "fresh", emptyLearner(call.patch.coach)) /\ ReadsAlone(c)
    <2>1. call.patch.coach \in Coaches \cup {None}
      BY <1>2 DEF Patches
    <2>2. trainCalm' \in BOOLEAN
      BY <1>6 DEF ReadsAlone
    <2>3. /\ emptyLearner(call.patch.coach) \in Learner
          /\ Earned(emptyLearner(call.patch.coach), solved, placements)
      BY <2>1, EmptyLearnerType, EmptyLearnerEarned
    <2> QED BY ONLY TrainInv, c \in TrainCalls, <1>2, <1>3, <1>4, <1>6, <2>2, <2>3, WithSteps
  <1>7. CASE learner # NoLearner /\ With(c, "answered", learner) /\ UNCHANGED trainCalm
    <2>1. trainCalm' \in BOOLEAN
      BY <1>7 DEF TrainInv, TrainTyped
    <2> QED BY ONLY TrainInv, c \in TrainCalls, <1>2, <1>3, <1>4, <1>5, <1>7, <2>1, WithSteps
  <1>8. CASE learner # NoLearner /\ With(c, "saving", applyPatch(learner, call.patch)) /\ ReadsAlone(c)
    <2>1. trainCalm' \in BOOLEAN
      BY <1>8 DEF ReadsAlone
    <2>2. /\ applyPatch(learner, call.patch) \in Learner
          /\ Earned(applyPatch(learner, call.patch), solved, placements)
      BY <1>2, <1>5, <1>8, ApplyPatchType, ApplyPatchEarned
    <2> QED BY ONLY TrainInv, c \in TrainCalls, <1>2, <1>3, <1>4, <1>8, <2>1, <2>2, WithSteps
  <1> QED BY <1>6, <1>7, <1>8 DEF getOrCreateLearner

LEMMA LearnerCreateKeeps ==
  ASSUME TrainInv, NEW c \in TrainCalls, CreateLearner(c)
  PROVE  TrainInv'
  <1> DEFINE call == trainCalls[c]
  <1>1. call.stage = "fresh"
    BY DEF CreateLearner
  <1>2. /\ call # NoTrainCall /\ call.patch \in Patches /\ call.model \in Learner
        /\ Earned(call.model, solved, placements) /\ EarnedPatch(call.patch, solved, placements)
    BY <1>1, ActiveCall DEF TrainStages
  <1>3. /\ learner' = call.model /\ trainCalm' = trainCalm
        /\ UNCHANGED <<learnerView, page, navCoach, solved, placements>>
    BY DEF CreateLearner
  <1>4. trainCalm' \in BOOLEAN
    BY <1>3 DEF TrainInv, TrainTyped
  <1>5. CASE call.method = "GET"
    <2>1. With(c, "answered", call.model)
      BY <1>5 DEF CreateLearner
    <2>2. "answered" \in TrainStages
      BY DEF TrainStages
    <2> QED BY <1>1, <1>2, <1>3, <1>4, <2>1, <2>2, WithSteps
  <1>6. CASE call.method # "GET"
    <2>1. With(c, "saving", applyPatch(call.model, call.patch))
      BY <1>6 DEF CreateLearner
    <2>2. "saving" \in TrainStages
      BY DEF TrainStages
    <2>3. /\ applyPatch(call.model, call.patch) \in Learner
          /\ Earned(applyPatch(call.model, call.patch), solved, placements)
      BY <1>2, ApplyPatchType, ApplyPatchEarned
    <2> QED BY <1>1, <1>2, <1>3, <1>4, <2>1, <2>2, <2>3, WithSteps
  <1> QED BY <1>5, <1>6

LEMMA SaveKeeps ==
  ASSUME TrainInv, NEW c \in TrainCalls, saveLearner(c)
  PROVE  TrainInv'
  <1>1. /\ trainCalls[c].stage = "saving" /\ learner' = trainCalls[c].model
        /\ With(c, "answered", trainCalls[c].model)
        /\ UNCHANGED <<learnerView, page, navCoach, solved, placements, trainCalm>>
    BY DEF saveLearner
  <1>2. /\ trainCalls[c] # NoTrainCall /\ trainCalls[c].model \in Learner
        /\ Earned(trainCalls[c].model, solved, placements)
    BY <1>1, ActiveCall DEF TrainStages
  <1>3. trainCalm' \in BOOLEAN /\ "answered" \in TrainStages
    BY <1>1 DEF TrainInv, TrainTyped, TrainStages
  <1> QED BY <1>1, <1>2, <1>3, WithSteps

LEMMA MoveAnswerKeeps ==
  ASSUME TrainInv, NEW c \in TrainCalls, TrainAnswer(c)
  PROVE  TrainInv'
  <1>1. /\ trainCalls[c].stage = "answered" /\ Ended(c)
        /\ page' = page => learnerView' = IF trainCalls[c].mine THEN trainCalls[c].model ELSE learnerView
        /\ navCoach' = IF trainCalls[c].mine /\ page.screen = "hub" THEN trainCalls[c].model.coach
                                                                    ELSE navCoach
        /\ UNCHANGED <<learner, solved, placements, trainCalm>>
    BY DEF TrainAnswer
  <1>2. trainCalls[c].model \in Learner
    BY <1>1, ActiveCall DEF TrainStages
  <1>3. navCoach' \in Coaches \cup {None}
    BY <1>1, <1>2 DEF Learner, TrainInv, TrainTyped
  <1>4. page' = page => \/ learnerView' = learnerView
                        \/ trainCalls[c].stage = "answered" /\ learnerView' = trainCalls[c].model
    BY <1>1
  <1> QED BY ONLY TrainInv, c \in TrainCalls, <1>1, <1>3, <1>4, EndSteps

LEMMA EndKeeps ==
  ASSUME TrainInv, NEW c \in TrainCalls, TrainCallEnds(c)
  PROVE  TrainInv'
  <1>1. navCoach' \in Coaches \cup {None}
    BY DEF TrainCallEnds, TrainInv, TrainTyped
  <1>2. page' = page => \/ learnerView' = learnerView
                        \/ trainCalls[c].stage = "answered" /\ learnerView' = trainCalls[c].model
    BY DEF TrainCallEnds
  <1>3. Ended(c) /\ UNCHANGED <<learner, solved, placements, trainCalm>>
    BY DEF TrainCallEnds
  <1> QED BY ONLY TrainInv, c \in TrainCalls, <1>1, <1>2, <1>3, EndSteps

LEMMA FinishLessonKeeps ==
  ASSUME TrainInv, NEW c \in TrainCalls, FinishLesson(c)
  PROVE  TrainInv'
  <1> DEFINE concept == ConceptOf(page.lesson)
             known == IF learnerView = NoLearner THEN 0 ELSE learnerView.mastery[concept]
             patch == [NoPatch EXCEPT !.lesson = page.lesson,
                         !.mastery = [k \in {concept} |-> Clamp(known + 25)]]
  <1>1. /\ page.screen = "lesson" /\ page.phase = "right" /\ ~(page.step < StepsOf(page.lesson))
    BY DEF FinishLesson, LessonScreen, Onward
  <1>2. /\ Ask(c, "PATCH", patch, TRUE)
        /\ page' = [page EXCEPT !.phase = "complete"]
        /\ solved' = IF page.rights = 1..StepsOf(page.lesson) THEN solved \cup {page.lesson} ELSE solved
        /\ UNCHANGED <<learner, learnerView, navCoach, placements, trainCalm>>
    BY DEF FinishLesson
  <1>3. /\ page \in LearnPages /\ PageInOrder(page) /\ learnerView \in Learner \cup {NoLearner}
        /\ navCoach \in Coaches \cup {None} /\ solved \subseteq Lessons
        /\ placements \subseteq 0..Len(PlacementItems)
    BY DEF TrainInv, TrainTyped
  <1>4. page.lesson \in Lessons /\ concept \in AllConcepts /\ StepsOf(page.lesson) \in Nat
    BY <1>1, <1>3, LessonSteps DEF PageInOrder
  <1>5. page.rights = 1..StepsOf(page.lesson)
    <2>1. page.step \in Nat /\ page.step <= StepsOf(page.lesson) /\ page.rights = 1..Behind(page)
      BY <1>1, <1>3 DEF LearnPages, PageInOrder
    <2>2. page.step = StepsOf(page.lesson)
      BY <1>1, <1>4, <2>1
    <2>3. Behind(page) = page.step
      BY <1>1 DEF Behind
    <2> QED BY <2>1, <2>2, <2>3
  <1>6. known \in Int
    <2>1. CASE learnerView = NoLearner
      BY <2>1
    <2>2. CASE learnerView # NoLearner
      <3>1. learnerView.mastery \in [AllConcepts -> 0..100]
        BY <1>3, <2>2 DEF Learner
      <3>2. learnerView.mastery[concept] \in 0..100
        BY <1>4, <3>1
      <3>3. known = learnerView.mastery[concept]
        BY <2>2
      <3> QED BY <3>2, <3>3
    <2> QED BY <2>1, <2>2
  <1>7. [k \in {concept} |-> Clamp(known + 25)] \in Masteries
    <2>1. Clamp(known + 25) \in 0..100
      BY <1>6, ClampType
    <2>2. [k \in {concept} |-> Clamp(known + 25)] \in [{concept} -> 0..100]
      BY <2>1
    <2> QED BY <1>4, <2>2 DEF Masteries
  <1> HIDE DEF known
  <1> DEFINE gained == [k \in {concept} |-> Clamp(known + 25)]
  <1>8. /\ patch \in Patches /\ patch.lesson = page.lesson /\ patch.level = None
    <2>1. NoPatch \in Patches /\ NoPatch.level = None
      BY NoPatchType DEF NoPatch
    <2>2. patch = [NoPatch EXCEPT !.lesson = page.lesson, !.mastery = gained]
      OBVIOUS
    <2>3. gained \in Masteries
      BY <1>7
    <2> HIDE DEF gained, patch
    <2> QED BY <1>4, <2>1, <2>2, <2>3 DEF Patches
  <1>9. EarnedPatch(patch, solved', placements')
    BY <1>2, <1>5, <1>8 DEF EarnedPatch, None
  <1>10. page' \in LearnPages /\ PageInOrder(page')
    BY <1>1, <1>2, <1>3, CompleteInOrder
  <1> HIDE DEF patch
  <1> QED BY <1>2, <1>3, <1>4, <1>8, <1>9, <1>10, AskSteps

LEMMA FinishPlacementKeeps ==
  ASSUME TrainInv, NEW c \in TrainCalls, FinishPlacement(c)
  PROVE  TrainInv'
  <1> DEFINE outcome == scorePlacement(page.results)
             right == {i \in DOMAIN page.results : page.results[i]}
             patch == [NoPatch EXCEPT !.placed = TRUE, !.level = outcome.level,
                         !.mastery = outcome.mastery]
  <1>1. page.screen = "placement" /\ page.phase = "right" /\ PlacementScreen.solved = Cardinality(right)
    BY DEF FinishPlacement, PlacementScreen, Onward
  <1>2. /\ Ask(c, "PATCH", patch, TRUE)
        /\ page' = [page EXCEPT !.phase = "complete"]
        /\ placements' = placements \cup {Cardinality(right)}
        /\ UNCHANGED <<learner, learnerView, navCoach, solved, trainCalm>>
    BY <1>1 DEF FinishPlacement
  <1>3. /\ page \in LearnPages /\ PageInOrder(page)
        /\ navCoach \in Coaches \cup {None} /\ solved \subseteq Lessons
        /\ placements \subseteq 0..Len(PlacementItems)
    BY DEF TrainInv, TrainTyped
  <1>4. page.results \in Seq(BOOLEAN) /\ Len(page.results) <= Len(PlacementItems)
    BY <1>1, <1>3 DEF LearnPages, PageInOrder, Behind
  <1>5. /\ Cardinality(right) \in 0..Len(PlacementItems)
        /\ outcome.level \in Levels /\ outcome.mastery \in Masteries
        /\ outcome.level = "intermediate" => Cardinality(right) >= EnoughSolved
    BY <1>4, ScoreType
  <1> HIDE DEF outcome, right
  <1>6. patch \in Patches /\ patch.lesson = None /\ patch.level = outcome.level
    <2>1. NoPatch \in Patches /\ NoPatch.lesson = None
      BY NoPatchType DEF NoPatch
    <2> QED BY <1>5, <2>1 DEF Patches
  <1>7. EarnedPatch(patch, solved', placements')
    BY <1>2, <1>5, <1>6 DEF EarnedPatch
  <1>8. page' \in LearnPages /\ PageInOrder(page')
    BY <1>1, <1>2, <1>3, CompleteInOrder
  <1> HIDE DEF patch
  <1> QED BY <1>2, <1>3, <1>5, <1>6, <1>7, <1>8, AskSteps

LEMMA AskingKeeps ==
  ASSUME TrainInv, NEW c \in TrainCalls,
         Refresh(c) \/ AdoptCoach(c) \/ \E coach \in Coaches : ChooseCoach(c, coach)
  PROVE  TrainInv'
  <1>1. /\ page \in LearnPages /\ PageInOrder(page) /\ navCoach \in Coaches \cup {None}
        /\ solved \subseteq Lessons /\ placements \subseteq 0..Len(PlacementItems)
    BY DEF TrainInv, TrainTyped
  <1>2. NoPatch \in Patches /\ NoPatch.lesson = None /\ NoPatch.level = None
    BY NoPatchType DEF NoPatch
  <1>3. \A coach \in Coaches \cup {None} :
          LET patch == [NoPatch EXCEPT !.coach = coach]
          IN  patch \in Patches /\ EarnedPatch(patch, solved, placements)
    BY <1>2 DEF Patches, EarnedPatch, None
  <1>4. EarnedPatch(NoPatch, solved, placements)
    BY <1>2 DEF EarnedPatch, None
  <1>5. CASE Refresh(c)
    <2>1. /\ Ask(c, "GET", NoPatch, FALSE) /\ page' = [page EXCEPT !.asked = TRUE]
          /\ UNCHANGED <<learner, learnerView, navCoach, solved, placements, trainCalm>>
      BY <1>5 DEF Refresh
    <2>2. page' \in LearnPages /\ PageInOrder(page')
      BY <1>1, <2>1, AskedInOrder
    <2> QED BY <1>1, <1>2, <1>4, <2>1, <2>2, AskSteps
  <1>6. CASE AdoptCoach(c)
    <2> DEFINE patch == [NoPatch EXCEPT !.coach = page.adopt]
    <2>1. /\ Ask(c, "PATCH", patch, FALSE) /\ page' = [page EXCEPT !.adopt = None]
          /\ UNCHANGED <<learner, learnerView, navCoach, solved, placements, trainCalm>>
      BY <1>6 DEF AdoptCoach
    <2>2. page' \in LearnPages /\ PageInOrder(page')
      BY <1>1, <2>1, AskedInOrder
    <2>3. page.adopt \in Coaches \cup {None}
      BY <1>1 DEF LearnPages
    <2>4. patch \in Patches /\ EarnedPatch(patch, solved, placements)
      BY <1>3, <2>3
    <2> HIDE DEF patch
    <2> QED BY <1>1, <2>1, <2>2, <2>4, AskSteps
  <1>7. CASE \E coach \in Coaches : ChooseCoach(c, coach)
    <2>1. PICK coach \in Coaches : ChooseCoach(c, coach)
      BY <1>7
    <2> DEFINE patch == [NoPatch EXCEPT !.coach = coach]
    <2>2. /\ Ask(c, "PATCH", patch, FALSE) /\ navCoach' \in Coaches \cup {None}
          /\ UNCHANGED <<learner, learnerView, page, solved, placements, trainCalm>>
      BY <2>1 DEF ChooseCoach
    <2>3. patch \in Patches /\ EarnedPatch(patch, solved, placements)
      BY <1>3
    <2> HIDE DEF patch
    <2> QED BY <1>1, <2>2, <2>3, AskSteps
  <1> QED BY <1>5, <1>6, <1>7

LEMMA GoingKeeps ==
  ASSUME TrainInv,
         \/ \E q \in Coaches \cup {None} : OpenHub(q)
         \/ \E screen \in {"settings", "elsewhere"} : LeaveTraining(screen)
         \/ OpenPlacement
         \/ \E lesson \in Lessons : OpenLesson(lesson)
  PROVE  TrainInv'
  <1>1. navCoach \in Coaches \cup {None}
    BY DEF TrainInv, TrainTyped
  <1>2. ASSUME NEW q \in Coaches \cup {None}, OpenHub(q) PROVE TrainInv'
    <2>1. /\ GoTo(PageAt("hub", q, None)) /\ navCoach' \in Coaches \cup {None}
          /\ UNCHANGED <<learner, solved, placements, trainCalm>>
      BY <1>1, <1>2 DEF OpenHub
    <2>2. PageAt("hub", q, None) \in LearnPages /\ PageInOrder(PageAt("hub", q, None))
      BY NewPage
    <2> QED BY <2>1, <2>2, GoSteps
  <1>3. ASSUME NEW screen \in {"settings", "elsewhere"}, LeaveTraining(screen) PROVE TrainInv'
    <2>1. /\ GoTo(PageAt(screen, None, None)) /\ navCoach' \in Coaches \cup {None}
          /\ UNCHANGED <<learner, solved, placements, trainCalm>>
      BY <1>1, <1>3 DEF LeaveTraining
    <2>2. PageAt(screen, None, None) \in LearnPages /\ PageInOrder(PageAt(screen, None, None))
      BY NewPage
    <2> QED BY <2>1, <2>2, GoSteps
  <1>4. ASSUME OpenPlacement PROVE TrainInv'
    <2>1. /\ GoTo(PageAt("placement", None, None)) /\ navCoach' \in Coaches \cup {None}
          /\ UNCHANGED <<learner, solved, placements, trainCalm>>
      BY <1>1, <1>4 DEF OpenPlacement
    <2>2. PageAt("placement", None, None) \in LearnPages /\ PageInOrder(PageAt("placement", None, None))
      BY NewPage
    <2> QED BY <2>1, <2>2, GoSteps
  <1>5. ASSUME NEW lesson \in Lessons, OpenLesson(lesson) PROVE TrainInv'
    <2>1. /\ GoTo(PageAt("lesson", None, lesson)) /\ navCoach' \in Coaches \cup {None}
          /\ UNCHANGED <<learner, solved, placements, trainCalm>>
      BY <1>1, <1>5 DEF OpenLesson
    <2>2. PageAt("lesson", None, lesson) \in LearnPages /\ PageInOrder(PageAt("lesson", None, lesson))
      BY NewPage
    <2> QED BY <2>1, <2>2, GoSteps
  <1> QED BY <1>2, <1>3, <1>4, <1>5

LEMMA PageKeeps ==
  ASSUME TrainInv,
         \/ \E key \in BOOLEAN : LessonMove(key) \/ PlacementMove(key)
         \/ \E move \in page.judging, engine \in BOOLEAN : \E ok \in Verdict(move, engine) :
              LessonVerdict(move, ok) \/ PlacementVerdict(move, ok)
         \/ NextStep \/ NextItem
  PROVE  TrainInv'
  <1>1. page \in LearnPages /\ PageInOrder(page)
    BY DEF TrainInv, TrainTyped
  <1>2. ASSUME NEW key \in BOOLEAN, LessonMove(key) \/ PlacementMove(key) PROVE TrainInv'
    <2>1. /\ page.phase = "solving" \/ (page.phase = "wrong" /\ page.screen = "lesson")
          /\ page' = [page EXCEPT !.phase = "checking", !.judging = @ \cup {<<page.step, key>>}]
          /\ PageOnly /\ UNCHANGED <<solved, placements>>
      BY <1>2 DEF LessonMove, PlacementMove, LessonScreen, PlacementScreen
    <2>2. page' \in LearnPages /\ PageInOrder(page')
      BY <1>1, <2>1, MoveInOrder
    <2> QED BY <2>1, <2>2, PageSteps
  <1>3. ASSUME NEW move \in page.judging, NEW engine \in BOOLEAN, NEW ok \in Verdict(move, engine),
               LessonVerdict(move, ok) \/ PlacementVerdict(move, ok)
        PROVE  TrainInv'
    <2>1. ok \in BOOLEAN
      BY <1>1 DEF Verdict, LearnPages
    <2>2. CASE LessonVerdict(move, ok)
      <3>1. /\ page.screen = "lesson"
            /\ page' = [page EXCEPT !.judging = @ \ {move}, !.phase = IF ok THEN "right" ELSE "wrong",
                                    !.rights = IF ok THEN @ \cup {move[1]} ELSE @]
            /\ PageOnly /\ UNCHANGED <<solved, placements>>
        BY <2>2 DEF LessonVerdict
      <3>2. page' \in LearnPages /\ PageInOrder(page')
        BY <1>1, <2>1, <3>1, LessonVerdictInOrder
      <3> QED BY <3>1, <3>2, PageSteps
    <2>3. CASE PlacementVerdict(move, ok)
      <3>1. /\ page.screen = "placement"
            /\ page' = [page EXCEPT !.judging = @ \ {move}, !.phase = "right", !.results = Append(@, ok)]
            /\ PageOnly /\ UNCHANGED <<solved, placements>>
        BY <2>3 DEF PlacementVerdict
      <3>2. page' \in LearnPages /\ PageInOrder(page')
        BY <1>1, <2>1, <3>1, PlacementVerdictInOrder
      <3> QED BY <3>1, <3>2, PageSteps
    <2> QED BY <1>3, <2>2, <2>3
  <1>4. ASSUME NextStep \/ NextItem PROVE TrainInv'
    <2>1. /\ page.phase = "right"
          /\ page.screen = "lesson" => page.step < StepsOf(page.lesson)
          /\ page.screen = "placement" => page.step < Len(PlacementItems)
          /\ page' = [page EXCEPT !.step = @ + 1, !.phase = "solving"]
          /\ PageOnly /\ UNCHANGED <<solved, placements>>
      BY <1>4 DEF NextStep, NextItem, LessonScreen, PlacementScreen, Onward
    <2>2. page' \in LearnPages /\ PageInOrder(page')
      BY <1>1, <2>1, OnwardInOrder
    <2> QED BY <2>1, <2>2, PageSteps
  <1> QED BY <1>2, <1>3, <1>4

LEMMA TrainInvHolds == TrainSpec => []TrainInv
  <1>1. TrainInit => TrainInv
    <2> SUFFICES ASSUME TrainInit PROVE TrainInv
      OBVIOUS
    <2>1. PageAt("elsewhere", None, None) \in LearnPages /\ PageInOrder(PageAt("elsewhere", None, None))
      BY NewPage
    <2>2. TrainTyped
      BY <2>1 DEF TrainInit, TrainTyped
    <2> QED BY <2>1, <2>2 DEF TrainInit, TrainInv, Earned, EarnedCall
  <1>2. TrainInv /\ [TrainOp]_trainVars => TrainInv'
    <2> SUFFICES ASSUME TrainInv, [TrainOp]_trainVars PROVE TrainInv'
      OBVIOUS
    <2>1. CASE UNCHANGED trainVars
      BY <2>1 DEF trainVars, TrainInv, TrainTyped
    <2>2. CASE TrainOp
      BY <2>2, ReadKeeps, LearnerCreateKeeps, SaveKeeps, MoveAnswerKeeps, EndKeeps, AskingKeeps,
         FinishLessonKeeps, FinishPlacementKeeps, GoingKeeps, PageKeeps DEF TrainOp
    <2> QED BY <2>1, <2>2
  <1> QED BY <1>1, <1>2, PTL DEF TrainSpec

(* Progress is earned (TrainStore's routes, the lesson and the placement   *)
(* page): no lesson is ever marked as completed unless every step of it    *)
(* was judged right in one visit, and no level lifted without a finished   *)
(* test with enough items solved, in the record and in every copy of it,   *)
(* whatever calls overlap, fail or answer late.                            *)
THEOREM ProgressStaysEarned == TrainSpec => [](TrainTypeOK /\ ProgressIsEarned)
  <1>1. TrainInv => TrainTypeOK
    <2> SUFFICES ASSUME TrainInv PROVE TrainTypeOK
      OBVIOUS
    <2>1. \A c \in TrainCalls : trainCalls[c] # NoTrainCall =>
            trainCalls[c].stage \in TrainStages /\ trainCalls[c].model \in Learner \cup {NoLearner}
      BY DEF TrainInv, TrainTyped, TrainCallRecords
    <2>2. /\ page.screen \in {"hub", "lesson", "placement", "settings", "elsewhere"}
          /\ page.phase \in Phases /\ page.adopt \in Coaches \cup {None}
          /\ page.judging \subseteq (Nat \X BOOLEAN) /\ page.results \in Seq(BOOLEAN)
      BY DEF TrainInv, TrainTyped, LearnPages
    <2> QED BY <2>1, <2>2 DEF TrainInv, TrainTyped, TrainTypeOK
  <1>2. TrainInv => ProgressIsEarned
    BY DEF TrainInv, EarnedCall, Earned, ProgressIsEarned, EarnedProgress
  <1> QED BY <1>1, <1>2, TrainInvHolds, PTL

-----------------------------------------------------------------------------
(* Nothing is taken away while no handler reads over another one.          *)

Keeps == trainCalm' /\ learner # NoLearner =>
           learner' # NoLearner /\ learner.completed \subseteq learner'.completed
           /\ (learner.placed => learner'.placed)

(* A step that writes nothing, and after which no call holds a copy it did *)
(* not hold before.                                                        *)
LEMMA CalmSteps ==
  ASSUME CalmCalls, UNCHANGED <<learner, trainCalm>>,
         \A c \in TrainCalls : \/ trainCalls'[c].stage \notin {"fresh", "saving"}
                               \/ /\ trainCalls'[c].stage = trainCalls[c].stage
                                  /\ trainCalls[c] # NoTrainCall => trainCalls'[c].model = trainCalls[c].model
  PROVE  CalmCalls' /\ Keeps
  <1>1. Keeps
    BY DEF Keeps
  <1>2. CalmCalls'
    BY DEF CalmCalls, Holding, NoTrainCall
  <1> QED BY <1>1, <1>2

LEMMA CalmFollows ==
  ASSUME NEW old, NEW new, Follows(old, new)
  PROVE  \/ new.stage \notin {"fresh", "saving"}
         \/ new.stage = old.stage /\ (old # NoTrainCall => new.model = old.model)
  BY DEF Follows

LEMMA CalmRead ==
  ASSUME TrainInv, CalmCalls, NEW c \in TrainCalls, getOrCreateLearner(c)
  PROVE  CalmCalls' /\ Keeps
  <1> DEFINE call == trainCalls[c]
  <1>1. call.stage = "asked" /\ UNCHANGED learner
    BY DEF getOrCreateLearner
  <1>2. TrainTyped /\ call # NoTrainCall /\ call.patch \in Patches
    BY <1>1, ActiveCall DEF TrainStages, TrainInv
  <1>3. Keeps
    BY <1>1 DEF Keeps
  <1>4. ASSUME NEW stage \in TrainStages, NEW model \in Learner, With(c, stage, model)
        PROVE  /\ \A d \in TrainCalls \ {c} : trainCalls'[d] = trainCalls[d]
               /\ trainCalls'[c].stage = stage /\ trainCalls'[c].model = model
    BY <1>2, <1>4, CallsWith
  <1>5. CASE With(c, "fresh", emptyLearner(call.patch.coach)) /\ learner = NoLearner /\ ReadsAlone(c)
    <2>1. emptyLearner(call.patch.coach) \in Learner
      BY <1>2, EmptyLearnerType DEF Patches
    <2>2. /\ \A d \in TrainCalls \ {c} : trainCalls'[d] = trainCalls[d]
          /\ trainCalls'[c].stage = "fresh"
      BY <1>4, <1>5, <2>1 DEF TrainStages
    <2>3. trainCalm' => \A d \in TrainCalls \ {c} : trainCalls[d].stage \notin {"fresh", "saving"}
      BY <1>5 DEF ReadsAlone, Holding
    <2>4. CalmCalls'
      BY <1>1, <1>5, <2>2, <2>3 DEF CalmCalls, Holding
    <2> QED BY <1>3, <2>4
  <1>6. CASE learner # NoLearner /\ With(c, "answered", learner) /\ UNCHANGED trainCalm
    <2>1. learner \in Learner
      BY <1>2, <1>6 DEF TrainTyped
    <2>2. /\ \A d \in TrainCalls \ {c} : trainCalls'[d] = trainCalls[d]
          /\ trainCalls'[c].stage = "answered"
      BY <1>4, <1>6, <2>1 DEF TrainStages
    <2> QED BY <1>1, <1>6, <2>2, CalmSteps
  <1>7. CASE /\ learner # NoLearner /\ With(c, "saving", applyPatch(learner, call.patch))
             /\ ReadsAlone(c)
    <2>1. learner \in Learner
      BY <1>2, <1>7 DEF TrainTyped
    <2>2. applyPatch(learner, call.patch) \in Learner /\ NothingLost(learner, applyPatch(learner, call.patch))
      BY <1>2, <2>1, ApplyPatchType, ApplyPatchKeeps
    <2>3. /\ \A d \in TrainCalls \ {c} : trainCalls'[d] = trainCalls[d]
          /\ trainCalls'[c].stage = "saving" /\ trainCalls'[c].model = applyPatch(learner, call.patch)
      BY <1>4, <1>7, <2>2 DEF TrainStages
    <2>4. trainCalm' => \A d \in TrainCalls \ {c} : trainCalls[d].stage \notin {"fresh", "saving"}
      BY <1>7 DEF ReadsAlone, Holding
    <2>5. NothingLost(learner', trainCalls'[c].model)
      BY <1>1, <2>2, <2>3
    <2>6. CalmCalls'
      BY <1>1, <2>3, <2>4, <2>5 DEF CalmCalls, Holding
    <2> QED BY <1>3, <2>6
  <1> QED BY <1>5, <1>6, <1>7 DEF getOrCreateLearner

LEMMA CalmCreate ==
  ASSUME TrainInv, CalmCalls, NEW c \in TrainCalls, CreateLearner(c)
  PROVE  CalmCalls' /\ Keeps
  <1> DEFINE call == trainCalls[c]
  <1>1. call.stage = "fresh" /\ learner' = call.model /\ trainCalm' = trainCalm
    BY DEF CreateLearner
  <1>2. TrainTyped /\ call # NoTrainCall /\ call.patch \in Patches /\ call.model \in Learner
    BY <1>1, ActiveCall DEF TrainStages, TrainInv
  <1>3. trainCalm => /\ learner = NoLearner
                     /\ \A d \in TrainCalls \ {c} : trainCalls[d].stage \notin {"fresh", "saving"}
    BY <1>1 DEF CalmCalls, Holding
  <1>4. Keeps
    BY <1>1, <1>3 DEF Keeps
  <1>5. CASE With(c, "answered", call.model)
    <2>1. /\ \A d \in TrainCalls \ {c} : trainCalls'[d] = trainCalls[d]
          /\ trainCalls'[c].stage = "answered"
      BY <1>2, <1>5, CallsWith DEF TrainStages
    <2>2. CalmCalls'
      BY <1>1, <1>3, <2>1 DEF CalmCalls, Holding
    <2> QED BY <1>4, <2>2
  <1>6. CASE With(c, "saving", applyPatch(call.model, call.patch))
    <2>1. /\ applyPatch(call.model, call.patch) \in Learner
          /\ NothingLost(call.model, applyPatch(call.model, call.patch))
      BY <1>2, ApplyPatchType, ApplyPatchKeeps
    <2>2. /\ \A d \in TrainCalls \ {c} : trainCalls'[d] = trainCalls[d]
          /\ trainCalls'[c].stage = "saving" /\ trainCalls'[c].model = applyPatch(call.model, call.patch)
      BY <1>2, <1>6, <2>1, CallsWith DEF TrainStages
    <2>3. NothingLost(learner', trainCalls'[c].model)
      BY <1>1, <2>1, <2>2
    <2>4. CalmCalls'
      BY <1>1, <1>3, <2>2, <2>3 DEF CalmCalls, Holding
    <2> QED BY <1>4, <2>4
  <1> QED BY <1>5, <1>6 DEF CreateLearner

LEMMA CalmSave ==
  ASSUME TrainInv, CalmCalls, NEW c \in TrainCalls, saveLearner(c)
  PROVE  CalmCalls' /\ Keeps
  <1> DEFINE call == trainCalls[c]
  <1>1. /\ call.stage = "saving" /\ learner' = call.model /\ trainCalm' = trainCalm
        /\ With(c, "answered", call.model)
    BY DEF saveLearner
  <1>2. TrainTyped /\ call # NoTrainCall /\ call.model \in Learner
    BY <1>1, ActiveCall DEF TrainStages, TrainInv
  <1>3. trainCalm => /\ NothingLost(learner, call.model)
                     /\ \A d \in TrainCalls \ {c} : trainCalls[d].stage \notin {"fresh", "saving"}
    BY <1>1 DEF CalmCalls, Holding
  <1>4. Keeps
    BY <1>1, <1>2, <1>3, LearnerIsARecord DEF Keeps, NothingLost
  <1>5. /\ \A d \in TrainCalls \ {c} : trainCalls'[d] = trainCalls[d]
        /\ trainCalls'[c].stage = "answered"
    BY <1>1, <1>2, CallsWith DEF TrainStages
  <1>6. CalmCalls'
    BY <1>1, <1>3, <1>5 DEF CalmCalls, Holding
  <1> QED BY <1>4, <1>6

LEMMA CalmEnded ==
  ASSUME TrainInv, CalmCalls, NEW c \in TrainCalls, Ended(c), UNCHANGED <<learner, trainCalm>>
  PROVE  CalmCalls' /\ Keeps
  <1>1. /\ \A d \in TrainCalls \ {c} : Follows(trainCalls[d], trainCalls'[d])
        /\ trainCalls'[c] = NoTrainCall
    BY EndedCalls DEF TrainInv
  <1>2. trainCalls'[c].stage \notin {"fresh", "saving"}
    BY <1>1 DEF NoTrainCall
  <1> QED BY <1>1, <1>2, CalmFollows, CalmSteps

LEMMA CalmAsk ==
  ASSUME CalmCalls, NEW c \in TrainCalls, NEW method, NEW patch, NEW home, Ask(c, method, patch, home),
         TrainInv, UNCHANGED <<learner, trainCalm>>
  PROVE  CalmCalls' /\ Keeps
  <1> DEFINE call == [stage |-> "asked", method |-> method, patch |-> patch, home |-> home,
                      mine |-> TRUE, model |-> NoLearner]
  <1>1. trainCalls' = [trainCalls EXCEPT ![c] = call] /\ call.stage = "asked"
    BY DEF Ask
  <1> HIDE DEF call
  <1>2. \A d \in TrainCalls : \/ trainCalls'[d].stage \notin {"fresh", "saving"}
                              \/ trainCalls'[d] = trainCalls[d]
    BY <1>1 DEF TrainInv, TrainTyped
  <1> QED BY <1>2, CalmSteps

LEMMA CalmGone ==
  ASSUME CalmCalls, TrainInv, trainCalls' = Orphans, UNCHANGED <<learner, trainCalm>>
  PROVE  CalmCalls' /\ Keeps
  <1>1. \A d \in TrainCalls : Follows(trainCalls[d], trainCalls'[d])
    BY GoneCalls DEF TrainInv
  <1> QED BY <1>1, CalmFollows, CalmSteps

LEMMA CalmStep ==
  ASSUME TrainInv, CalmCalls, [TrainOp]_trainVars
  PROVE  CalmCalls' /\ Keeps
  <1>1. CASE UNCHANGED <<learner, trainCalm, trainCalls>>
    BY <1>1, CalmSteps
  <1>2. ASSUME NEW c \in TrainCalls,
               \/ Refresh(c) \/ AdoptCoach(c) \/ FinishLesson(c) \/ FinishPlacement(c)
               \/ \E coach \in Coaches : ChooseCoach(c, coach)
        PROVE  CalmCalls' /\ Keeps
    BY <1>2, CalmAsk DEF Refresh, AdoptCoach, FinishLesson, FinishPlacement, ChooseCoach
  <1>3. ASSUME NEW c \in TrainCalls, TrainAnswer(c) \/ TrainCallEnds(c) PROVE CalmCalls' /\ Keeps
    BY <1>3, CalmEnded DEF TrainAnswer, TrainCallEnds
  <1>4. CASE \/ \E q \in Coaches \cup {None} : OpenHub(q)
             \/ \E screen \in {"settings", "elsewhere"} : LeaveTraining(screen)
             \/ OpenPlacement
             \/ \E lesson \in Lessons : OpenLesson(lesson)
    BY <1>4, CalmGone DEF OpenHub, LeaveTraining, OpenPlacement, OpenLesson, GoTo
  <1>5. CASE \/ \E key \in BOOLEAN : LessonMove(key) \/ PlacementMove(key)
             \/ \E move \in page.judging, engine \in BOOLEAN : \E ok \in Verdict(move, engine) :
                  LessonVerdict(move, ok) \/ PlacementVerdict(move, ok)
             \/ NextStep \/ NextItem
    BY <1>1, <1>5 DEF LessonMove, PlacementMove, LessonVerdict, PlacementVerdict, NextStep, NextItem, PageOnly
  <1>6. CASE UNCHANGED trainVars
    BY <1>1, <1>6 DEF trainVars
  <1> QED BY <1>2, <1>3, <1>4, <1>5, <1>6, CalmRead, CalmCreate, CalmSave DEF TrainOp

(* Progress is kept (train-store's read and write in two steps): as long   *)
(* as no handler has read the record while another one held a copy, no     *)
(* step takes a completed lesson or the placement away, whatever calls     *)
(* fail, die half-way or answer pages that are gone.                       *)
THEOREM ProgressStaysKept == TrainSpec => ProgressKept
  <1>1. TrainInit => CalmCalls
    BY DEF TrainInit, CalmCalls, Holding, NoTrainCall
  <1>2. TrainInv /\ CalmCalls /\ [TrainOp]_trainVars => CalmCalls' /\ Keeps
    BY CalmStep
  <1>3. TrainSpec => [][Keeps]_trainVars
    BY <1>1, <1>2, TrainInvHolds, PTL DEF TrainSpec
  <1> QED BY <1>3 DEF ProgressKept, Keeps
=============================================================================
