------------------------- MODULE BillingLedgerProofs -------------------------
(***************************************************************************)
(* Theorems about the billing account.  Accounts, prices, plans and the    *)
(* number of usages are arbitrary; the bound MaxCredits is not used.       *)
(*                                                                         *)
(* Shape          TypeOK but for the cached credits, which follow from it  *)
(* DeductIsFair   what a charge takes from the columns, the arithmetic on  *)
(*                which ledger and coverage rest                           *)
(***************************************************************************)
EXTENDS BillingLedger, TLAPS

\* TypeOK without tenants.credits.
Shape ==
    /\ plan \in Plans \cup {"none", "legacy"}
    /\ active \in BOOLEAN
    /\ cycle \in {"none", "running", "over"}
    /\ amount \in [Columns -> Int]
    /\ amount["limit"] >= 0
    /\ amount["used"] >= 0
    /\ status \in [Usages -> {"none", "reserved", "committed", "released"}]
    /\ credits \in [Usages -> 0..MaxPrice]
    /\ ledger \in Int

----------------------------------------------------------------------------
(* Sums and arithmetic *)

\* Held credits are a table that Total can add up.
LEMMA HeldHasType == Shape => Held \in [Usages -> 0..MaxPrice]
  BY BillingConstants DEF Shape, Held

\* What is reserved is a natural number, and no usage holds more than that.
LEMMA ReservedIsSum ==
  Shape => /\ Reserved \in Nat
           /\ \A u \in Usages : Held[u] \in Nat /\ Held[u] <= Reserved
<1> SUFFICES ASSUME Shape
             PROVE  /\ Reserved \in Nat
                    /\ \A u \in Usages : Held[u] \in Nat /\ Held[u] <= Reserved
  OBVIOUS
<1>1. Held \in [Usages -> 0..MaxPrice]
  BY HeldHasType
<1>2. Reserved \in Nat
  BY <1>1, TotalIsASum DEF Reserved
<1>3. ASSUME NEW u \in Usages
      PROVE  Held[u] \in Nat /\ Held[u] <= Reserved
  <2>1. 0 \in 0..MaxPrice /\ Held[u] \in 0..MaxPrice
    BY <1>1, BillingConstants
  <2> DEFINE without == [Held EXCEPT ![u] = 0]
  <2>2. without \in [Usages -> 0..MaxPrice]
    BY <1>1, <2>1
  <2>3. Total(without) \in Nat
    BY <2>2, TotalIsASum
  <2>4. Total(without) = Total(Held) - Held[u] + 0
    BY <1>1, <2>1, TotalIsASum
  <2> QED
    BY <1>2, <2>1, <2>3, <2>4 DEF Reserved
<1> QED
  BY <1>2, <1>3

\* The worth of an account and what is left of it are numbers.
LEMMA WorthIsNumber == Shape => Raw \in Int /\ Available \in Nat
<1> SUFFICES ASSUME Shape PROVE Raw \in Int /\ Available \in Nat
  OBVIOUS
<1>1. Raw \in Int
  BY DEF Shape, Raw, NonNegative, Columns
<1>2. Reserved \in Nat
  BY ReservedIsSum
<1> QED
  BY <1>1, <1>2 DEF Available, NonNegative

\* The worth of some columns, as Raw is for those of the account.
Worth(columns) ==
    columns["balance"] + columns["wallet"]
      + NonNegative(columns["limit"] - columns["used"])

\* A charge lowers the worth by at most its amount, and by exactly that if
\* there is no debt and the account bears it; it stays within the limit then.
LEMMA DeductIsFair ==
  ASSUME Shape, NEW c \in Nat
  PROVE  /\ Deduct(c) \in [Columns -> Int]
         /\ Deduct(c)["limit"] = amount["limit"]
         /\ Deduct(c)["used"] >= 0
         /\ Worth(Deduct(c)) >= Raw - c
         /\ amount["balance"] >= 0 /\ amount["wallet"] >= 0 /\ c <= Raw
              => Worth(Deduct(c)) = Raw - c
         /\ amount["used"] <= amount["limit"] /\ c <= Raw
              => Deduct(c)["used"] <= Deduct(c)["limit"]
<1> DEFINE balance == NonNegative(amount["balance"])
           wallet == NonNegative(amount["wallet"])
           fromPlan == Smaller(balance, c)
           fromWallet == Smaller(wallet, c - fromPlan)
<1>1. /\ amount["balance"] \in Int /\ amount["wallet"] \in Int
      /\ amount["limit"] \in Nat /\ amount["used"] \in Nat
  BY DEF Shape, Columns
<1>2. /\ Deduct(c) \in [Columns -> Int]
      /\ Deduct(c)["balance"] = balance - fromPlan
      /\ Deduct(c)["wallet"] = wallet - fromWallet
      /\ Deduct(c)["limit"] = amount["limit"]
      /\ Deduct(c)["used"] = amount["used"] + (c - fromPlan - fromWallet)
  BY <1>1 DEF Deduct, Shape, Columns, NonNegative, Smaller
<1>3. /\ fromPlan \in Nat /\ fromWallet \in Nat
      /\ fromPlan + fromWallet <= c
  BY <1>1 DEF NonNegative, Smaller
<1> DEFINE rest == c - fromPlan - fromWallet
           room == amount["limit"] - amount["used"]
<1>4. /\ Worth(Deduct(c)) = (balance - fromPlan) + (wallet - fromWallet)
                                + NonNegative(room - rest)
      /\ Raw = amount["balance"] + amount["wallet"] + NonNegative(room)
  <2>1. room - rest = Deduct(c)["limit"] - Deduct(c)["used"]
    BY <1>1, <1>2, <1>3
  <2> QED
    BY <1>2, <2>1 DEF Worth, Raw
<1>5. /\ rest \in Nat /\ room \in Int /\ balance \in Nat /\ wallet \in Nat
      /\ balance >= amount["balance"] /\ wallet >= amount["wallet"]
      /\ rest > 0 => fromPlan = balance /\ fromWallet = wallet
  BY <1>1, <1>3 DEF NonNegative, Smaller
<1>6. fromPlan + fromWallet + rest = c
  BY <1>3
<1> HIDE DEF balance, wallet, fromPlan, fromWallet, rest, room
<1>7. Worth(Deduct(c)) >= Raw - c
  BY <1>1, <1>3, <1>4, <1>5, <1>6 DEF NonNegative
<1>8. amount["balance"] >= 0 /\ amount["wallet"] >= 0 /\ c <= Raw
        => Worth(Deduct(c)) = Raw - c
  <2>1. amount["balance"] >= 0 /\ amount["wallet"] >= 0
          => balance = amount["balance"] /\ wallet = amount["wallet"]
    BY <1>1 DEF balance, wallet, NonNegative
  <2> QED
    BY <2>1, <1>1, <1>3, <1>4, <1>5, <1>6 DEF NonNegative
<1>9. amount["used"] <= amount["limit"] /\ c <= Raw
        => Deduct(c)["used"] <= Deduct(c)["limit"]
  BY <1>1, <1>2, <1>3, <1>4, <1>5, <1>6 DEF NonNegative, room, rest
<1> QED
  BY <1>1, <1>2, <1>5, <1>7, <1>8, <1>9 DEF rest

----------------------------------------------------------------------------
(* Types *)

\* What a plan grants are columns.
LEMMA GrantedType ==
  ASSUME Shape, NEW p \in Plans
  PROVE  /\ Granted(p) \in [Columns -> Int]
         /\ Granted(p)["limit"] >= 0 /\ Granted(p)["used"] >= 0
  BY BillingConstants DEF Shape, Granted, Columns

\* An edit leaves columns behind, and no negative limit or used credit.
LEMMA EditedType ==
  ASSUME Shape, NEW p \in Plans \cup {"none", "legacy"}, NEW given \in Edits
  PROVE  /\ Edited(p, given) \in [Columns -> Int]
         /\ Edited(p, given)["limit"] >= 0 /\ Edited(p, given)["used"] >= 0
<1> DEFINE base == IF p = plan THEN amount
                   ELSE IF p \in Plans THEN Granted(p)
                   ELSE IF p = "legacy" THEN [amount EXCEPT !["balance"] = 0,
                                                  !["limit"] = 0, !["used"] = 0]
                   ELSE [amount EXCEPT !["balance"] = 0]
<1>1. /\ base \in [Columns -> Int]
      /\ base["limit"] >= 0 /\ base["used"] >= 0
  <2>1. CASE p = plan
    BY <2>1 DEF Shape
  <2>2. CASE p # plan /\ p \in Plans
    BY <2>2, GrantedType
  <2>3. CASE p # plan /\ p = "legacy"
    BY <2>3, BillingConstants DEF Shape, Columns
  <2>4. CASE p # plan /\ p = "none"
    BY <2>4, BillingConstants DEF Shape, Columns
  <2> QED
    BY <2>1, <2>2, <2>3, <2>4
<1>2. \A f \in DOMAIN given :
          given[f] \in Int /\ (f \in {"limit", "used"} => given[f] >= 0)
  BY BillingConstants
<1>3. Edited(p, given) =
          [f \in Columns |-> IF f \in DOMAIN given THEN given[f] ELSE base[f]]
  BY DEF Edited
<1> HIDE DEF base
<1> QED
  BY <1>1, <1>2, <1>3 DEF Columns

\* Every step keeps the types.
LEMMA ShapeStep == Shape /\ [Next]_vars => Shape'
<1> SUFFICES ASSUME Shape, [Next]_vars PROVE Shape'
  OBVIOUS
<1>0. MaxPrice \in Nat
  BY BillingConstants
<1>1. ASSUME NEW u \in Usages, Reserve(u) PROVE Shape'
  BY <1>1 DEF Reserve, account, Shape
<1>2. ASSUME NEW u \in Usages, Charge(u) PROVE Shape'
  <2>1. PICK c \in 1..MaxPrice : /\ amount' = Deduct(c)
                                  /\ credits' = [credits EXCEPT ![u] = c]
                                  /\ ledger' = ledger - c
    BY <1>2 DEF Charge
  <2>2. c \in Nat /\ c \in 0..MaxPrice
    BY <1>0
  <2>3. /\ amount' \in [Columns -> Int]
        /\ amount'["limit"] >= 0 /\ amount'["used"] >= 0
    BY <2>1, <2>2, DeductIsFair DEF Shape
  <2> QED
    BY <1>2, <2>1, <2>2, <2>3 DEF Charge, Shape
<1>3. ASSUME NEW u \in Usages, Defer(u) PROVE Shape'
  BY <1>3 DEF Defer, account, usage, Shape
<1>4. ASSUME NEW u \in Usages, Release(u) PROVE Shape'
  BY <1>4 DEF Release, account, Shape
<1>5. ASSUME NEW n \in Int, ToWallet(n) PROVE Shape'
  BY <1>5 DEF ToWallet, usage, Shape, Columns
<1>6. ASSUME amount' \in [Columns -> Int], ledger' = ledger + Entry
      PROVE  ledger' \in Int
  BY <1>6 DEF Entry, Raw, NonNegative, Shape, Columns
<1>7. CASE Renew
  <2>1. /\ amount' \in [Columns -> Int]
        /\ amount'["limit"] >= 0 /\ amount'["used"] >= 0
    BY <1>7, GrantedType DEF Renew
  <2> QED
    BY <1>6, <1>7, <2>1 DEF Renew, usage, Shape
<1>8. CASE Edit
  <2>1. PICK p \in Plans \cup {"none", "legacy"}, given \in Edits :
            Update(p, given)
    BY <1>8 DEF Edit
  <2>2. /\ amount' \in [Columns -> Int]
        /\ amount'["limit"] >= 0 /\ amount'["used"] >= 0
    BY <2>1, EditedType DEF Update
  <2> QED
    BY <1>6, <2>1, <2>2 DEF Update, usage, Shape
<1>9. CASE CycleEnds
  BY <1>9 DEF CycleEnds, usage, Shape
<1>10. CASE UNCHANGED vars
  BY <1>10 DEF vars, account, usage, Shape
<1> QED
  BY <1>1, <1>2, <1>3, <1>4, <1>5, <1>7, <1>8, <1>9, <1>10, BillingConstants
     DEF Next, Pay, Adjust

\* The account as it is opened.
LEMMA ShapeInit == Init => Shape
  BY BillingConstants DEF Init, Shape, Columns

\* Worth, rest and reservations are numbers.
Numbers ==
    /\ Raw \in Int
    /\ Available \in Nat
    /\ Reserved \in Nat
    /\ \A u \in Usages : Held[u] \in Nat /\ Held[u] <= Reserved

\* They are so in the next state as well.
LEMMA NumbersNext == Shape' => Numbers'
<1>1. Shape => Numbers
  BY WorthIsNumber, ReservedIsSum DEF Numbers
<1> QED
  BY <1>1, PTL

\* The columns, the usages, the ledger and the cached credits keep their types
\* through every operation: no limit, used credit or cache becomes negative.
THEOREM TypeCorrect == Spec => []TypeOK
<1>1. Init => TypeOK
  BY ShapeInit, BillingConstants DEF Init, Shape, TypeOK, NonNegative
<1>2. TypeOK /\ [Next]_vars => TypeOK'
  <2> SUFFICES ASSUME TypeOK, [Next]_vars PROVE TypeOK'
    OBVIOUS
  <2>1. Shape /\ Shape'
    BY ShapeStep DEF Shape, TypeOK
  <2>2. Available' \in Nat
    BY <2>1, NumbersNext DEF Numbers
  <2>3. cached' = Available' \/ cached' = cached
    BY DEF Next, Reserve, Charge, Defer, Release, Pay, Adjust, ToWallet, Renew,
           Edit, Update, CycleEnds, SyncCredits, vars
  <2> QED
    BY <2>1, <2>2, <2>3 DEF Shape, TypeOK
<1> QED
  BY <1>1, <1>2, PTL DEF Spec

\* The account has its types in every state.
LEMMA AlwaysShape == Spec => []Shape
<1>1. TypeOK => Shape
  BY DEF TypeOK, Shape
<1> QED
  BY <1>1, TypeCorrect, PTL

----------------------------------------------------------------------------
(* Ledger *)

\* A charge writes its amount and takes it from the account as far as it goes.
LEMMA EntryOfCharge ==
  ASSUME Shape, NEW u \in Usages, Charge(u)
  PROVE  \E c \in 1..MaxPrice :
           /\ amount' = Deduct(c)
           /\ credits' = [credits EXCEPT ![u] = c]
           /\ ledger' = ledger - c
           /\ Raw' >= Raw - c
           /\ amount["balance"] >= 0 /\ amount["wallet"] >= 0 /\ c <= Raw
                => Raw' = Raw - c
           /\ amount["used"] <= amount["limit"] /\ c <= Raw
                => amount'["used"] <= amount'["limit"]
<1>1. PICK c \in 1..MaxPrice : /\ amount' = Deduct(c)
                                /\ credits' = [credits EXCEPT ![u] = c]
                                /\ ledger' = ledger - c
  BY DEF Charge
<1>2. c \in Nat
  BY BillingConstants
<1>3. Raw' = Worth(Deduct(c))
  BY <1>1 DEF Raw, Worth
<1>4. /\ Worth(Deduct(c)) >= Raw - c
      /\ amount["balance"] >= 0 /\ amount["wallet"] >= 0 /\ c <= Raw
           => Worth(Deduct(c)) = Raw - c
      /\ amount["used"] <= amount["limit"] /\ c <= Raw
           => Deduct(c)["used"] <= Deduct(c)["limit"]
  BY <1>2, DeductIsFair
<1> QED
  BY <1>1, <1>3, <1>4

\* Every other step changes the account by exactly what it enters.
LEMMA EntryOfOthers ==
  ASSUME Shape, Shape', [Next]_vars, \A u \in Usages : ~Charge(u)
  PROVE  Raw' - Raw = ledger' - ledger
<1>1. Raw \in Int /\ Raw' \in Int /\ ledger \in Int
  BY WorthIsNumber, NumbersNext DEF Numbers, Shape
<1>2. ASSUME amount' = amount, ledger' = ledger
      PROVE  Raw' - Raw = ledger' - ledger
  BY <1>1, <1>2 DEF Raw
<1>3. ASSUME ledger' = ledger + Entry
      PROVE  Raw' - Raw = ledger' - ledger
  BY <1>1, <1>3 DEF Entry
<1>4. ASSUME NEW n \in Int, ToWallet(n)
      PROVE  Raw' - Raw = ledger' - ledger
  <2>1. /\ amount["balance"] \in Int /\ amount["wallet"] \in Int
        /\ amount["limit"] \in Int /\ amount["used"] \in Int
    BY DEF Shape, Columns
  <2>2. /\ amount'["wallet"] = amount["wallet"] + n
        /\ amount'["balance"] = amount["balance"]
        /\ amount'["limit"] = amount["limit"]
        /\ amount'["used"] = amount["used"]
    BY <1>4 DEF ToWallet, Shape, Columns
  <2>3. ledger' = ledger + n
    BY <1>4 DEF ToWallet
  <2> QED
    BY <1>1, <2>1, <2>2, <2>3 DEF Raw, NonNegative
<1>5. CASE \E u \in Usages : Reserve(u) \/ Defer(u) \/ Release(u)
  BY <1>2, <1>5 DEF Reserve, Defer, Release, account
<1>6. CASE Pay \/ Adjust
  BY <1>4, <1>6, BillingConstants DEF Pay, Adjust
<1>7. CASE Renew \/ Edit
  BY <1>3, <1>7 DEF Renew, Edit, Update
<1>8. CASE CycleEnds \/ UNCHANGED vars
  BY <1>2, <1>8 DEF CycleEnds, vars, account
<1> QED
  BY <1>5, <1>6, <1>7, <1>8 DEF Next

\* No sequence of operations takes credits without an entry that says so:
\* the ledger never promises more than the account is worth.
THEOREM LedgerNeverPromisesMore == Spec => []LedgerBelowBalance
<1>1. Init => LedgerBelowBalance
  BY BillingConstants DEF Init, LedgerBelowBalance, Raw, NonNegative, Columns
<1>2. Shape /\ Shape' /\ LedgerBelowBalance /\ [Next]_vars
        => LedgerBelowBalance'
  <2> SUFFICES ASSUME Shape, Shape', LedgerBelowBalance, [Next]_vars
               PROVE  ledger' <= Raw'
    BY DEF LedgerBelowBalance
  <2>1. /\ Raw \in Int /\ Raw' \in Int /\ ledger \in Int /\ ledger' \in Int
        /\ ledger <= Raw
    BY WorthIsNumber, NumbersNext DEF Numbers, Shape, LedgerBelowBalance
  <2>2. ASSUME NEW u \in Usages, Charge(u) PROVE ledger' <= Raw'
    <3>1. PICK c \in 1..MaxPrice : ledger' = ledger - c /\ Raw' >= Raw - c
      BY <2>2, EntryOfCharge
    <3>2. c \in Int
      OBVIOUS
    <3> QED
      BY <2>1, <3>1, <3>2
  <2>3. ASSUME \A u \in Usages : ~Charge(u) PROVE ledger' <= Raw'
    <3>1. Raw' - Raw = ledger' - ledger
      BY <2>3, EntryOfOthers
    <3> QED
      BY <2>1, <3>1
  <2> QED
    BY <2>2, <2>3
<1> QED
  BY <1>1, <1>2, AlwaysShape, PTL DEF Spec

\* Where no balance is negative and the account bears the entry, a step
\* changes the account by exactly that entry.
THEOREM EntriesAreExact == Spec => EntriesMatchBalance
<1>1. Shape /\ Shape' /\ [Next]_vars =>
        [(/\ amount["balance"] >= 0
          /\ amount["wallet"] >= 0
          /\ Raw + (ledger' - ledger) >= 0) => Raw' - Raw = ledger' - ledger]_vars
  <2> SUFFICES ASSUME Shape, Shape', [Next]_vars,
                      amount["balance"] >= 0, amount["wallet"] >= 0,
                      Raw + (ledger' - ledger) >= 0
               PROVE  Raw' - Raw = ledger' - ledger
    OBVIOUS
  <2>1. Raw \in Int /\ Raw' \in Int /\ ledger \in Int /\ ledger' \in Int
    BY WorthIsNumber, NumbersNext DEF Numbers, Shape
  <2>2. ASSUME NEW u \in Usages, Charge(u)
        PROVE  Raw' - Raw = ledger' - ledger
    <3>1. PICK c \in 1..MaxPrice :
              /\ ledger' = ledger - c
              /\ c <= Raw => Raw' = Raw - c
      BY <2>2, EntryOfCharge
    <3>2. c \in Int
      OBVIOUS
    <3>3. (ledger' - ledger) + c = 0
      BY <2>1, <3>1, <3>2
    <3>4. Raw + (ledger' - ledger) >= 0
      OBVIOUS
    <3>5. c <= Raw
      <4>1. \A r, d, n \in Int : d + n = 0 /\ r + d >= 0 => n <= r
        OBVIOUS
      <4>2. ledger' - ledger \in Int
        BY <2>1
      <4> QED
        BY <2>1, <3>2, <3>3, <3>4, <4>1, <4>2
    <3> QED
      BY <2>1, <3>1, <3>2, <3>3, <3>5
  <2> QED
    BY <2>2, EntryOfOthers
<1> QED
  BY <1>1, ShapeStep, AlwaysShape, PTL DEF Spec, EntriesMatchBalance

----------------------------------------------------------------------------
(* The cached credits *)

\* tenants.credits is what the tenant can spend after every operation, except
\* from the end of a paid cycle to the next operation.
THEOREM CacheFollowsAccount == Spec => []CacheIsCurrent
<1>1. Init => CacheIsCurrent
  <2> SUFFICES ASSUME Init PROVE cached = Available
    BY DEF CacheIsCurrent
  <2>1. Shape
    BY ShapeInit
  <2>2. Reserved = 0
    <3>1. Held \in [Usages -> 0..MaxPrice] /\ \A u \in Usages : Held[u] = 0
      BY <2>1, HeldHasType DEF Init, Held
    <3> QED
      BY <3>1, TotalIsASum DEF Reserved
  <2>3. ~Blocked
    BY BillingConstants DEF Init, Blocked
  <2>4. PICK n \in Openings :
            /\ amount = [f \in Columns |-> IF f = "wallet" THEN n ELSE 0]
            /\ cached = NonNegative(n)
    BY DEF Init
  <2>5. n \in Int
    BY BillingConstants
  <2>6. Raw = n
    BY <2>4, <2>5 DEF Raw, NonNegative, Columns
  <2> QED
    BY <2>2, <2>3, <2>4, <2>5, <2>6 DEF Available
<1>2. CacheIsCurrent /\ [Next]_vars => CacheIsCurrent'
  <2> SUFFICES ASSUME CacheIsCurrent, [Next]_vars PROVE CacheIsCurrent'
    OBVIOUS
  <2>1. CASE CycleEnds
    <3>1. cycle' = "over" /\ cycle = "running" /\ plan' = plan
      BY <2>1 DEF CycleEnds
    <3>2. CASE plan \in Plans
      BY <3>1, <3>2 DEF CacheIsCurrent
    <3>3. CASE plan \notin Plans
      <4>1. cached' = cached /\ cached = Available
        BY <2>1, <3>3 DEF CycleEnds, CacheIsCurrent
      <4>2. Available' = Available
        BY <2>1, <3>1, <3>3
           DEF CycleEnds, usage, Available, Blocked, Raw, Reserved, Held
      <4> QED
        BY <4>1, <4>2 DEF CacheIsCurrent
    <3> QED
      BY <3>2, <3>3
  <2>2. CASE UNCHANGED vars
    BY <2>2 DEF vars, account, usage, CacheIsCurrent, Available, Blocked, Raw,
                Reserved, Held
  <2>3. CASE Next /\ ~CycleEnds
    <3>1. cached' = Available'
      BY <2>3 DEF Next, Reserve, Charge, Defer, Release, Pay, Adjust, ToWallet,
                  Renew, Edit, Update, SyncCredits
    <3> QED
      BY <3>1 DEF CacheIsCurrent
  <2> QED
    BY <2>1, <2>2, <2>3
<1> QED
  BY <1>1, <1>2, PTL DEF Spec

----------------------------------------------------------------------------
(* Coverage *)

\* Reserving, charging or releasing one usage changes what is held for it and
\* leaves the rest as it is.
LEMMA ReservedOfNext ==
  ASSUME Shape, Shape', NEW u \in Usages, NEW n \in 0..MaxPrice,
         Held' = [Held EXCEPT ![u] = n]
  PROVE  Reserved' = (Reserved - Held[u]) + n
<1>1. Held \in [Usages -> 0..MaxPrice]
  BY HeldHasType
<1>2. Total([Held EXCEPT ![u] = n]) = Total(Held) - Held[u] + n
  BY <1>1, TotalIsASum
<1> QED
  BY <1>2 DEF Reserved

\* A reservation that was granted is covered by what was left.
LEMMA ReserveStaysCovered ==
  ASSUME Shape, Shape', Covered, NEW u \in Usages, Reserve(u)
  PROVE  Covered'
<1>1. PICK n \in 0..MaxPrice : /\ CanReserve(n)
                               /\ credits' = [credits EXCEPT ![u] = n]
  BY DEF Reserve
<1>2. Held' = [Held EXCEPT ![u] = n] /\ Held[u] = 0
  BY <1>1 DEF Reserve, Held, Shape
<1>3. Reserved' = (Reserved - Held[u]) + n
  BY <1>2, ReservedOfNext
<1>4. /\ Raw' = Raw
      /\ amount' = amount
  BY DEF Reserve, account, Raw
<1>5. Raw \in Int /\ Reserved \in Nat /\ n \in Nat
  BY WorthIsNumber, ReservedIsSum, BillingConstants
<1>6. n <= NonNegative(Raw - Reserved)
  BY <1>1, <1>5 DEF CanReserve, Available
<1> QED
  BY <1>2, <1>3, <1>4, <1>5, <1>6 DEF Covered, NonNegative

\* A charge of at most the held credits takes no more than is given back.
LEMMA ChargeStaysCovered ==
  ASSUME Shape, Shape', Covered, NEW u \in Usages, Charge(u),
         credits'[u] <= credits[u]
  PROVE  Covered'
<1>1. PICK c \in 1..MaxPrice :
          /\ credits' = [credits EXCEPT ![u] = c]
          /\ Raw' >= Raw - c
          /\ amount["used"] <= amount["limit"] /\ c <= Raw
               => amount'["used"] <= amount'["limit"]
  BY EntryOfCharge
<1>2. /\ Held' = [Held EXCEPT ![u] = 0]
      /\ Held[u] = credits[u]
      /\ credits'[u] = c
  BY <1>1 DEF Charge, Held, Shape
<1>3. 0 \in 0..MaxPrice /\ c \in Nat
  BY BillingConstants
<1>4. Reserved' = (Reserved - Held[u]) + 0
  BY <1>2, <1>3, ReservedOfNext
<1>5. /\ Raw \in Int /\ Raw' \in Int /\ Reserved \in Nat
      /\ Held[u] \in Nat /\ Held[u] <= Reserved
  BY WorthIsNumber, ReservedIsSum, NumbersNext DEF Numbers
<1>6. Reserved <= Raw /\ amount["used"] <= amount["limit"]
  BY DEF Covered
<1>7. c <= Held[u]
  BY <1>2
<1> QED
  BY <1>1, <1>3, <1>4, <1>5, <1>6, <1>7 DEF Covered

\* A release gives credits back.
LEMMA ReleaseStaysCovered ==
  ASSUME Shape, Shape', Covered, NEW u \in Usages, Release(u)
  PROVE  Covered'
<1>1. Held' = [Held EXCEPT ![u] = 0]
  BY DEF Release, Held, Shape
<1>2. 0 \in 0..MaxPrice
  BY BillingConstants
<1>3. Reserved' = (Reserved - Held[u]) + 0
  BY <1>1, <1>2, ReservedOfNext
<1>4. /\ Raw \in Int /\ Reserved \in Nat
      /\ Held[u] \in Nat /\ Held[u] <= Reserved
  BY WorthIsNumber, ReservedIsSum
<1>5. Raw' = Raw /\ amount' = amount
  BY DEF Release, account, Raw
<1> QED
  BY <1>3, <1>4, <1>5 DEF Covered

\* Reservations, releases and charges of at most what was reserved keep every
\* held credit backed by the account, and the used credit within its limit.
THEOREM MeteringNeverOverdraws == Spec => MeteringStaysCovered
<1>1. Shape /\ Shape' /\ [Next]_vars =>
        [(/\ Covered
          /\ UNCHANGED <<plan, active, cycle>>
          /\ status' # status
          /\ \A u \in Usages : status[u] = "reserved" => credits'[u] <= credits[u])
              => Covered']_vars
  <2> SUFFICES ASSUME Shape, Shape', [Next]_vars, Covered, status' # status,
                      \A u \in Usages :
                          status[u] = "reserved" => credits'[u] <= credits[u]
               PROVE  Covered'
    OBVIOUS
  <2>1. PICK u \in Usages : Reserve(u) \/ Charge(u) \/ Release(u)
    BY DEF Next, Defer, Pay, Adjust, ToWallet, Renew, Edit, Update, CycleEnds,
           usage, vars
  <2>2. CASE Reserve(u)
    BY <2>2, ReserveStaysCovered
  <2>3. CASE Charge(u)
    <3>1. credits'[u] <= credits[u]
      BY <2>3 DEF Charge
    <3> QED
      BY <2>3, <3>1, ChargeStaysCovered
  <2>4. CASE Release(u)
    BY <2>4, ReleaseStaysCovered
  <2> QED
    BY <2>1, <2>2, <2>3, <2>4
<1> QED
  BY <1>1, ShapeStep, AlwaysShape, PTL DEF Spec, MeteringStaysCovered

=============================================================================
