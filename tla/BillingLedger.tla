--------------------------- MODULE BillingLedger ---------------------------
(***************************************************************************)
(* The billing account of one tenant: server/services/billingAccount.js,   *)
(* billingUsage.js, billingMath.js and billingLedgerMutations.js.          *)
(*                                                                         *)
(* An account holds a plan balance, a wallet and a credit limit of which a *)
(* part is used.  Operations reserve credits, charge or release them;      *)
(* administrators pay in, adjust, renew and edit.  Each is one SQLite      *)
(* transaction of one process, hence one action; what can go wrong is the  *)
(* sequence.  Tenants share nothing, so one is enough.  Subscriptions that *)
(* the central platform writes (savanaIntegration.js) are left out.        *)
(***************************************************************************)
EXTENDS Integers

CONSTANTS
    Usages,         \* operations, each with an idempotency key of its own
    Plans,          \* active plans other than 'legacy'
    Allowance,      \* [balance, limit] that a plan grants for a month
    Openings,       \* tenants.credits before the account existed
    Payments,       \* credits of one payment
    Deltas,         \* manual adjustments
    Edits,          \* columns an administrator sets by hand, with their values
    MaxPrice,       \* bound: credits reserved for, or charged by, one usage
    MaxCredits,     \* bound: the absolute value of every column
    Total(_)        \* SUM(total_credits) in SQL, over [Usages -> Nat]

Columns == {"balance", "wallet", "limit", "used"}

ASSUME BillingConstants ==
    /\ Allowance \in [Plans -> [balance : Nat, limit : Nat]]
    /\ {"none", "legacy"} \cap Plans = {}
    /\ Openings \subseteq Int
    /\ Payments \subseteq Nat \ {0}
    /\ Deltas \subseteq Int \ {0}
    /\ \A e \in Edits :
        /\ DOMAIN e \subseteq Columns
        /\ \A f \in DOMAIN e :
            e[f] \in Int /\ (f \in {"limit", "used"} => e[f] >= 0)
    /\ MaxPrice \in Nat
    /\ MaxCredits \in Nat

ASSUME TotalIsASum ==
    \A held \in [Usages -> 0..MaxPrice] :
        /\ Total(held) \in Nat
        /\ (\A u \in Usages : held[u] = 0) => Total(held) = 0
        /\ \A u \in Usages, n \in 0..MaxPrice :
            Total([held EXCEPT ![u] = n]) = Total(held) - held[u] + n

VARIABLES
    \* table tenant_billing_accounts
    plan,      \* code of the plan; "none" for NULL
    active,    \* status = 'active'
    cycle,     \* billing_cycle_end: NULL ("none"), to come or over
    amount,    \* plan_balance, wallet_balance, credit_limit, credit_used
    \* table billing_usage_events
    status,    \* status of a usage; "none" before the row exists
    credits,   \* its total_credits
    \* elsewhere
    ledger,    \* sum of credits_delta in billing_ledger
    cached     \* tenants.credits

account == <<plan, active, cycle, amount>>
usage == <<status, credits>>
vars == <<account, usage, ledger, cached>>

TypeOK ==
    /\ plan \in Plans \cup {"none", "legacy"}
    /\ active \in BOOLEAN
    /\ cycle \in {"none", "running", "over"}
    /\ amount \in [Columns -> Int]
    /\ amount["limit"] >= 0
    /\ amount["used"] >= 0
    /\ status \in [Usages -> {"none", "reserved", "committed", "released"}]
    /\ credits \in [Usages -> 0..MaxPrice]
    /\ ledger \in Int
    /\ cached \in Nat

----------------------------------------------------------------------------
(* Credits of the account *)

NonNegative(n) == IF n < 0 THEN 0 ELSE n
Smaller(m, n) == IF m < n THEN m ELSE n

Blocked == plan \in Plans /\ cycle # "running"

\* raw_gross_available_credits: what the account is worth, cycle or not.
Raw == amount["balance"] + amount["wallet"]
         + NonNegative(amount["limit"] - amount["used"])

Held == [u \in Usages |-> IF status[u] = "reserved" THEN credits[u] ELSE 0]
Reserved == Total(Held)

\* Mutant of Available: may become negative.
Available_Overdrawn == (IF Blocked THEN 0 ELSE Raw) - Reserved

Available == NonNegative((IF Blocked THEN 0 ELSE Raw) - Reserved)

\* Mutant of SyncCredits: computed before the account is updated.
SyncCredits_BeforeUpdate == cached' = Available

\* Every operation ends by refreshing tenants.credits.
SyncCredits == cached' = Available'

\* Mutant of Deduct: the wallet pays what the plan balance has paid already.
Deduct_Twice(c) ==
    LET balance    == NonNegative(amount["balance"])
        wallet     == NonNegative(amount["wallet"])
        fromPlan   == Smaller(balance, c)
        fromWallet == Smaller(wallet, c)
    IN  [amount EXCEPT
            !["balance"] = balance - fromPlan,
            !["wallet"] = wallet - fromWallet,
            !["used"] = @ + NonNegative(c - fromPlan - fromWallet)]

\* A charge takes the plan balance, then the wallet, then the limit.
Deduct(c) ==
    LET balance    == NonNegative(amount["balance"])
        wallet     == NonNegative(amount["wallet"])
        fromPlan   == Smaller(balance, c)
        fromWallet == Smaller(wallet, c - fromPlan)
    IN  [amount EXCEPT
            !["balance"] = balance - fromPlan,
            !["wallet"] = wallet - fromWallet,
            !["used"] = @ + (c - fromPlan - fromWallet)]

\* The bound on the columns.
InBounds(columns) ==
    \A f \in Columns : columns[f] \in -MaxCredits..MaxCredits

Init ==
    /\ plan = "legacy"
    /\ active \in BOOLEAN
    /\ cycle = "none"
    /\ \E n \in Openings :
        /\ amount = [f \in Columns |-> IF f = "wallet" THEN n ELSE 0]
        /\ ledger = n
        /\ cached = NonNegative(n)
    /\ status = [u \in Usages |-> "none"]
    /\ credits = [u \in Usages |-> 0]

----------------------------------------------------------------------------
(* Usages *)

\* Mutant of CanReserve: credits held for other usages count as available.
CanReserve_HeldTwice(price) ==
    /\ active
    /\ ~Blocked
    /\ Raw >= price

CanReserve(price) ==
    /\ active
    /\ ~Blocked
    /\ Available >= price

\* A key that has a usage gets that usage back, whatever its status.
Reserve(u) ==
    /\ status[u] = "none"
    /\ \E price \in 0..MaxPrice :
        /\ CanReserve(price)
        /\ credits' = [credits EXCEPT ![u] = price]
    /\ status' = [status EXCEPT ![u] = "reserved"]
    /\ UNCHANGED <<account, ledger>>
    /\ SyncCredits

\* The final charge may be any amount: Meta decides what a message costs.
\* Neither the account's status nor its cycle is looked at.
Charge(u) ==
    /\ status[u] = "reserved"
    /\ \E c \in 1..MaxPrice :
        /\ amount' = Deduct(c)
        /\ credits' = [credits EXCEPT ![u] = c]
        /\ ledger' = ledger - c
    /\ InBounds(amount')
    /\ status' = [status EXCEPT ![u] = "committed"]
    /\ UNCHANGED <<plan, active, cycle>>
    /\ SyncCredits

\* A commit that waits for the delivery of a message keeps the reservation.
Defer(u) ==
    /\ status[u] = "reserved"
    /\ UNCHANGED <<account, usage, ledger>>
    /\ SyncCredits

\* A release, or a commit that charges nothing.
Release(u) ==
    /\ status[u] = "reserved"
    /\ status' = [status EXCEPT ![u] = "released"]
    /\ UNCHANGED <<account, credits, ledger>>
    /\ SyncCredits

----------------------------------------------------------------------------
(* Mutations by administrators *)

\* Credits that go to the wallet: a payment or an adjustment of either sign.
ToWallet(n) ==
    /\ amount' = [amount EXCEPT !["wallet"] = @ + n]
    /\ InBounds(amount')
    /\ ledger' = ledger + n
    /\ UNCHANGED <<plan, active, cycle, usage>>
    /\ SyncCredits

Pay == \E n \in Payments : ToWallet(n)

Adjust == \E n \in Deltas : ToWallet(n)

\* What a plan puts into the columns; the wallet is the tenant's own.
Granted(p) ==
    [amount EXCEPT
        !["balance"] = Allowance[p].balance,
        !["limit"] = Allowance[p].limit,
        !["used"] = 0]

\* Mutant of Entry: what is left of the old columns is not subtracted.
Entry_NewOnly == NonNegative(Raw' - amount["wallet"])

\* The ledger entry of a change of columns.
Entry == Raw' - Raw

Renew ==
    /\ plan \in Plans
    /\ cycle # "running"
    /\ amount' = Granted(plan)
    /\ cycle' = "running"
    /\ ledger' = ledger + Entry
    /\ UNCHANGED <<plan, active, usage>>
    /\ SyncCredits

\* The columns after an edit: given values win over those of a new plan.
Edited(p, given) ==
    LET base == IF p = plan THEN amount
                ELSE IF p \in Plans THEN Granted(p)
                ELSE IF p = "legacy" THEN [amount EXCEPT !["balance"] = 0,
                                               !["limit"] = 0, !["used"] = 0]
                ELSE [amount EXCEPT !["balance"] = 0]
    IN  [f \in Columns |-> IF f \in DOMAIN given THEN given[f] ELSE base[f]]

\* updateTenantBillingAccount(): a new plan, status, dates or columns at once.
\* A new plan sets its own dates, also over given ones.
Update(p, given) ==
    /\ amount' = Edited(p, given)
    /\ plan' = p
    /\ active' \in BOOLEAN
    /\ cycle' \in IF p = plan THEN {"none", "running", "over"}
                              ELSE {IF p \in Plans THEN "running" ELSE "none"}
    /\ ledger' = ledger + Entry
    /\ UNCHANGED usage
    /\ SyncCredits

Edit == \E p \in Plans \cup {"none", "legacy"}, given \in Edits :
            Update(p, given)

\* Time passes; nothing runs, and tenants.credits stays as it was.
CycleEnds ==
    /\ cycle = "running"
    /\ cycle' = "over"
    /\ UNCHANGED <<plan, active, amount, usage, ledger, cached>>

Next ==
    \/ \E u \in Usages : Reserve(u) \/ Charge(u) \/ Defer(u) \/ Release(u)
    \/ Pay
    \/ Adjust
    \/ Renew
    \/ Edit
    \/ CycleEnds

Spec == Init /\ [][Next]_vars

----------------------------------------------------------------------------
(* Properties *)

\* The ledger never promises more than the account is worth: no sequence of
\* charges, renewals and edits takes credits without an entry that says so.
\* (It may say less: a charge against a negative wallet, or beyond plan,
\* wallet and limit, is written in full and taken only as far as it goes.)
LedgerBelowBalance == ledger <= Raw

\* A step between accounts without negative balances, with an entry that the
\* account can bear, changes the account by exactly that entry: a charge is
\* taken once over plan, wallet and limit, and a renewal or edit that raises,
\* lowers or forgets the used credit is entered as what it is worth.
EntriesMatchBalance ==
    [][(/\ amount["balance"] >= 0
        /\ amount["wallet"] >= 0
        /\ Raw + (ledger' - ledger) >= 0) => Raw' - Raw = ledger' - ledger]_vars

\* tenants.credits is what the tenant can spend, after every operation and
\* whatever it changed; only the end of a paid cycle, which no code runs at,
\* leaves it behind until the next operation.
CacheIsCurrent ==
    cached = Available \/ (plan \in Plans /\ cycle = "over")

Covered == Reserved <= Raw /\ amount["used"] <= amount["limit"]

\* Metering cannot overdraw: reservations, releases and charges of at most
\* the reserved credits, in any order, leave every held credit backed by the
\* account and the limit kept, if that was so before.
MeteringStaysCovered ==
    [][(/\ Covered
        /\ UNCHANGED <<plan, active, cycle>>
        /\ status' # status
        /\ \A u \in Usages : status[u] = "reserved" => credits'[u] <= credits[u])
            => Covered']_vars

=============================================================================
