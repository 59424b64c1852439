--------------------------- MODULE CallbackOutbox ---------------------------
(***************************************************************************)
(* The durable outbox of tenant callbacks                                  *)
(* (server/services/tenantCallbackOutbox.js), the dispatch timer of        *)
(* server.js and the retention of maintenance.js.                          *)
(*                                                                         *)
(* Every SQL statement is one atomic step.  A worker is a server process   *)
(* with its dispatch timer; it keeps everything but the table rows in      *)
(* memory, so a crash loses it.  Clock readings are abstracted to the two  *)
(* comparisons the code makes: due[i] is available_at <= now, expired[i]   *)
(* is locked_at <= now - leaseMs.                                          *)
(***************************************************************************)
EXTENDS Naturals, FiniteSets

CONSTANTS
    Tenants,      \* tenants with a configured callback URL
    NoTenant,     \* marks an id that no row uses yet
    Keys,         \* dedupe keys the producers use
    NoKey,        \* a row queued without dedupe key: SQL NULL
    Workers,      \* server processes that share the database
    MaxAttempts,  \* TENANT_CALLBACK_OUTBOX_MAX_ATTEMPTS
    Concurrency,  \* TENANT_CALLBACK_OUTBOX_CONCURRENCY: requests in one batch
    Limit,        \* results one dispatch may produce
    MaxRows,      \* bound: rows ever queued
    MaxCrashes,   \* bound: crashes of a process
    MaxStalls     \* bound: leases that expire under a worker which is still
                  \* delivering; 0 when leases outlive deliveries (5 minutes
                  \* against 20 batches of 10 seconds by default)

ASSUME OutboxConstants ==
    /\ IsFiniteSet(Workers)
    /\ NoTenant \notin Tenants
    /\ NoKey \notin Keys
    /\ MaxAttempts \in Nat \ {0}
    /\ Concurrency \in Nat \ {0}
    /\ Limit \in Nat \ {0}
    /\ MaxRows \in Nat
    /\ MaxCrashes \in Nat
    /\ MaxStalls \in Nat

Ids == 1..MaxRows  \* AUTOINCREMENT: an id is never used twice

VARIABLES
    \* table tenant_api_callback_outbox
    tenant,    \* tenant_id
    key,       \* dedupe_key
    status,    \* status; "none" before the row exists
    attempts,  \* attempts
    due,       \* available_at <= now
    expired,   \* processing, and locked_at <= now - leaseMs
    kept,      \* the row has not been purged
    \* memory of the workers
    pc,        \* where a worker stands in dispatch()
    picked,    \* ids selected in this round and not yet claimed
    claims,    \* claimed and waiting for their batch
    open,      \* POSTs of the current batch that have no outcome yet
    attemptOf, \* record.attempts as read back by claim()
    blocked,   \* blockedTenants
    results,   \* results.length
    \* the outside world
    received,  \* events the tenant's endpoint has received at least once
    crashes,   \* crashes so far
    stalls     \* leases that expired under a live delivery so far

rowVars == <<tenant, key, status, attempts, due, expired, kept>>
workerVars == <<pc, picked, claims, open, attemptOf, blocked, results>>
world == <<received, crashes, stalls>>
vars == <<rowVars, workerVars, world>>

Statuses ==
    {"none", "pending", "processing", "failed", "delivered", "dead_letter"}
Active == {"pending", "processing", "failed"}
Settled == {"delivered", "dead_letter"}

\* The rows of the same tenant that were queued before row i.
Earlier(i) == {j \in Ids : j < i /\ tenant[j] = tenant[i]}

\* Mutants of IsHead: no row is held back; a failed row holds back nobody.
IsHead_NoOrder(i) == status[i] \in Active
IsHead_FailedIsSkipped(i) ==
    /\ status[i] \in Active
    /\ \A j \in Earlier(i) : status[j] \notin {"pending", "processing"}

\* tenant_rank = 1 among the active rows of the tenant.
IsHead(i) ==
    /\ status[i] \in Active
    /\ \A j \in Earlier(i) : status[j] \notin Active

\* The n smallest elements of a set of ids: ORDER BY id LIMIT n.
FirstIds(S, n) == {i \in S : Cardinality({j \in S : j < i}) < n}

\* What a worker holds between its claim and the recorded outcome.
Held(w) == claims[w] \cup open[w]

TypeOK ==
    /\ tenant \in [Ids -> Tenants \cup {NoTenant}]
    /\ key \in [Ids -> Keys \cup {NoKey}]
    /\ status \in [Ids -> Statuses]
    /\ attempts \in [Ids -> Nat]
    /\ due \in [Ids -> BOOLEAN]
    /\ expired \in [Ids -> BOOLEAN]
    /\ kept \in [Ids -> BOOLEAN]
    /\ pc \in [Workers -> {"idle", "select", "claim", "post"}]
    /\ picked \in [Workers -> SUBSET Ids]
    /\ claims \in [Workers -> SUBSET Ids]
    /\ open \in [Workers -> SUBSET Ids]
    /\ attemptOf \in [Workers -> [Ids -> Nat]]
    /\ blocked \in [Workers -> SUBSET Tenants]
    /\ results \in [Workers -> Nat]
    /\ received \subseteq Ids
    /\ crashes \in Nat
    /\ stalls \in Nat

Init ==
    /\ tenant = [i \in Ids |-> NoTenant]
    /\ key = [i \in Ids |-> NoKey]
    /\ status = [i \in Ids |-> "none"]
    /\ attempts = [i \in Ids |-> 0]
    /\ due = [i \in Ids |-> FALSE]
    /\ expired = [i \in Ids |-> FALSE]
    /\ kept = [i \in Ids |-> FALSE]
    /\ pc = [w \in Workers |-> "idle"]
    /\ picked = [w \in Workers |-> {}]
    /\ claims = [w \in Workers |-> {}]
    /\ open = [w \in Workers |-> {}]
    /\ attemptOf = [w \in Workers |-> [i \in Ids |-> 0]]
    /\ blocked = [w \in Workers |-> {}]
    /\ results = [w \in Workers |-> 0]
    /\ received = {}
    /\ crashes = 0
    /\ stalls = 0

----------------------------------------------------------------------------
(* Producers and the clock *)

\* ON CONFLICT(dedupe_key) DO NOTHING; a NULL key never conflicts.
Conflicts(t, k) ==
    /\ k # NoKey
    /\ \E j \in Ids : kept[j] /\ tenant[j] = t /\ key[j] = k

\* enqueue(): a new row behind all others.  A conflict, or a tenant without
\* callback URL, leaves the table as it is.
Enqueue(t, k) ==
    \E i \in Ids :
        /\ status[i] = "none"
        /\ \A j \in Ids : j < i => status[j] # "none"
        /\ ~Conflicts(t, k)
        /\ tenant' = [tenant EXCEPT ![i] = t]
        /\ key' = [key EXCEPT ![i] = k]
        /\ status' = [status EXCEPT ![i] = "pending"]
        /\ due' = [due EXCEPT ![i] = TRUE]
        /\ kept' = [kept EXCEPT ![i] = TRUE]
        /\ UNCHANGED <<attempts, expired, workerVars, world>>

\* retryDelayMs() has passed since the failed attempt.
BecomeDue(i) ==
    /\ status[i] = "failed"
    /\ ~due[i]
    /\ due' = [due EXCEPT ![i] = TRUE]
    /\ UNCHANGED <<tenant, key, status, attempts, expired, kept>>
    /\ UNCHANGED <<workerVars, world>>

\* leaseMs has passed since the claim.
LeaseExpires(i) ==
    /\ status[i] = "processing"
    /\ ~expired[i]
    /\ IF \E w \in Workers : i \in Held(w)
       THEN stalls < MaxStalls /\ stalls' = stalls + 1
       ELSE UNCHANGED stalls
    /\ expired' = [expired EXCEPT ![i] = TRUE]
    /\ UNCHANGED <<tenant, key, status, attempts, due, kept>>
    /\ UNCHANGED <<workerVars, received, crashes>>

\* maintenance.js deletes delivered rows and dead letters after their
\* retention; active rows are never deleted.  Only the dedupe key of a
\* settled row matters afterwards, so only rows with a key are followed.
Purge(i) ==
    /\ status[i] \in Settled
    /\ key[i] # NoKey
    /\ kept[i]
    /\ kept' = [kept EXCEPT ![i] = FALSE]
    /\ UNCHANGED <<tenant, key, status, attempts, due, expired>>
    /\ UNCHANGED <<workerVars, world>>

----------------------------------------------------------------------------
(* dispatch() *)

\* Mutant of Reclaimable: nobody looks for expired leases.
Reclaimable_Never == {}

\* The rows reclaimExpiredLeases() takes back.
Reclaimable == {i \in Ids : status[i] = "processing" /\ expired[i]}

\* The timer fires while no dispatch of this process runs
\* (callbackOutboxRunning); expired leases are reclaimed once, at the start.
StartDispatch(w) ==
    /\ pc[w] = "idle"
    /\ status' = [i \in Ids |->
                     IF i \in Reclaimable THEN "failed" ELSE status[i]]
    /\ due' = [i \in Ids |-> due[i] \/ i \in Reclaimable]
    /\ expired' = [i \in Ids |-> expired[i] /\ i \notin Reclaimable]
    /\ pc' = [pc EXCEPT ![w] = "select"]
    /\ UNCHANGED <<tenant, key, attempts, kept>>
    /\ UNCHANGED <<picked, claims, open, attemptOf, blocked, results>>
    /\ UNCHANGED world

\* dispatch() goes on at `next`; its locals end with it.
Continue(w, next, tenants, count) ==
    /\ pc' = [pc EXCEPT ![w] = next]
    /\ blocked' = [blocked EXCEPT ![w] = IF next = "idle" THEN {} ELSE tenants]
    /\ results' = [results EXCEPT ![w] = IF next = "idle" THEN 0 ELSE count]

\* The ranked query: at most one row per tenant, its head.
Candidates(w) ==
    {i \in Ids : /\ IsHead(i)
                 /\ status[i] \in {"pending", "failed"}
                 /\ due[i]
                 /\ tenant[i] \notin blocked[w]}

Select(w) ==
    LET chosen == FirstIds(Candidates(w), Limit - results[w])
    IN  /\ pc[w] = "select"
        /\ picked' = [picked EXCEPT ![w] = chosen]
        /\ Continue(w, IF chosen = {} THEN "idle" ELSE "claim",
                    blocked[w], results[w])
        /\ UNCHANGED <<rowVars, claims, open, attemptOf, world>>

\* Mutant of Claimable: the UPDATE trusts the earlier SELECT.
Claimable_Unchecked(i) == due[i]

\* The guard of the UPDATE in claim().
Claimable(i) == status[i] \in {"pending", "failed"} /\ due[i]

\* After the last candidate: stop if nothing was claimed, else deliver.
AfterClaim(w, i, claimed) ==
    IF picked[w] \ {i} # {} THEN "claim"
    ELSE IF claimed = {} THEN "idle" ELSE "post"

Claim(w, i) ==
    /\ pc[w] = "claim"
    /\ i \in picked[w]
    /\ \A j \in picked[w] : i <= j
    /\ picked' = [picked EXCEPT ![w] = @ \ {i}]
    /\ \/ /\ Claimable(i)
          /\ status' = [status EXCEPT ![i] = "processing"]
          /\ attempts' = [attempts EXCEPT ![i] = @ + 1]
          /\ expired' = [expired EXCEPT ![i] = FALSE]
          /\ claims' = [claims EXCEPT ![w] = @ \cup {i}]
          /\ attemptOf' = [attemptOf EXCEPT ![w][i] = attempts[i] + 1]
          /\ Continue(w, AfterClaim(w, i, claims[w] \cup {i}),
                      blocked[w], results[w])
       \/ /\ ~Claimable(i)
          /\ Continue(w, AfterClaim(w, i, claims[w]), blocked[w], results[w])
          /\ UNCHANGED <<status, attempts, expired, claims, attemptOf>>
    /\ UNCHANGED <<tenant, key, due, kept, open, world>>

\* The next slice of `concurrency` claims is posted with Promise.all.
StartBatch(w) ==
    /\ pc[w] = "post"
    /\ open[w] = {}
    /\ claims[w] # {}
    /\ open' = [open EXCEPT ![w] = FirstIds(claims[w], Concurrency)]
    /\ claims' = [claims EXCEPT ![w] = @ \ FirstIds(claims[w], Concurrency)]
    /\ UNCHANGED <<rowVars, pc, picked, attemptOf, blocked, results>>
    /\ UNCHANGED world

\* A request is over; after the last one of the round the loop condition
\* results.length < deliveryLimit decides.
RequestDone(w, i, failedTenants) ==
    /\ open' = [open EXCEPT ![w] = @ \ {i}]
    /\ attemptOf' = [attemptOf EXCEPT ![w][i] = 0]
    /\ Continue(w, IF Held(w) # {i} THEN "post"
                   ELSE IF results[w] + 1 < Limit THEN "select" ELSE "idle",
                blocked[w] \cup failedTenants, results[w] + 1)

\* A 2xx answer: UPDATE ... 'delivered' WHERE status = 'processing'.
Accepted(w, i) ==
    /\ i \in open[w]
    /\ received' = received \cup {i}
    /\ status' = IF status[i] = "processing"
                 THEN [status EXCEPT ![i] = "delivered"] ELSE status
    /\ expired' = IF status[i] = "processing"
                  THEN [expired EXCEPT ![i] = FALSE] ELSE expired
    /\ RequestDone(w, i, {})
    /\ UNCHANGED <<tenant, key, attempts, due, kept, picked, claims>>
    /\ UNCHANGED <<crashes, stalls>>

\* Mutants of AfterFailure: off by one in either direction, a status the
\* table does not know, an answer that is not looked at.
AfterFailure_OneMore(w, i) ==
    IF attemptOf[w][i] > MaxAttempts THEN "dead_letter" ELSE "failed"
AfterFailure_OneLess(w, i) ==
    IF attemptOf[w][i] + 1 >= MaxAttempts THEN "dead_letter" ELSE "failed"
AfterFailure_UnknownStatus(w, i) ==
    IF attemptOf[w][i] >= MaxAttempts THEN "error" ELSE "failed"
AfterFailure_AnswerIgnored(w, i) == "delivered"

\* The last permitted attempt makes a dead letter.
AfterFailure(w, i) ==
    IF attemptOf[w][i] >= MaxAttempts THEN "dead_letter" ELSE "failed"

\* Any other answer, a timeout or a lost connection; the endpoint may have
\* received the event all the same.
Rejected(w, i) ==
    /\ i \in open[w]
    /\ received' \in {received, received \cup {i}}
    /\ \/ /\ status[i] = "processing"
          /\ status' = [status EXCEPT ![i] = AfterFailure(w, i)]
          /\ due' = [due EXCEPT ![i] = FALSE]
          /\ expired' = [expired EXCEPT ![i] = FALSE]
       \/ /\ status[i] # "processing"
          /\ UNCHANGED <<status, due, expired>>
    /\ RequestDone(w, i, {tenant[i]})
    /\ UNCHANGED <<tenant, key, attempts, kept, picked, claims>>
    /\ UNCHANGED <<crashes, stalls>>

\* The process dies in the middle of a dispatch; requests on the wire may
\* still arrive.  The timer of the restarted process finds an idle worker.
Crash(w) ==
    /\ crashes < MaxCrashes
    /\ pc[w] # "idle"
    /\ crashes' = crashes + 1
    /\ \E S \in SUBSET open[w] : received' = received \cup S
    /\ pc' = [pc EXCEPT ![w] = "idle"]
    /\ picked' = [picked EXCEPT ![w] = {}]
    /\ claims' = [claims EXCEPT ![w] = {}]
    /\ open' = [open EXCEPT ![w] = {}]
    /\ attemptOf' = [attemptOf EXCEPT ![w] = [i \in Ids |-> 0]]
    /\ blocked' = [blocked EXCEPT ![w] = {}]
    /\ results' = [results EXCEPT ![w] = 0]
    /\ UNCHANGED <<rowVars, stalls>>

----------------------------------------------------------------------------

Dispatch(w) ==
    \/ StartDispatch(w)
    \/ Select(w)
    \/ \E i \in Ids : Claim(w, i)
    \/ StartBatch(w)
    \/ \E i \in Ids : Accepted(w, i)
    \/ \E i \in Ids : Rejected(w, i)

Next ==
    \/ \E t \in Tenants, k \in Keys \cup {NoKey} : Enqueue(t, k)
    \/ \E i \in Ids : BecomeDue(i)
    \/ \E i \in Ids : LeaseExpires(i)
    \/ \E i \in Ids : Purge(i)
    \/ \E w \in Workers : Dispatch(w)
    \/ \E w \in Workers : Crash(w)

Spec == Init /\ [][Next]_vars

\* The timer is periodic, a request ends within its timeout, and the clock
\* advances; nothing forces a producer, a purge or a crash.
Fairness ==
    /\ \A w \in Workers : WF_vars(Dispatch(w))
    /\ \A i \in Ids : WF_vars(BecomeDue(i)) /\ WF_vars(LeaseExpires(i))

FairSpec == Spec /\ Fairness

----------------------------------------------------------------------------
(* Properties *)

\* Per-tenant order: once a row has been claimed, or its event received,
\* every earlier row of the tenant is settled, so a later event never
\* overtakes an earlier one (the head-of-line query of dispatch()).
InOrder ==
    \A i \in Ids :
        status[i] \notin {"none", "pending"} \/ i \in received =>
            \A j \in Earlier(i) : status[j] \in Settled

\* A row is marked delivered only if the endpoint received its event, also
\* when the UPDATE comes from a worker that has lost its lease.
DeliveredWasReceived ==
    \A i \in Ids : status[i] = "delivered" => i \in received

\* An event is given up only after the full number of attempts, whatever
\* crashes and reclaimed leases happened in between.
GivenUpAfterBudget ==
    \A i \in Ids : status[i] = "dead_letter" => attempts[i] >= MaxAttempts

\* As long as leases outlive deliveries, the outcome a worker is about to
\* write belongs to the claim it made: nobody reclaimed or settled the row.
OwnerWritesOutcome ==
    \A w \in Workers : \A i \in Held(w) :
        status[i] = "processing" /\ attempts[i] = attemptOf[w][i]

\* "At most one callback per tenant is in flight" (comment in dispatch()).
OneInFlightPerTenant ==
    \A v, w \in Workers : \A i \in open[v], j \in open[w] :
        tenant[i] = tenant[j] => v = w /\ i = j

\* Retries are bounded by the configured maximum plus one for each crash or
\* stall: a reclaimed lease costs an attempt without counting as a failure.
AttemptsWithinBudget ==
    \A i \in Ids : attempts[i] <= MaxAttempts + crashes + stalls

\* A settled row never becomes active again and never changes its outcome,
\* also when two workers finish the same row.
SettledIsFinal ==
    [][\A i \in Ids : status[i] \in Settled => status'[i] = status[i]]_vars

\* Every queued event is eventually delivered or dead-lettered.
EveryEventSettles ==
    \A i \in Ids : (status[i] \in Active) ~> (status[i] \in Settled)

\* What the tenant sees of a row: leases and retries are invisible.
Outcome ==
    [i \in Ids |-> IF status[i] = "delivered" THEN "delivered"
                   ELSE IF status[i] = "dead_letter" THEN "given_up"
                   ELSE "open"]

\* The promise to the tenant, see OrderedDelivery.
Promise == INSTANCE OrderedDelivery WITH
    Tenants <- Tenants,
    Ids <- Ids,
    ComesLate <- MaxStalls > 0,
    owner <- tenant,
    outcome <- Outcome,
    received <- received

\* The outbox implements ordered at-least-once delivery per tenant, also when
\* a lease expires under a worker that is still posting.
ImplementsPromise == Promise!Spec

=============================================================================
