------------------------ MODULE CallbackOutboxProofs ------------------------
(***************************************************************************)
(* Proofs about CallbackOutbox for every number of tenants, workers, rows, *)
(* crashes and stalls.                                                     *)
(***************************************************************************)
EXTENDS CallbackOutbox, FiniteSetTheorems, TLAPS

\* The steps of the system, one per action: every invariance proof below
\* splits along this lemma.
LEMMA NextCases ==
    ASSUME [Next]_vars
    PROVE  \/ \E t \in Tenants, k \in Keys \cup {NoKey} : Enqueue(t, k)
           \/ \E i \in Ids : BecomeDue(i) \/ LeaseExpires(i) \/ Purge(i)
           \/ \E w \in Workers : \/ StartDispatch(w) \/ Select(w)
                                 \/ StartBatch(w) \/ Crash(w)
           \/ \E w \in Workers, i \in Ids :
                 Claim(w, i) \/ Accepted(w, i) \/ Rejected(w, i)
           \/ UNCHANGED vars
  BY DEF Next, Dispatch

\* The n oldest ids of a set belong to it.
LEMMA FirstIdsSubset ==
    ASSUME NEW S, NEW n
    PROVE  FirstIds(S, n) \subseteq S
  BY DEF FirstIds

----------------------------------------------------------------------------
(* Type correctness *)

\* The initial rows and the idle workers have their types.
LEMMA TypeInit == Init => TypeOK
  BY DEF Init, TypeOK, Statuses

\* A tenant is on record for every row a worker holds, so `blocked` collects
\* tenants only.
HeldRowsExist ==
    \A w \in Workers, i \in Ids :
        i \in picked[w] \cup Held(w) => status[i] # "none"

\* A row exists exactly when its tenant is on record.
RowsHaveTenants ==
    \A i \in Ids : status[i] # "none" <=> tenant[i] \in Tenants

\* Rows are numbered without gaps.
RowsAreContiguous ==
    \A i, j \in Ids : j < i /\ status[i] # "none" => status[j] # "none"

ReceivedRowsExist == \A i \in received : status[i] # "none"

\* A worker remembers no later attempt than the row has had.
AttemptsRemembered ==
    \A w \in Workers, i \in Ids : attemptOf[w][i] <= attempts[i]

Shape ==
    /\ TypeOK
    /\ HeldRowsExist
    /\ RowsHaveTenants
    /\ RowsAreContiguous
    /\ ReceivedRowsExist
    /\ AttemptsRemembered

\* An empty table has the shape.
LEMMA ShapeInit == Init => Shape
  BY OutboxConstants DEF Init, Shape, TypeOK, Statuses, HeldRowsExist, Held,
     RowsHaveTenants, RowsAreContiguous, ReceivedRowsExist, AttemptsRemembered

\* Every step of dispatch(), of a producer and of the clock keeps it.
LEMMA ShapeStep == Shape /\ [Next]_vars => Shape'
<1> SUFFICES ASSUME Shape, [Next]_vars PROVE Shape'
  OBVIOUS
<1> USE DEF Shape, TypeOK
<1>1. ASSUME NEW t \in Tenants, NEW k \in Keys \cup {NoKey}, Enqueue(t, k)
      PROVE  Shape'
  <2>1. PICK i \in Ids :
           /\ status[i] = "none"
           /\ \A j \in Ids : j < i => status[j] # "none"
           /\ tenant' = [tenant EXCEPT ![i] = t]
           /\ key' = [key EXCEPT ![i] = k]
           /\ status' = [status EXCEPT ![i] = "pending"]
           /\ due' = [due EXCEPT ![i] = TRUE]
           /\ kept' = [kept EXCEPT ![i] = TRUE]
           /\ UNCHANGED <<attempts, expired, workerVars, world>>
    BY <1>1 DEF Enqueue
  <2>2. TypeOK'
    BY <2>1 DEF Statuses, workerVars, world
  <2>3. \A j \in Ids : status[j] # "none" => status'[j] # "none"
    BY <2>1
  <2>4. HeldRowsExist' /\ ReceivedRowsExist' /\ AttemptsRemembered'
    BY <2>1, <2>3 DEF HeldRowsExist, Held, ReceivedRowsExist,
       AttemptsRemembered, workerVars, world
  <2>5. RowsHaveTenants'
    BY <2>1 DEF RowsHaveTenants
  <2>6. RowsAreContiguous'
    BY <2>1 DEF RowsAreContiguous, Ids
  <2>7. QED
    BY <2>2, <2>4, <2>5, <2>6
<1>2. ASSUME NEW i \in Ids, BecomeDue(i) \/ LeaseExpires(i) \/ Purge(i)
      PROVE  Shape'
  <2>1. /\ UNCHANGED <<tenant, key, status, attempts, workerVars, received, crashes>>
        /\ due' \in [Ids -> BOOLEAN]
        /\ expired' \in [Ids -> BOOLEAN]
        /\ kept' \in [Ids -> BOOLEAN]
        /\ stalls' \in Nat
    <3>1. CASE BecomeDue(i)
      BY <3>1 DEF BecomeDue, world
    <3>2. CASE LeaseExpires(i)
      BY <3>2 DEF LeaseExpires
    <3>3. CASE Purge(i)
      BY <3>3 DEF Purge, world
    <3>4. QED
      BY <1>2, <3>1, <3>2, <3>3
  <2>2. QED
    BY <2>1 DEF HeldRowsExist, Held, RowsHaveTenants, RowsAreContiguous,
       ReceivedRowsExist, AttemptsRemembered, workerVars
<1>3. ASSUME NEW w \in Workers, StartDispatch(w)
      PROVE  Shape'
  <2>1. TypeOK'
    BY <1>3 DEF StartDispatch, Statuses, world
  <2>2. \A i \in Ids : status'[i] # "none" <=> status[i] # "none"
    BY <1>3 DEF StartDispatch, Reclaimable
  <2>3. QED
    BY <1>3, <2>1, <2>2 DEF StartDispatch, HeldRowsExist, Held, RowsHaveTenants,
       RowsAreContiguous, ReceivedRowsExist, AttemptsRemembered, world
<1>4. ASSUME NEW w \in Workers, Select(w)
      PROVE  Shape'
  <2> DEFINE chosen == FirstIds(Candidates(w), Limit - results[w])
  <2>1. chosen \subseteq Candidates(w)
    BY FirstIdsSubset
  <2>2. chosen \subseteq Ids /\ \A i \in chosen : status[i] # "none"
    BY <2>1 DEF Candidates
  <2>3. Continue(w, IF chosen = {} THEN "idle" ELSE "claim", blocked[w], results[w])
    BY <1>4 DEF Select
  <2>4. /\ pc' \in [Workers -> {"idle", "select", "claim", "post"}]
        /\ blocked' \in [Workers -> SUBSET Tenants]
        /\ results' \in [Workers -> Nat]
    BY <2>3 DEF Continue
  <2>5. /\ picked' = [picked EXCEPT ![w] = chosen]
        /\ UNCHANGED <<rowVars, claims, open, attemptOf, world>>
    BY <1>4 DEF Select
  <2> HIDE DEF chosen
  <2>6. TypeOK'
    BY <2>2, <2>4, <2>5 DEF rowVars, world
  <2>7. QED
    BY <2>2, <2>5, <2>6 DEF HeldRowsExist, Held, RowsHaveTenants,
       RowsAreContiguous, ReceivedRowsExist, AttemptsRemembered, rowVars, world
<1>5. ASSUME NEW w \in Workers, NEW i \in Ids, Claim(w, i)
      PROVE  Shape'
  <2>1. /\ i \in picked[w]
        /\ picked' = [picked EXCEPT ![w] = @ \ {i}]
        /\ UNCHANGED <<tenant, key, due, kept, open, world>>
    BY <1>5 DEF Claim
  <2>2. /\ pc' \in [Workers -> {"idle", "select", "claim", "post"}]
        /\ blocked' \in [Workers -> SUBSET Tenants]
        /\ results' \in [Workers -> Nat]
    <3>1. \E next \in {"idle", "claim", "post"} :
             Continue(w, next, blocked[w], results[w])
      BY <1>5 DEF Claim, AfterClaim
    <3>2. QED
      BY <3>1 DEF Continue
  <2>3. CASE /\ Claimable(i)
             /\ status' = [status EXCEPT ![i] = "processing"]
             /\ attempts' = [attempts EXCEPT ![i] = @ + 1]
             /\ expired' = [expired EXCEPT ![i] = FALSE]
             /\ claims' = [claims EXCEPT ![w] = @ \cup {i}]
             /\ attemptOf' = [attemptOf EXCEPT ![w][i] = attempts[i] + 1]
    <3>1. TypeOK'
      BY <2>1, <2>2, <2>3 DEF Statuses, world
    <3>2. \A j \in Ids : status'[j] # "none" <=> status[j] # "none"
      BY <2>3 DEF Claimable
    <3>3. HeldRowsExist'
      BY <2>1, <2>3, <3>2 DEF HeldRowsExist, Held
    <3>4. AttemptsRemembered'
      BY <2>3 DEF AttemptsRemembered
    <3>5. QED
      BY <2>1, <3>1, <3>2, <3>3, <3>4 DEF RowsHaveTenants, RowsAreContiguous,
         ReceivedRowsExist, world
  <2>4. CASE UNCHANGED <<status, attempts, expired, claims, attemptOf>>
    BY <2>1, <2>2, <2>4 DEF HeldRowsExist, Held, RowsHaveTenants,
       RowsAreContiguous, ReceivedRowsExist, AttemptsRemembered, world
  <2>5. QED
    BY <1>5, <2>3, <2>4 DEF Claim
<1>6. ASSUME NEW w \in Workers, StartBatch(w)
      PROVE  Shape'
  <2>1. FirstIds(claims[w], Concurrency) \subseteq claims[w]
    BY FirstIdsSubset
  <2>2. QED
    BY <1>6, <2>1 DEF StartBatch, HeldRowsExist, Held, RowsHaveTenants,
       RowsAreContiguous, ReceivedRowsExist, AttemptsRemembered, rowVars, world
<1>7. ASSUME NEW w \in Workers, NEW i \in Ids, Accepted(w, i) \/ Rejected(w, i)
      PROVE  Shape'
  <2>1. status[i] # "none" /\ tenant[i] \in Tenants
    BY <1>7 DEF Accepted, Rejected, AfterFailure, HeldRowsExist, Held, RowsHaveTenants
  <2>2. PICK T \in SUBSET Tenants : RequestDone(w, i, T)
    BY <1>7, <2>1 DEF Accepted, Rejected, AfterFailure
  <2>3. /\ open' = [open EXCEPT ![w] = @ \ {i}]
        /\ attemptOf' = [attemptOf EXCEPT ![w][i] = 0]
        /\ pc' \in [Workers -> {"idle", "select", "claim", "post"}]
        /\ blocked' \in [Workers -> SUBSET Tenants]
        /\ results' \in [Workers -> Nat]
    BY <2>2 DEF RequestDone, Continue
  <2>4. /\ status' \in [Ids -> Statuses]
        /\ due' \in [Ids -> BOOLEAN]
        /\ expired' \in [Ids -> BOOLEAN]
        /\ received' \in {received, received \cup {i}}
        /\ UNCHANGED <<tenant, key, attempts, kept, picked, claims, crashes, stalls>>
    <3>1. CASE Accepted(w, i)
      BY <3>1 DEF Accepted, Statuses
    <3>2. CASE Rejected(w, i)
      <4>1. /\ received' \in {received, received \cup {i}}
            /\ UNCHANGED <<tenant, key, attempts, kept, picked, claims>>
            /\ UNCHANGED <<crashes, stalls>>
        BY <3>2 DEF Rejected, AfterFailure
      <4>2. CASE UNCHANGED <<status, due, expired>>
        BY <4>1, <4>2
      <4>3. CASE \E outcome \in {"failed", "dead_letter"} :
                    /\ status' = [status EXCEPT ![i] = outcome]
                    /\ due' = [due EXCEPT ![i] = FALSE]
                    /\ expired' = [expired EXCEPT ![i] = FALSE]
        BY <4>1, <4>3 DEF Statuses
      <4>4. QED
        BY <3>2, <4>2, <4>3 DEF Rejected, AfterFailure
    <3>3. QED
      BY <1>7, <3>1, <3>2
  <2>5. \A j \in Ids : status'[j] # "none" <=> status[j] # "none"
    BY <1>7 DEF Accepted, Rejected, AfterFailure
  <2>6. TypeOK'
    BY <2>3, <2>4
  <2>7. HeldRowsExist' /\ ReceivedRowsExist'
    BY <2>1, <2>3, <2>4, <2>5 DEF HeldRowsExist, Held, ReceivedRowsExist
  <2>8. AttemptsRemembered'
    BY <2>3, <2>4 DEF AttemptsRemembered
  <2>9. QED
    BY <2>4, <2>5, <2>6, <2>7, <2>8 DEF RowsHaveTenants, RowsAreContiguous
<1>8. ASSUME NEW w \in Workers, Crash(w)
      PROVE  Shape'
  <2>1. PICK S \in SUBSET open[w] : received' = received \cup S
    BY <1>8 DEF Crash
  <2>2. \A i \in S : i \in Ids /\ status[i] # "none"
    BY <2>1 DEF HeldRowsExist, Held
  <2>3. QED
    BY <1>8, <2>1, <2>2 DEF Crash, HeldRowsExist, Held, RowsHaveTenants,
       RowsAreContiguous, ReceivedRowsExist, AttemptsRemembered, rowVars
<1>9. CASE UNCHANGED vars
  BY <1>9 DEF vars, rowVars, workerVars, world, HeldRowsExist, Held,
     RowsHaveTenants, RowsAreContiguous, ReceivedRowsExist, AttemptsRemembered
<1>10. QED
  BY <1>1, <1>2, <1>3, <1>4, <1>5, <1>6, <1>7, <1>8, <1>9, NextCases

\* The shape of the table and of the memory of the workers holds
\* in every reachable state.
THEOREM ShapeAlways == Spec => []Shape
  BY ShapeInit, ShapeStep, PTL DEF Spec

\* The table and the memory of the workers keep their types for every
\* number of tenants, workers, rows and crashes.
THEOREM TypeCorrect == Spec => []TypeOK
<1>1. Shape => TypeOK
  BY DEF Shape
<1>2. QED
  BY <1>1, ShapeAlways, PTL

----------------------------------------------------------------------------
(* Settled rows *)

\* No statement of the outbox touches a settled row.
LEMMA SettledStep ==
    ASSUME Shape, [Next]_vars, NEW i \in Ids, status[i] \in Settled
    PROVE  status'[i] = status[i]
<1> USE DEF Shape, TypeOK, Settled
<1>1. ASSUME NEW t \in Tenants, NEW k \in Keys \cup {NoKey}, Enqueue(t, k)
      PROVE  status'[i] = status[i]
  BY <1>1 DEF Enqueue
<1>2. ASSUME NEW j \in Ids, BecomeDue(j) \/ LeaseExpires(j) \/ Purge(j)
      PROVE  status'[i] = status[i]
  BY <1>2 DEF BecomeDue, LeaseExpires, Purge
<1>3. ASSUME NEW w \in Workers,
             StartDispatch(w) \/ Select(w) \/ StartBatch(w) \/ Crash(w)
      PROVE  status'[i] = status[i]
  BY <1>3 DEF StartDispatch, Reclaimable, Select, StartBatch, Crash, rowVars
<1>4. ASSUME NEW w \in Workers, NEW j \in Ids, Claim(w, j)
      PROVE  status'[i] = status[i]
  BY <1>4 DEF Claim, Claimable
<1>5. ASSUME NEW w \in Workers, NEW j \in Ids, Accepted(w, j) \/ Rejected(w, j)
      PROVE  status'[i] = status[i]
  BY <1>5 DEF Accepted, Rejected, AfterFailure
<1>6. CASE UNCHANGED vars
  BY <1>6 DEF vars, rowVars
<1>7. QED
  BY <1>1, <1>2, <1>3, <1>4, <1>5, <1>6, NextCases

\* A settled row keeps its outcome for ever, also when a worker that lost
\* its lease writes a late result (the status guards of the UPDATEs).
THEOREM OutcomesAreFinal == Spec => SettledIsFinal
<1>1. Shape /\ [Next]_vars =>
         [\A i \in Ids : status[i] \in Settled => status'[i] = status[i]]_vars
  BY SettledStep
<1>2. QED
  BY <1>1, ShapeAlways, PTL DEF Spec, SettledIsFinal

----------------------------------------------------------------------------
(* Order *)

\* Row i has been selected by a worker at some time.
Reached(i) ==
    \/ status[i] \notin {"none", "pending"}
    \/ i \in received
    \/ \E w \in Workers : i \in picked[w] \cup Held(w)

\* InOrder, strengthened to rows that are selected but not yet claimed.
Ordered ==
    \A i \in Ids : Reached(i) => \A j \in Earlier(i) : status[j] \in Settled

\* A step that reaches no further row keeps the order.
LEMMA OrderFrame ==
    ASSUME Shape, Ordered, [Next]_vars, UNCHANGED tenant,
           \A i \in Ids : Reached(i)' => Reached(i)
    PROVE  Ordered'
<1>1. ASSUME NEW i \in Ids, Reached(i)', NEW j \in Ids, j \in Earlier(i)'
      PROVE  status'[j] \in Settled
  <2>1. j \in Earlier(i)
    BY <1>1 DEF Earlier
  <2>2. status[j] \in Settled
    BY <1>1, <2>1 DEF Ordered
  <2>3. QED
    BY <2>2, SettledStep
<1>2. QED
  BY <1>1 DEF Ordered, Earlier

\* Nothing is claimed or received at the start.
LEMMA OrderedInit == Init => Ordered
  BY DEF Init, Ordered, Reached, Held

\* Every step keeps the order: only the head of a tenant is selected, and
\* everything before a head is settled.
LEMMA OrderedStep == Shape /\ Ordered /\ [Next]_vars => Ordered'
<1> SUFFICES ASSUME Shape, Ordered, [Next]_vars PROVE Ordered'
  OBVIOUS
<1> USE DEF Shape, TypeOK
<1>1. ASSUME NEW t \in Tenants, NEW k \in Keys \cup {NoKey}, Enqueue(t, k)
      PROVE  Ordered'
  <2>1. PICK e \in Ids :
           /\ status[e] = "none"
           /\ tenant' = [tenant EXCEPT ![e] = t]
           /\ status' = [status EXCEPT ![e] = "pending"]
           /\ UNCHANGED <<workerVars, world>>
    BY <1>1 DEF Enqueue
  <2>2. ~Reached(e)'
    BY <2>1 DEF Reached, Held, HeldRowsExist, ReceivedRowsExist, workerVars, world
  <2>3. ASSUME NEW i \in Ids, Reached(i)', NEW j \in Ids, j \in Earlier(i)'
        PROVE  status'[j] \in Settled
    <3>1. i # e
      BY <2>2, <2>3
    <3>2. Reached(i)
      BY <2>1, <2>3, <3>1 DEF Reached, Held, workerVars, world
    <3>3. status[i] # "none"
      BY <3>2 DEF Reached, HeldRowsExist, ReceivedRowsExist
    <3>4. j # e /\ j < i
      BY <2>1, <2>3, <3>1, <3>3 DEF Earlier, RowsAreContiguous
    <3>5. j \in Earlier(i)
      BY <2>1, <2>3, <3>1, <3>4 DEF Earlier
    <3>6. QED
      BY <2>1, <3>2, <3>4, <3>5 DEF Ordered
  <2>4. QED
    BY <2>3 DEF Ordered, Earlier
<1>2. ASSUME NEW i \in Ids, BecomeDue(i) \/ LeaseExpires(i) \/ Purge(i)
      PROVE  Ordered'
  <2>1. UNCHANGED <<tenant, status, workerVars, received>>
    BY <1>2 DEF BecomeDue, LeaseExpires, Purge, world
  <2>2. \A j \in Ids : Reached(j)' => Reached(j)
    BY <2>1 DEF Reached, Held, workerVars
  <2>3. QED
    BY <2>1, <2>2, OrderFrame
<1>3. ASSUME NEW w \in Workers, StartDispatch(w)
      PROVE  Ordered'
  <2>1. UNCHANGED tenant /\ \A j \in Ids : Reached(j)' => Reached(j)
    BY <1>3 DEF StartDispatch, Reclaimable, Reached, Held, world
  <2>2. QED
    BY <2>1, OrderFrame
<1>4. ASSUME NEW w \in Workers, Select(w)
      PROVE  Ordered'
  <2> DEFINE chosen == FirstIds(Candidates(w), Limit - results[w])
  <2>1. /\ picked' = [picked EXCEPT ![w] = chosen]
        /\ UNCHANGED <<tenant, status, claims, open, received>>
    BY <1>4 DEF Select, rowVars, world
  <2>2. chosen \subseteq Candidates(w)
    BY FirstIdsSubset
  <2>3. \A i \in chosen : \A j \in Earlier(i) : status[j] \in Settled
    <3>1. SUFFICES ASSUME NEW i \in chosen, NEW j \in Earlier(i)
                   PROVE  status[j] \in Settled
      OBVIOUS
    <3>2. IsHead(i) /\ i \in Ids
      BY <2>2 DEF Candidates
    <3>3. j \in Ids /\ j < i /\ tenant[j] = tenant[i] /\ status[j] \notin Active
      BY <3>2 DEF IsHead, Earlier
    <3>4. status[i] # "none"
      BY <3>2 DEF IsHead, Active
    <3>5. status[j] # "none"
      BY <3>2, <3>3, <3>4 DEF RowsAreContiguous
    <3>6. status[j] \in Statuses
      BY <3>3
    <3>7. QED
      BY <3>3, <3>5, <3>6 DEF Statuses, Active, Settled
  <2> HIDE DEF chosen
  <2>4. \A i \in Ids : Reached(i)' => Reached(i) \/ i \in chosen
    BY <2>1 DEF Reached, Held
  <2>5. QED
    BY <2>1, <2>3, <2>4 DEF Ordered, Earlier
<1>5. ASSUME NEW w \in Workers, NEW i \in Ids, Claim(w, i)
      PROVE  Ordered'
  <2>1. /\ i \in picked[w]
        /\ picked' = [picked EXCEPT ![w] = @ \ {i}]
        /\ UNCHANGED <<tenant, open, received>>
    BY <1>5 DEF Claim, world
  <2>2. \/ /\ status' = [status EXCEPT ![i] = "processing"]
           /\ claims' = [claims EXCEPT ![w] = @ \cup {i}]
        \/ UNCHANGED <<status, claims>>
    BY <1>5 DEF Claim
  <2>3. \A j \in Ids : Reached(j)' => Reached(j)
    BY <2>1, <2>2 DEF Reached, Held
  <2>4. QED
    BY <2>1, <2>3, OrderFrame
<1>6. ASSUME NEW w \in Workers, StartBatch(w)
      PROVE  Ordered'
  <2>1. FirstIds(claims[w], Concurrency) \subseteq claims[w]
    BY FirstIdsSubset
  <2>2. UNCHANGED tenant /\ \A j \in Ids : Reached(j)' => Reached(j)
    BY <1>6, <2>1 DEF StartBatch, Reached, Held, rowVars, world
  <2>3. QED
    BY <2>2, OrderFrame
<1>7. ASSUME NEW w \in Workers, NEW i \in Ids, Accepted(w, i) \/ Rejected(w, i)
      PROVE  Ordered'
  <2>1. /\ i \in open[w]
        /\ received' \in {received, received \cup {i}}
        /\ open' = [open EXCEPT ![w] = @ \ {i}]
        /\ UNCHANGED <<tenant, picked, claims>>
    BY <1>7 DEF Accepted, Rejected, AfterFailure, RequestDone
  <2>2. \A j \in Ids : j # i => status'[j] = status[j]
    BY <1>7 DEF Accepted, Rejected, AfterFailure
  <2>3. \A j \in Ids : Reached(j)' => Reached(j)
    BY <2>1, <2>2 DEF Reached, Held
  <2>4. QED
    BY <2>1, <2>3, OrderFrame
<1>8. ASSUME NEW w \in Workers, Crash(w)
      PROVE  Ordered'
  <2>1. UNCHANGED tenant /\ \A j \in Ids : Reached(j)' => Reached(j)
    BY <1>8 DEF Crash, Reached, Held, rowVars
  <2>2. QED
    BY <2>1, OrderFrame
<1>9. CASE UNCHANGED vars
  <2>1. UNCHANGED tenant /\ \A j \in Ids : Reached(j)' => Reached(j)
    BY <1>9 DEF vars, rowVars, workerVars, world, Reached, Held
  <2>2. QED
    BY <2>1, OrderFrame
<1>10. QED
  BY <1>1, <1>2, <1>3, <1>4, <1>5, <1>6, <1>7, <1>8, <1>9, NextCases

\* A later event of a tenant is never claimed or received before every
\* earlier one is settled: for any number of workers, also after crashes and
\* after leases that expired under a live delivery.
THEOREM OrderIsKept == Spec => []InOrder
<1>1. Ordered => InOrder
  BY DEF Ordered, InOrder, Reached
<1>2. QED
  BY <1>1, OrderedInit, OrderedStep, ShapeAlways, PTL DEF Spec

----------------------------------------------------------------------------
(* What the outcomes mean *)

Outcomes == DeliveredWasReceived /\ GivenUpAfterBudget

\* Nothing has an outcome at the start.
LEMMA OutcomesInit == Init => Outcomes
  BY DEF Init, Outcomes, DeliveredWasReceived, GivenUpAfterBudget

\* A step that settles no row keeps the invariant if the endpoint's log and
\* the attempts only grow.
LEMMA OutcomesFrame ==
    ASSUME Shape, Outcomes, received \subseteq received',
           \A i \in Ids : attempts'[i] >= attempts[i] /\ attempts'[i] \in Nat,
           \A i \in Ids : status'[i] \in Settled => status'[i] = status[i]
    PROVE  Outcomes'
  BY OutboxConstants
  DEF Shape, TypeOK, Outcomes, DeliveredWasReceived, GivenUpAfterBudget, Settled

\* Every UPDATE of an outcome is justified by what happened to the request.
LEMMA OutcomesStep == Shape /\ Outcomes /\ [Next]_vars => Outcomes'
<1> SUFFICES ASSUME Shape, Outcomes, [Next]_vars PROVE Outcomes'
  OBVIOUS
<1> USE DEF Shape, TypeOK
<1>1. ASSUME NEW t \in Tenants, NEW k \in Keys \cup {NoKey}, Enqueue(t, k)
      PROVE  Outcomes'
  BY <1>1, OutcomesFrame DEF Enqueue, world, Settled
<1>2. ASSUME NEW i \in Ids, BecomeDue(i) \/ LeaseExpires(i) \/ Purge(i)
      PROVE  Outcomes'
  <2>1. UNCHANGED <<status, attempts, received>>
    BY <1>2 DEF BecomeDue, LeaseExpires, Purge, world
  <2>2. QED
    BY <2>1, OutcomesFrame
<1>3. ASSUME NEW w \in Workers,
             StartDispatch(w) \/ Select(w) \/ StartBatch(w) \/ Crash(w)
      PROVE  Outcomes'
  <2>1. /\ received \subseteq received'
        /\ UNCHANGED attempts
        /\ \A i \in Ids : status'[i] \in Settled => status'[i] = status[i]
    BY <1>3 DEF StartDispatch, Reclaimable, Select, StartBatch, Crash, rowVars,
       world, Settled
  <2>2. QED
    BY <2>1, OutcomesFrame
<1>4. ASSUME NEW w \in Workers, NEW i \in Ids, Claim(w, i)
      PROVE  Outcomes'
  <2>1. UNCHANGED received
    BY <1>4 DEF Claim, world
  <2>2. \/ UNCHANGED <<status, attempts>>
        \/ /\ status' = [status EXCEPT ![i] = "processing"]
           /\ attempts' = [attempts EXCEPT ![i] = @ + 1]
    BY <1>4 DEF Claim
  <2>3. \A j \in Ids : attempts'[j] >= attempts[j] /\ attempts'[j] \in Nat
    BY <2>2
  <2>4. \A j \in Ids : status'[j] \in Settled => status'[j] = status[j]
    BY <2>2 DEF Settled
  <2>5. received \subseteq received'
    BY <2>1
  <2>6. QED
    BY <2>3, <2>4, <2>5, OutcomesFrame
<1>5. ASSUME NEW w \in Workers, NEW i \in Ids, Accepted(w, i)
      PROVE  Outcomes'
  BY <1>5, OutboxConstants
  DEF Accepted, Outcomes, DeliveredWasReceived, GivenUpAfterBudget
<1>6. ASSUME NEW w \in Workers, NEW i \in Ids, Rejected(w, i)
      PROVE  Outcomes'
  <2>1. attempts' = attempts /\ received \subseteq received'
    BY <1>6 DEF Rejected, AfterFailure
  <2>2. attemptOf[w][i] <= attempts[i]
    BY DEF AttemptsRemembered
  <2>3. \A j \in Ids : status'[j] = "delivered" => status[j] = "delivered"
    BY <1>6 DEF Rejected, AfterFailure
  <2>4. DeliveredWasReceived'
    BY <2>1, <2>3 DEF Outcomes, DeliveredWasReceived
  <2>5. \A j \in Ids : status'[j] = "dead_letter" =>
            status[j] = "dead_letter" \/ (j = i /\ attemptOf[w][i] >= MaxAttempts)
    BY <1>6 DEF Rejected, AfterFailure
  <2>6. GivenUpAfterBudget'
    BY <2>1, <2>2, <2>5, OutboxConstants DEF Outcomes, GivenUpAfterBudget
  <2>7. QED
    BY <2>4, <2>6 DEF Outcomes
<1>7. CASE UNCHANGED vars
  BY <1>7, OutcomesFrame DEF vars, rowVars, world
<1>8. QED
  BY <1>1, <1>2, <1>3, <1>4, <1>5, <1>6, <1>7, NextCases

\* Recorded outcomes are true in every reachable state.
THEOREM OutcomesAlways == Spec => []Outcomes
  BY OutcomesInit, OutcomesStep, ShapeAlways, PTL DEF Spec

\* A row that says delivered was received by the tenant's endpoint, for any
\* number of workers, crashes and stalls.
THEOREM DeliveredMeansReceived == Spec => []DeliveredWasReceived
<1>1. Outcomes => DeliveredWasReceived
  BY DEF Outcomes
<1>2. QED
  BY <1>1, OutcomesAlways, PTL

\* No event is dead-lettered before its configured number of attempts.
THEOREM NeverGivenUpEarly == Spec => []GivenUpAfterBudget
<1>1. Outcomes => GivenUpAfterBudget
  BY DEF Outcomes
<1>2. QED
  BY <1>1, OutcomesAlways, PTL

----------------------------------------------------------------------------
(* Ownership, when leases outlive deliveries *)

\* A held row is processing under a live lease and held by one worker, in
\* one of its two sets.
Owned ==
    /\ stalls = 0
    /\ OwnerWritesOutcome
    /\ \A w \in Workers : \A i \in Held(w) : ~expired[i]
    /\ \A v, w \in Workers : \A i \in Held(v) : i \in Held(w) => v = w
    /\ \A w \in Workers : claims[w] \cap open[w] = {}

\* Nothing is claimed at the start.
LEMMA OwnedInit == Init => Owned
  BY DEF Init, Owned, OwnerWritesOutcome, Held

\* A step that leaves the held rows alone and gives no worker a new one.
LEMMA OwnedFrame ==
    ASSUME Shape, Owned, UNCHANGED stalls,
           \A w \in Workers : /\ claims'[w] \subseteq claims[w]
                              /\ open'[w] \subseteq open[w],
           \A w \in Workers : \A i \in Held(w)' :
               /\ status'[i] = status[i]
               /\ attempts'[i] = attempts[i]
               /\ attemptOf'[w][i] = attemptOf[w][i]
               /\ expired'[i] = expired[i]
    PROVE  Owned'
  BY DEF Shape, TypeOK, Owned, OwnerWritesOutcome, Held

\* While no lease expires under a live delivery, every step keeps each
\* claim with the one worker that made it.
LEMMA OwnedStep ==
    MaxStalls = 0 /\ Shape /\ Owned /\ [Next]_vars => Owned'
<1> SUFFICES ASSUME MaxStalls = 0, Shape, Owned, [Next]_vars PROVE Owned'
  OBVIOUS
<1> USE DEF Shape, TypeOK
<1>1. ASSUME NEW t \in Tenants, NEW k \in Keys \cup {NoKey}, Enqueue(t, k)
      PROVE  Owned'
  <2>1. /\ UNCHANGED <<attempts, expired, claims, open, attemptOf, stalls>>
        /\ \A i \in Ids : status[i] # "none" => status'[i] = status[i]
    BY <1>1 DEF Enqueue, workerVars, world
  <2>2. QED
    BY <2>1, OwnedFrame DEF Held, HeldRowsExist
<1>2. ASSUME NEW i \in Ids, BecomeDue(i) \/ Purge(i)
      PROVE  Owned'
  <2>1. UNCHANGED <<status, attempts, expired, claims, open, attemptOf, stalls>>
    BY <1>2 DEF BecomeDue, Purge, workerVars, world
  <2>2. QED
    BY <2>1, OwnedFrame DEF Held
<1>3. ASSUME NEW i \in Ids, LeaseExpires(i)
      PROVE  Owned'
  <2>1. ~ \E w \in Workers : i \in Held(w)
    BY <1>3 DEF LeaseExpires, Owned
  <2>2. /\ UNCHANGED <<status, attempts, claims, open, attemptOf, stalls>>
        /\ expired' = [expired EXCEPT ![i] = TRUE]
    BY <1>3, <2>1 DEF LeaseExpires, workerVars
  <2>3. QED
    BY <2>1, <2>2, OwnedFrame DEF Held
<1>4. ASSUME NEW w \in Workers, StartDispatch(w)
      PROVE  Owned'
  <2>1. \A v \in Workers : \A i \in Held(v) : i \notin Reclaimable
    BY DEF Owned, Reclaimable
  <2>2. /\ UNCHANGED <<attempts, claims, open, attemptOf, stalls>>
        /\ \A i \in Ids \ Reclaimable :
              status'[i] = status[i] /\ expired'[i] = expired[i]
    BY <1>4 DEF StartDispatch, world
  <2>3. QED
    BY <2>1, <2>2, OwnedFrame DEF Held
<1>5. ASSUME NEW w \in Workers, Select(w)
      PROVE  Owned'
  <2>1. UNCHANGED <<status, attempts, expired, claims, open, attemptOf, stalls>>
    BY <1>5 DEF Select, rowVars, world
  <2>2. QED
    BY <2>1, OwnedFrame DEF Held
<1>6. ASSUME NEW w \in Workers, NEW i \in Ids, Claim(w, i)
      PROVE  Owned'
  <2>1. UNCHANGED <<open, stalls>>
    BY <1>6 DEF Claim, world
  <2>2. CASE UNCHANGED <<status, attempts, expired, claims, attemptOf>>
    BY <2>1, <2>2, OwnedFrame DEF Held
  <2>3. CASE /\ Claimable(i)
             /\ status' = [status EXCEPT ![i] = "processing"]
             /\ attempts' = [attempts EXCEPT ![i] = @ + 1]
             /\ expired' = [expired EXCEPT ![i] = FALSE]
             /\ claims' = [claims EXCEPT ![w] = @ \cup {i}]
             /\ attemptOf' = [attemptOf EXCEPT ![w][i] = attempts[i] + 1]
    <3>1. \A v \in Workers : i \notin Held(v)
      BY <2>3 DEF Owned, OwnerWritesOutcome, Claimable
    <3>2. \A v \in Workers : Held(v)' = IF v = w THEN Held(v) \cup {i} ELSE Held(v)
      BY <2>1, <2>3 DEF Held
    <3>3. OwnerWritesOutcome'
      BY <2>3, <3>1, <3>2 DEF Owned, OwnerWritesOutcome, Held
    <3>4. \A v \in Workers : \A j \in Held(v)' : ~expired'[j]
      <4>1. SUFFICES ASSUME NEW v \in Workers, NEW j \in Held(v)'
                     PROVE  ~expired'[j]
        OBVIOUS
      <4>2. j = i \/ j \in Held(v)
        BY <3>2
      <4>3. j \in Ids
        BY <4>2 DEF Held
      <4>4. CASE j = i
        BY <2>3, <4>4
      <4>5. CASE j # i
        <5>1. expired'[j] = expired[j]
          BY <2>3, <4>3, <4>5
        <5>2. QED
          BY <4>2, <4>5, <5>1 DEF Owned
      <4>6. QED
        BY <4>4, <4>5
    <3>5. \A u, v \in Workers : \A j \in Held(u)' : j \in Held(v)' => u = v
      <4>1. SUFFICES ASSUME NEW u \in Workers, NEW v \in Workers,
                            NEW j \in Held(u)', j \in Held(v)'
                     PROVE  u = v
        OBVIOUS
      <4>2. CASE j = i
        BY <3>1, <3>2, <4>1, <4>2
      <4>3. CASE j # i
        <5>1. j \in Held(u)
          BY <3>2, <4>3
        <5>2. j \in Held(v)
          BY <3>2, <4>1, <4>3
        <5>3. QED
          BY <5>1, <5>2 DEF Owned
      <4>4. QED
        BY <4>2, <4>3
    <3>6. \A v \in Workers : claims'[v] \cap open'[v] = {}
      <4>1. \A v \in Workers : i \notin open[v] /\ claims[v] \cap open[v] = {}
        BY <3>1 DEF Owned, Held
      <4>2. QED
        BY <2>1, <2>3, <4>1
    <3>7. QED
      BY <2>1, <3>3, <3>4, <3>5, <3>6 DEF Owned
  <2>4. QED
    BY <1>6, <2>2, <2>3 DEF Claim
<1>7. ASSUME NEW w \in Workers, StartBatch(w)
      PROVE  Owned'
  <2> DEFINE batch == FirstIds(claims[w], Concurrency)
  <2>1. batch \subseteq claims[w]
    BY FirstIdsSubset
  <2>2. /\ open[w] = {}
        /\ open' = [open EXCEPT ![w] = batch]
        /\ claims' = [claims EXCEPT ![w] = @ \ batch]
        /\ UNCHANGED <<status, attempts, expired, attemptOf, stalls>>
    BY <1>7 DEF StartBatch, rowVars, world
  <2> HIDE DEF batch
  <2>3. \A v \in Workers : Held(v)' = Held(v)
    BY <2>1, <2>2 DEF Held
  <2>4. \A v \in Workers : claims'[v] \cap open'[v] = {}
    BY <2>1, <2>2 DEF Owned
  <2>5. QED
    BY <2>2, <2>3, <2>4 DEF Owned, OwnerWritesOutcome
<1>8. ASSUME NEW w \in Workers, NEW i \in Ids, Accepted(w, i) \/ Rejected(w, i)
      PROVE  Owned'
  <2>1. /\ i \in open[w]
        /\ open' = [open EXCEPT ![w] = @ \ {i}]
        /\ attemptOf' = [attemptOf EXCEPT ![w][i] = 0]
        /\ UNCHANGED <<attempts, claims, stalls>>
    BY <1>8 DEF Accepted, Rejected, AfterFailure, RequestDone
  <2>2. \A j \in Ids : j # i => status'[j] = status[j] /\ expired'[j] = expired[j]
    BY <1>8 DEF Accepted, Rejected, AfterFailure
  <2>3. \A v \in Workers : i \notin Held(v)'
    BY <2>1 DEF Held, Owned
  <2>4. \A v \in Workers : claims'[v] \subseteq claims[v] /\ open'[v] \subseteq open[v]
    BY <2>1
  <2>5. \A v \in Workers : \A j \in Held(v)' : j \in Ids /\ j # i
    BY <2>3, <2>4 DEF Held
  <2>6. \A v \in Workers : \A j \in Held(v)' : attemptOf'[v][j] = attemptOf[v][j]
    BY <2>1, <2>5
  <2>7. QED
    BY <2>1, <2>2, <2>4, <2>5, <2>6, OwnedFrame
<1>9. ASSUME NEW w \in Workers, Crash(w)
      PROVE  Owned'
  <2>1. /\ claims' = [claims EXCEPT ![w] = {}]
        /\ open' = [open EXCEPT ![w] = {}]
        /\ attemptOf' = [attemptOf EXCEPT ![w] = [i \in Ids |-> 0]]
        /\ UNCHANGED <<status, attempts, expired, stalls>>
    BY <1>9 DEF Crash, rowVars
  <2>2. \A v \in Workers : \A j \in Held(v)' : v # w /\ j \in Held(v)
    BY <2>1 DEF Held
  <2>3. QED
    BY <2>1, <2>2, OwnedFrame
<1>10. CASE UNCHANGED vars
  BY <1>10, OwnedFrame DEF vars, rowVars, workerVars, world, Held
<1>11. QED
  BY <1>1, <1>2, <1>3, <1>4, <1>5, <1>6, <1>7, <1>8, <1>9, <1>10, NextCases

\* Claims are owned in every reachable state without stalls.
THEOREM OwnedAlways == MaxStalls = 0 => (Spec => []Owned)
<1>1. SUFFICES ASSUME MaxStalls = 0 PROVE Spec => []Owned
  OBVIOUS
<1>2. Shape /\ Owned /\ [Next]_vars => Owned'
  BY <1>1, OwnedStep
<1>3. QED
  BY <1>2, OwnedInit, ShapeAlways, PTL DEF Spec

\* While leases outlive deliveries, a worker only writes the outcome of a
\* claim that is still its own.
THEOREM OutcomeIsOwned == MaxStalls = 0 => (Spec => []OwnerWritesOutcome)
<1>1. Owned => OwnerWritesOutcome
  BY DEF Owned
<1>2. QED
  BY <1>1, OwnedAlways, PTL

\* While leases outlive deliveries, no tenant has two requests in flight,
\* however many workers share the table.
THEOREM AtMostOneInFlight == MaxStalls = 0 => (Spec => []OneInFlightPerTenant)
<1>1. Shape /\ Ordered /\ Owned => OneInFlightPerTenant
  <2>1. SUFFICES ASSUME Shape, Ordered, Owned,
                        NEW v \in Workers, NEW w \in Workers,
                        NEW i \in open[v], NEW j \in open[w],
                        tenant[i] = tenant[j]
                 PROVE  v = w /\ i = j
    BY DEF OneInFlightPerTenant
  <2>2. /\ i \in Ids /\ j \in Ids
        /\ i \in Held(v) /\ j \in Held(w)
        /\ status[i] = "processing" /\ status[j] = "processing"
    BY <2>1 DEF Shape, TypeOK, Owned, OwnerWritesOutcome, Held
  <2>3. ~(i < j) /\ ~(j < i)
    BY <2>1, <2>2 DEF Ordered, Reached, Earlier, Settled
  <2>4. i = j
    BY <2>2, <2>3 DEF Ids
  <2>5. QED
    BY <2>1, <2>2, <2>4 DEF Owned
<1>2. QED
  BY <1>1, OrderedInit, OrderedStep, ShapeAlways, OwnedAlways, PTL DEF Spec

----------------------------------------------------------------------------
(* Refinement of OrderedDelivery *)

\* The empty outbox is an initial state of the promise.
LEMMA PromiseInit == Init => Promise!Init
  BY OutboxConstants DEF Init, Promise!Init, Outcome

\* Either leases outlive deliveries, and then every claim is owned, or what was
\* given up may arrive late.
Timely == MaxStalls = 0 => Owned

\* An active row that was claimed or received is the head of its tenant.
LEMMA ReachedIsHead ==
    ASSUME Shape, Ordered, NEW i \in Ids, Reached(i), status[i] \in Active
    PROVE  Promise!IsHead(i)
<1>1. i \in Promise!Queued /\ Outcome[i] = "open"
  BY DEF Shape, RowsHaveTenants, Active, Outcome, Promise!Queued
<1>2. ASSUME NEW j \in Promise!Queued, j < i, tenant[j] = tenant[i]
      PROVE  Outcome[j] # "open"
  <2>1. j \in Ids /\ j \in Earlier(i)
    BY <1>2 DEF Promise!Queued, Earlier
  <2>2. status[j] \in Settled
    BY <2>1 DEF Ordered
  <2>3. QED
    BY <2>1, <2>2 DEF Settled, Outcome
<1>3. QED
  BY <1>1, <1>2 DEF Promise!IsHead

\* The event of an open request was delivered before, or may arrive now.
LEMMA OpenMayArrive ==
    ASSUME Shape, Ordered, Timely, NEW w \in Workers, NEW i \in open[w],
           status[i] # "delivered"
    PROVE  i \in Ids /\ Promise!MayArrive(i)
<1>1. i \in Ids /\ i \in Held(w) /\ status[i] \in Statuses \ {"none"}
  BY DEF Shape, TypeOK, HeldRowsExist, Held
<1>2. CASE status[i] \in Active
  BY <1>1, <1>2, ReachedIsHead DEF Reached, Promise!MayArrive
<1>3. CASE status[i] = "dead_letter"
  <2>1. MaxStalls # 0
    BY <1>1, <1>3 DEF Timely, Owned, OwnerWritesOutcome
  <2>2. MaxStalls > 0
    BY <2>1, OutboxConstants
  <2>3. Outcome[i] = "given_up"
    BY <1>1, <1>3 DEF Outcome
  <2>4. QED
    BY <1>1, <2>2, <2>3 DEF Promise!MayArrive
<1>4. QED
  BY <1>1, <1>2, <1>3 DEF Statuses, Active

\* Requests that arrive and settle nothing are a step of the endpoint.
LEMMA ArrivalIsReceive ==
    ASSUME Shape, Ordered, DeliveredWasReceived, Timely, NEW w \in Workers,
           NEW S \in SUBSET open[w],
           received' = received \cup S, tenant' = tenant, Outcome' = Outcome
    PROVE  Promise!Receive
<1> DEFINE T == {i \in S : status[i] # "delivered"}
<1>1. T \in SUBSET {i \in Ids : Promise!MayArrive(i)}
  BY OpenMayArrive
<1>2. \A i \in S \ T : i \in received
  BY DEF Shape, TypeOK, DeliveredWasReceived
<1>3. received' = received \cup T
  BY <1>2
<1>4. QED
  BY <1>1, <1>3 DEF Promise!Receive

\* Every step of the outbox is a step or a stutter of the promise.
LEMMA PromiseStep ==
    Shape /\ Ordered /\ DeliveredWasReceived /\ Timely /\ [Next]_vars
        => [Promise!Next]_Promise!vars
<1> SUFFICES ASSUME Shape, Ordered, DeliveredWasReceived, Timely, [Next]_vars
             PROVE  [Promise!Next]_Promise!vars
  OBVIOUS
<1> USE DEF Shape, TypeOK
<1>1. ASSUME NEW t \in Tenants, NEW k \in Keys \cup {NoKey}, Enqueue(t, k)
      PROVE  Promise!Next
  <2>1. PICK i \in Ids :
           /\ status[i] = "none"
           /\ tenant' = [tenant EXCEPT ![i] = t]
           /\ status' = [status EXCEPT ![i] = "pending"]
           /\ received' = received
    BY <1>1 DEF Enqueue, world
  <2>2. Outcome' = Outcome
    BY <2>1 DEF Outcome
  <2>3. i \notin Promise!Queued /\ \A j \in Promise!Queued : j < i
    BY <2>1 DEF Promise!Queued, RowsHaveTenants, RowsAreContiguous, Ids
  <2>4. Promise!Enqueue(i, t)
    BY <2>1, <2>2, <2>3 DEF Promise!Enqueue
  <2>5. QED
    BY <2>4 DEF Promise!Next
<1>2. ASSUME NEW i \in Ids, BecomeDue(i) \/ LeaseExpires(i) \/ Purge(i)
      PROVE  UNCHANGED Promise!vars
  <2>1. UNCHANGED <<tenant, status, received>>
    BY <1>2 DEF BecomeDue, LeaseExpires, Purge, world
  <2>2. Outcome' = Outcome
    BY <2>1 DEF Outcome
  <2>3. QED
    BY <2>1, <2>2 DEF Promise!vars
<1>3. ASSUME NEW w \in Workers, StartDispatch(w) \/ Select(w) \/ StartBatch(w)
      PROVE  UNCHANGED Promise!vars
  <2>1. /\ UNCHANGED <<tenant, received>>
        /\ \A i \in Ids : \/ status'[i] = status[i]
                          \/ status[i] = "processing" /\ status'[i] = "failed"
    BY <1>3 DEF StartDispatch, Reclaimable, Select, StartBatch, rowVars, world
  <2>2. Outcome' = Outcome
    BY <2>1 DEF Outcome
  <2>3. QED
    BY <2>1, <2>2 DEF Promise!vars
<1>4. ASSUME NEW w \in Workers, NEW i \in Ids, Claim(w, i)
      PROVE  UNCHANGED Promise!vars
  <2>1. UNCHANGED <<tenant, received>>
    BY <1>4 DEF Claim, world
  <2>2. CASE Claimable(i)
    <3>1. status' = [status EXCEPT ![i] = "processing"]
      BY <1>4, <2>2 DEF Claim
    <3>2. status[i] \notin Settled
      BY <2>2 DEF Claimable, Settled
    <3>3. QED
      BY <2>1, <3>1, <3>2 DEF Outcome, Settled, Promise!vars
  <2>3. CASE ~Claimable(i)
    <3>1. status' = status
      BY <1>4, <2>3 DEF Claim
    <3>2. QED
      BY <2>1, <3>1 DEF Outcome, Promise!vars
  <2>4. QED
    BY <2>2, <2>3
<1>5. ASSUME NEW w \in Workers, NEW i \in Ids, Accepted(w, i)
      PROVE  Promise!Next
  <2>1. /\ {i} \in SUBSET open[w]
        /\ received' = received \cup {i}
        /\ tenant' = tenant
    BY <1>5 DEF Accepted
  <2>2. CASE status[i] = "processing"
    <3>1. status' = [status EXCEPT ![i] = "delivered"]
      BY <1>5, <2>2 DEF Accepted
    <3>2. Outcome' = [Outcome EXCEPT ![i] = "delivered"]
      BY <3>1 DEF Outcome
    <3>3. Promise!IsHead(i)
      BY <2>2, ReachedIsHead DEF Reached, Active
    <3>4. Promise!Deliver(i)
      BY <2>1, <3>2, <3>3 DEF Promise!Deliver
    <3>5. QED
      BY <3>4 DEF Promise!Next
  <2>3. CASE status[i] # "processing"
    <3>1. Outcome' = Outcome
      BY <1>5, <2>3 DEF Accepted, Outcome
    <3>2. Promise!Receive
      BY <2>1, <3>1, ArrivalIsReceive
    <3>3. QED
      BY <3>2 DEF Promise!Next
  <2>4. QED
    BY <2>2, <2>3
<1>6. ASSUME NEW w \in Workers, NEW i \in Ids, Rejected(w, i)
      PROVE  Promise!Next
  <2>1. /\ {i} \in SUBSET open[w] /\ {} \in SUBSET open[w]
        /\ received' \in {received, received \cup {i}}
        /\ tenant' = tenant
    BY <1>6 DEF Rejected
  <2>2. CASE status[i] = "processing" /\ AfterFailure(w, i) = "dead_letter"
    <3>1. status' = [status EXCEPT ![i] = "dead_letter"]
      BY <1>6, <2>2 DEF Rejected
    <3>2. Outcome' = [Outcome EXCEPT ![i] = "given_up"]
      BY <3>1 DEF Outcome
    <3>3. Promise!IsHead(i)
      BY <2>2, ReachedIsHead DEF Reached, Active
    <3>4. Promise!GiveUp(i)
      BY <2>1, <3>2, <3>3 DEF Promise!GiveUp
    <3>5. QED
      BY <3>4 DEF Promise!Next
  <2>3. CASE ~(status[i] = "processing" /\ AfterFailure(w, i) = "dead_letter")
    <3>1. \/ status' = status
          \/ status[i] = "processing" /\ status' = [status EXCEPT ![i] = "failed"]
      BY <1>6, <2>3 DEF Rejected, AfterFailure
    <3>2. Outcome' = Outcome
      BY <3>1 DEF Outcome
    <3>3. PICK S \in SUBSET open[w] : received' = received \cup S
      BY <2>1
    <3>4. Promise!Receive
      BY <2>1, <3>2, <3>3, ArrivalIsReceive
    <3>5. QED
      BY <3>4 DEF Promise!Next
  <2>4. QED
    BY <2>2, <2>3
<1>7. ASSUME NEW w \in Workers, Crash(w)
      PROVE  Promise!Next
  <2>1. PICK S \in SUBSET open[w] : received' = received \cup S
    BY <1>7 DEF Crash
  <2>2. UNCHANGED <<tenant, status>>
    BY <1>7 DEF Crash, rowVars
  <2>3. Outcome' = Outcome
    BY <2>2 DEF Outcome
  <2>4. Promise!Receive
    BY <2>1, <2>2, <2>3, ArrivalIsReceive
  <2>5. QED
    BY <2>4 DEF Promise!Next
<1>8. CASE UNCHANGED vars
  <2>1. UNCHANGED <<tenant, status, received>>
    BY <1>8 DEF vars, rowVars, world
  <2>2. Outcome' = Outcome
    BY <2>1 DEF Outcome
  <2>3. QED
    BY <2>1, <2>2 DEF Promise!vars
<1>9. QED
  BY <1>1, <1>2, <1>3, <1>4, <1>5, <1>6, <1>7, <1>8, NextCases

\* The outbox implements ordered at-least-once delivery, for any number of
\* tenants, workers, crashes and leases that expire under a live delivery.
THEOREM PromiseIsKept == Spec => ImplementsPromise
<1>1. Spec => []Timely
  <2>1. CASE MaxStalls = 0
    <3>1. Spec => []Owned
      BY <2>1, OwnedAlways
    <3>2. Owned => Timely
      BY DEF Timely
    <3>3. QED
      BY <3>1, <3>2, PTL
  <2>2. CASE MaxStalls # 0
    <3>1. Timely
      BY <2>2 DEF Timely
    <3>2. QED
      BY <3>1, PTL
  <2>3. QED
    BY <2>1, <2>2
<1>2. Spec => []Shape /\ []Ordered
  BY OrderedInit, OrderedStep, ShapeAlways, PTL DEF Spec
<1>3. QED
  BY <1>1, <1>2, DeliveredMeansReceived, PromiseInit, PromiseStep, PTL
  DEF Spec, ImplementsPromise, Promise!Spec

----------------------------------------------------------------------------
(* Attempts *)

\* Where a worker holds rows: between rounds nowhere, while it claims only in
\* `claims`, and never a row that it is still to claim.
Places ==
    \A w \in Workers :
        /\ claims[w] \cap open[w] = {}
        /\ picked[w] \cap Held(w) = {}
        /\ pc[w] \in {"idle", "select"} => Held(w) = {}
        /\ pc[w] = "claim" => open[w] = {}

\* A row that has not been queued was never tried.
Untried == \A i \in Ids : status[i] = "none" => attempts[i] = 0

\* No two workers remember the same attempt of a row.
Distinct ==
    \A v, w \in Workers, i \in Ids :
        i \in Held(v) \cap Held(w) /\ v # w => attemptOf[v][i] # attemptOf[w][i]

Attempted == Shape /\ Places /\ Untried /\ Distinct

\* What every step but a successful claim does to the rows in hand.
Kept ==
    /\ attempts' = attempts
    /\ \A w \in Workers, i \in Ids :
           i \in Held(w)' => i \in Held(w) /\ attemptOf'[w][i] = attemptOf[w][i]

\* A claim whose UPDATE finds its row.
Takes(w, i) == Claim(w, i) /\ Claimable(i)

\* Workers hold rows in the same places after each step.
LEMMA PlacesStep == Shape /\ Places /\ [Next]_vars => Places'
<1> SUFFICES ASSUME Shape, Places, [Next]_vars PROVE Places'
  OBVIOUS
<1> USE DEF Held
<1>1. TypeOK
  BY DEF Shape
<1>2. ASSUME UNCHANGED <<pc, picked, claims, open>> PROVE Places'
  BY <1>2 DEF Places
<1>3. ASSUME NEW w \in Workers, StartDispatch(w) PROVE Places'
  BY <1>1, <1>3 DEF StartDispatch, Places, TypeOK
<1>4. ASSUME NEW w \in Workers, Select(w) PROVE Places'
  BY <1>1, <1>4 DEF Select, Continue, Places, TypeOK
<1>5. ASSUME NEW w \in Workers, NEW i \in Ids, Claim(w, i) PROVE Places'
  BY <1>1, <1>5 DEF Claim, AfterClaim, Continue, Places, TypeOK
<1>6. ASSUME NEW w \in Workers, StartBatch(w) PROVE Places'
  BY <1>1, <1>6, FirstIdsSubset DEF StartBatch, Places, TypeOK
<1>7. ASSUME NEW w \in Workers, NEW i \in Ids, Accepted(w, i) \/ Rejected(w, i)
      PROVE  Places'
  <2>1. i \in open[w] /\ UNCHANGED <<picked, claims>> /\ pc[w] \notin {"idle", "select", "claim"}
    BY <1>1, <1>7 DEF Accepted, Rejected, Places
  <2>2. PICK failed : RequestDone(w, i, failed)
    BY <1>7 DEF Accepted, Rejected
  <2>3. pc' = [pc EXCEPT ![w] = IF Held(w) # {i} THEN "post"
                   ELSE IF results[w] + 1 < Limit THEN "select" ELSE "idle"]
        /\ open' = [open EXCEPT ![w] = @ \ {i}]
    BY <2>2 DEF RequestDone, Continue
  <2> QED
    BY <1>1, <2>1, <2>3 DEF Places, TypeOK
<1>8. ASSUME NEW w \in Workers, Crash(w) PROVE Places'
  BY <1>1, <1>8 DEF Crash, Places, TypeOK
<1> QED
  BY <1>2, <1>3, <1>4, <1>5, <1>6, <1>7, <1>8, NextCases
  DEF Enqueue, BecomeDue, LeaseExpires, Purge, vars, workerVars

\* Only a successful claim makes attempts or gives a worker a row.
LEMMA KeptByNext ==
  ASSUME Shape, Places, [Next]_vars, \A w \in Workers, i \in Ids : ~Takes(w, i)
  PROVE  Kept
<1> USE DEF Held
<1>1. TypeOK
  BY DEF Shape
<1>2. ASSUME UNCHANGED <<attempts, claims, open, attemptOf>> PROVE Kept
  BY <1>2 DEF Kept
<1>3. ASSUME NEW w \in Workers, StartBatch(w) PROVE Kept
  BY <1>1, <1>3, FirstIdsSubset DEF StartBatch, Kept, TypeOK, rowVars
<1>4. ASSUME NEW w \in Workers, NEW i \in Ids, Accepted(w, i) \/ Rejected(w, i)
      PROVE  Kept
  <2>1. i \in open[w] /\ UNCHANGED <<attempts, claims>>
    BY <1>4 DEF Accepted, Rejected
  <2>2. i \notin claims[w]
    BY <2>1 DEF Places
  <2>3. /\ open' = [open EXCEPT ![w] = @ \ {i}]
        /\ attemptOf' = [attemptOf EXCEPT ![w][i] = 0]
    BY <1>4 DEF Accepted, Rejected, RequestDone
  <2> QED
    BY <1>1, <2>1, <2>2, <2>3 DEF Kept, TypeOK
<1>5. ASSUME NEW w \in Workers, Crash(w) PROVE Kept
  BY <1>1, <1>5 DEF Crash, Kept, TypeOK, rowVars
<1>6. ASSUME NEW w \in Workers, NEW i \in Ids, Claim(w, i) PROVE Kept
  BY <1>2, <1>6 DEF Claim, Takes
<1> QED
  BY <1>2, <1>3, <1>4, <1>5, <1>6, NextCases
  DEF Enqueue, BecomeDue, LeaseExpires, Purge, StartDispatch, Select, vars,
      workerVars, rowVars

\* A successful claim makes one attempt of its row, which its worker remembers.
LEMMA TakeAttempts ==
  ASSUME Shape, Places, NEW w \in Workers, NEW i \in Ids, Takes(w, i)
  PROVE  /\ i \notin Held(w)
         /\ attempts' = [attempts EXCEPT ![i] = attempts[i] + 1]
         /\ i \in Held(w)' /\ attemptOf'[w][i] = attempts[i] + 1
         /\ \A v \in Workers, j \in Ids :
                v # w \/ j # i => /\ j \in Held(v)' <=> j \in Held(v)
                                  /\ attemptOf'[v][j] = attemptOf[v][j]
<1>1. TypeOK
  BY DEF Shape
<1> QED
  BY <1>1 DEF Takes, Claim, Places, Held, TypeOK

\* No step but Enqueue makes a row, and rows that exist remain.
LEMMA RowsOfNext ==
  ASSUME Shape, [Next]_vars, NEW i \in Ids, status'[i] = "none"
  PROVE  status[i] = "none"
<1>1. TypeOK
  BY DEF Shape
<1>2. ASSUME NEW w \in Workers, NEW j \in Ids, Rejected(w, j)
      PROVE  status[i] = "none"
  BY <1>1, <1>2 DEF Rejected, AfterFailure, TypeOK
<1>3. ASSUME NEW w \in Workers, NEW j \in Ids, Accepted(w, j) \/ Claim(w, j)
      PROVE  status[i] = "none"
  BY <1>1, <1>3 DEF Accepted, Claim, TypeOK
<1>4. ASSUME NEW t \in Tenants, NEW k \in Keys \cup {NoKey}, Enqueue(t, k)
      PROVE  status[i] = "none"
  BY <1>1, <1>4 DEF Enqueue, TypeOK
<1>5. ASSUME NEW w \in Workers, StartDispatch(w) PROVE status[i] = "none"
  BY <1>1, <1>5 DEF StartDispatch, TypeOK
<1> QED
  BY <1>2, <1>3, <1>4, <1>5, NextCases
  DEF BecomeDue, LeaseExpires, Purge, Select, StartBatch, Crash, vars, rowVars

\* Attempts and what workers remember of them agree.
LEMMA AttemptedStep == Attempted /\ [Next]_vars => Attempted'
<1> SUFFICES ASSUME Attempted, [Next]_vars PROVE Attempted'
  OBVIOUS
<1>1. Shape /\ Shape' /\ Places /\ Places' /\ TypeOK
  BY ShapeStep, PlacesStep DEF Attempted, Shape
<1>2. CASE \A w \in Workers, i \in Ids : ~Takes(w, i)
  <2>1. Kept
    BY <1>1, <1>2, KeptByNext
  <2>2. Untried'
    BY <1>1, <2>1, RowsOfNext DEF Attempted, Untried, Kept
  <2>3. Distinct'
    BY <2>1 DEF Attempted, Distinct, Kept
  <2> QED
    BY <1>1, <2>2, <2>3 DEF Attempted
<1>3. ASSUME NEW w \in Workers, NEW i \in Ids, Takes(w, i) PROVE Attempted'
  <2>1. status[i] # "none" /\ attempts[i] \in Nat
    BY <1>1, <1>3 DEF Takes, Claimable, TypeOK
  <2>2. Untried'
    BY <1>1, <1>3, <2>1, RowsOfNext, TakeAttempts DEF Attempted, Untried, TypeOK
  <2>3. \A v \in Workers : attemptOf[v][i] # attempts[i] + 1
    BY <1>1, <2>1 DEF Shape, AttemptsRemembered, TypeOK
  <2>4. Distinct'
    BY <1>1, <1>3, <2>3, TakeAttempts DEF Attempted, Distinct
  <2> QED
    BY <1>1, <2>2, <2>4 DEF Attempted
<1> QED
  BY <1>2, <1>3

\* Nothing has been tried at first.
LEMMA AttemptedInit == Init => Attempted
<1> SUFFICES ASSUME Init PROVE Attempted
  OBVIOUS
<1>1. Places /\ Untried /\ Distinct
  BY DEF Init, Places, Untried, Distinct, Held
<1> QED
  BY <1>1, ShapeInit DEF Attempted

\* Workers that lost the row to a later claim and could still write `failed`
\* over it, since outcomes are guarded by the status only.
Stale(i) ==
    {w \in Workers : /\ i \in Held(w)
                     /\ attemptOf[w][i] < attempts[i]
                     /\ attemptOf[w][i] < MaxAttempts}

\* The last claim of the row is still in hand.
Current(i) == \E w \in Workers : i \in Held(w) /\ attemptOf[w][i] = attempts[i]

\* The row can be claimed, now or when its lease has expired.
Free(i) ==
    \/ status[i] \in {"pending", "failed"}
    \/ status[i] = "processing" /\ (expired[i] \/ ~Current(i))

\* A claim of the row would go over the limit, or make one more worker stale.
Risk(i) ==
    IF Free(i) /\ (attempts[i] >= MaxAttempts \/ Current(i)) THEN 1 ELSE 0

Larger(a, b) == IF a >= b THEN a ELSE b

\* What the row may still cost: an attempt for each stale worker, and one for
\* a claim at risk.
Cost(i) == Cardinality(Stale(i)) + Risk(i)

Faults == crashes + stalls

\* Attempts over the limit, made or to come, are paid for by faults.
Budget ==
    \A i \in Ids :
        Larger(attempts[i], MaxAttempts) + Cost(i) <= MaxAttempts + Faults

\* The parts of the budget are numbers.
Numbers ==
    /\ Faults \in Nat
    /\ \A i \in Ids : /\ attempts[i] \in Nat
                      /\ IsFiniteSet(Stale(i)) /\ Cardinality(Stale(i)) \in Nat
                      /\ Risk(i) \in {0, 1}
                      /\ Cost(i) \in Nat

\* They are, in every well-typed state.
LEMMA BudgetNumbers == TypeOK => Numbers
<1> SUFFICES ASSUME TypeOK PROVE Numbers
  OBVIOUS
<1>1. Faults \in Nat
  BY DEF TypeOK, Faults
<1>2. ASSUME NEW i \in Ids
      PROVE  /\ attempts[i] \in Nat
             /\ IsFiniteSet(Stale(i)) /\ Cardinality(Stale(i)) \in Nat
             /\ Risk(i) \in {0, 1}
             /\ Cost(i) \in Nat
  <2>1. IsFiniteSet(Stale(i))
    BY FS_Subset, OutboxConstants DEF Stale
  <2>2. Cardinality(Stale(i)) \in Nat
    BY <2>1, FS_CardinalityType
  <2>3. Risk(i) \in {0, 1}
    BY DEF Risk
  <2> QED
    BY <2>1, <2>2, <2>3 DEF Cost, TypeOK
<1> QED
  BY <1>1, <1>2 DEF Numbers

\* They stay numbers.
LEMMA BudgetNumbersNext == TypeOK' => Numbers'
  BY BudgetNumbers, PTL

\* Without a claim no worker becomes stale or current.
LEMMA StaleShrinks ==
  ASSUME Kept, NEW i \in Ids
  PROVE  Stale(i)' \subseteq Stale(i) /\ (Current(i)' => Current(i))
  BY DEF Kept, Stale, Current

\* Faults are only counted up.
LEMMA FaultsGrow ==
  ASSUME TypeOK, [Next]_vars
  PROVE  Faults' >= Faults
<1>1. crashes \in Nat /\ stalls \in Nat
  BY DEF TypeOK
<1>2. \/ UNCHANGED <<crashes, stalls>>
      \/ crashes' = crashes /\ stalls' = stalls + 1
      \/ crashes' = crashes + 1 /\ stalls' = stalls
  BY NextCases
  DEF vars, world, Enqueue, BecomeDue, LeaseExpires, Purge, StartDispatch, Select,
      Claim, StartBatch, Accepted, Rejected, Crash
<1> QED
  BY <1>1, <1>2 DEF Faults

\* A row that was safe becomes free by being queued, a failure, or a fault.
LEMMA FreedByNext ==
  ASSUME Attempted, [Next]_vars, Kept, NEW i \in Ids, Free(i)', ~Free(i)
  PROVE  \/ status[i] = "none"
         \/ \E w \in Workers : Rejected(w, i) /\ status'[i] = "failed"
         \/ Faults' = Faults + 1
<1>1. TypeOK /\ Places /\ attempts' = attempts
  BY DEF Attempted, Shape, Kept
<1>2. ASSUME status'[i] = status[i], expired'[i] = expired[i],
             \A w \in Workers : i \in Held(w) /\ attemptOf[w][i] = attempts[i] =>
                                    i \in Held(w)' /\ attemptOf'[w][i] = attemptOf[w][i]
      PROVE  FALSE
  BY <1>1, <1>2 DEF Free, Current
<1>3. ASSUME UNCHANGED <<status, expired, claims, open, attemptOf>> PROVE FALSE
  BY <1>2, <1>3 DEF Held
<1>4. ASSUME NEW t \in Tenants, NEW k \in Keys \cup {NoKey}, Enqueue(t, k)
      PROVE  status[i] = "none"
  BY <1>1, <1>2, <1>4 DEF Enqueue, Held, workerVars, TypeOK
<1>5. ASSUME NEW j \in Ids, LeaseExpires(j) PROVE Faults' = Faults + 1
  <2>1. CASE \E w \in Workers : j \in Held(w)
    <3>1. stalls' = stalls + 1 /\ crashes' = crashes
      BY <1>5, <2>1 DEF LeaseExpires
    <3>2. crashes \in Nat /\ stalls \in Nat
      BY <1>1 DEF TypeOK
    <3> QED
      BY <3>1, <3>2 DEF Faults
  <2>2. CASE \A w \in Workers : j \notin Held(w)
    <3>1. CASE j = i
      BY <1>5, <2>2, <3>1 DEF LeaseExpires, Free, Current
    <3>2. CASE j # i
      BY <1>1, <1>2, <1>5, <3>2 DEF LeaseExpires, workerVars, Held, TypeOK
    <3> QED
      BY <3>1, <3>2
  <2> QED
    BY <2>1, <2>2
<1>6. ASSUME NEW w \in Workers, StartDispatch(w) PROVE FALSE
  <2>1. i \notin Reclaimable
    BY DEF Reclaimable, Free
  <2> QED
    BY <1>1, <1>2, <1>6, <2>1 DEF StartDispatch, Held, TypeOK
<1>7. ASSUME NEW w \in Workers, StartBatch(w) PROVE FALSE
  <2>1. \A v \in Workers : Held(v)' = Held(v)
    BY <1>1, <1>7, FirstIdsSubset DEF StartBatch, Held, TypeOK
  <2> QED
    BY <1>2, <1>7, <2>1 DEF StartBatch, rowVars
<1>8. ASSUME NEW w \in Workers, NEW j \in Ids, Claim(w, j) PROVE FALSE
  <2>1. attempts[j] + 1 # attempts[j]
    BY <1>1 DEF TypeOK
  <2>2. ~Claimable(j)
    BY <1>1, <1>8, <2>1, TakeAttempts DEF Takes, Attempted, TypeOK
  <2> QED
    BY <1>3, <1>8, <2>2 DEF Claim
<1>9. ASSUME NEW w \in Workers, NEW j \in Ids, Accepted(w, j) \/ Rejected(w, j)
      PROVE  Rejected(w, i) /\ status'[i] = "failed"
  <2>1. CASE j # i
    <3>1. status'[i] = status[i] /\ expired'[i] = expired[i]
      BY <1>1, <1>9, <2>1 DEF Accepted, Rejected, TypeOK
    <3>2. \A v \in Workers : i \in Held(v) => /\ i \in Held(v)'
                                              /\ attemptOf'[v][i] = attemptOf[v][i]
      <4>1. /\ claims' = claims
            /\ open' = [open EXCEPT ![w] = @ \ {j}]
            /\ attemptOf' = [attemptOf EXCEPT ![w][j] = 0]
        BY <1>9 DEF Accepted, Rejected, RequestDone
      <4> QED
        BY <1>1, <2>1, <4>1 DEF Held, TypeOK
    <3> QED
      BY <1>2, <3>1, <3>2
  <2>2. CASE j = i /\ status[i] = "processing"
    BY <1>1, <1>9, <2>2 DEF Accepted, Rejected, AfterFailure, Free, TypeOK
  <2>3. CASE j = i /\ status[i] # "processing"
    BY <1>9, <2>3 DEF Accepted, Rejected, Free
  <2> QED
    BY <2>1, <2>2, <2>3
<1>10. ASSUME NEW w \in Workers, Crash(w) PROVE Faults' = Faults + 1
  <2>1. crashes \in Nat /\ stalls \in Nat
    BY <1>1 DEF TypeOK
  <2> QED
    BY <1>10, <2>1 DEF Crash, Faults
<1> QED
  BY <1>3, <1>4, <1>5, <1>6, <1>7, <1>8, <1>9, <1>10, NextCases
  DEF BecomeDue, Purge, Select, vars, workerVars, rowVars

\* A failure takes its worker from the stale ones, or leaves attempts.
LEMMA FailureKeepsBudget ==
  ASSUME Attempted, Kept, NEW i \in Ids, NEW w \in Workers,
         Rejected(w, i), ~Free(i), status'[i] = "failed"
  PROVE  Risk(i)' = 0 \/ (w \in Stale(i) /\ w \notin Stale(i)')
<1>1. /\ TypeOK /\ Places /\ attempts'[i] = attempts[i] /\ attempts[i] \in Nat
      /\ attemptOf[w][i] \in Nat
  BY DEF Attempted, Shape, Kept, TypeOK
<1>2. i \in Held(w) /\ attemptOf[w][i] <= attempts[i]
  BY DEF Rejected, Held, Attempted, Shape, AttemptsRemembered
<1>3. attemptOf[w][i] < MaxAttempts
  <2>1. status[i] # "failed"
    BY DEF Free
  <2>2. AfterFailure(w, i) = "failed"
    BY <1>1, <2>1 DEF Rejected, TypeOK
  <2> QED
    BY <1>1, <2>2, OutboxConstants DEF AfterFailure
<1>4. i \notin Held(w)'
  BY <1>1 DEF Rejected, RequestDone, Held, Places, TypeOK
<1>5. CASE attemptOf[w][i] < attempts[i]
  BY <1>2, <1>3, <1>4, <1>5 DEF Stale
<1>6. CASE attemptOf[w][i] = attempts[i]
  <2>1. ~Current(i)'
    BY <1>1, <1>2, <1>4, <1>6 DEF Kept, Current, Attempted, Distinct
  <2>2. ~(attempts'[i] >= MaxAttempts)
    BY <1>1, <1>3, <1>6, OutboxConstants
  <2> QED
    BY <2>1, <2>2 DEF Risk
<1> QED
  BY <1>1, <1>2, <1>5, <1>6

\* Steps other than claims keep the cost of a row, or are a fault.
LEMMA CostKept ==
  ASSUME Attempted, Attempted', [Next]_vars, Kept, NEW i \in Ids
  PROVE  \/ Cost(i)' <= Cost(i)
         \/ Cost(i)' <= Cost(i) + 1 /\ Faults' = Faults + 1
<1> DEFINE c == Cardinality(Stale(i))
           r == Risk(i)
           after == Cardinality(Stale(i)')
           risk == Risk(i)'
<1>1. TypeOK /\ TypeOK'
  BY DEF Attempted, Shape
<1>2. /\ c \in Nat /\ r \in {0, 1} /\ after \in Nat /\ risk \in {0, 1}
      /\ IsFiniteSet(Stale(i)) /\ IsFiniteSet(Stale(i)')
      /\ attempts[i] \in Nat /\ MaxAttempts \in Nat \ {0}
  BY <1>1, BudgetNumbers, BudgetNumbersNext, OutboxConstants DEF Numbers
<1>3. after <= c
  BY <1>1, <1>2, StaleShrinks, FS_Subset
<1>4. ASSUME risk = 0 \/ r = 1 PROVE after + risk <= c + r
  <2> HIDE DEF c, r, after, risk
  <2> QED
    BY <1>2, <1>3, <1>4
<1>5. ASSUME after + 1 <= c PROVE after + risk <= c + r
  <2> HIDE DEF c, r, after, risk
  <2> QED
    BY <1>2, <1>5
<1>6. after + risk <= c + r + 1
  <2> HIDE DEF c, r, after, risk
  <2> QED
    BY <1>2, <1>3
<1>7. CASE Free(i)' => Free(i)
  <2>1. risk = 0 \/ r = 1
    BY <1>1, <1>7, StaleShrinks DEF Risk, Kept
  <2> QED
    BY <1>4, <2>1 DEF Cost
<1>8. CASE status[i] = "none"
  <2>1. attempts'[i] = 0 /\ ~Current(i)
    BY <1>8 DEF Attempted, Untried, Shape, HeldRowsExist, Current, Kept
  <2>2. ~Current(i)' /\ ~(attempts'[i] >= MaxAttempts)
    BY <1>1, <1>2, <2>1, StaleShrinks
  <2>3. risk = 0
    BY <2>2 DEF Risk
  <2> QED
    BY <1>4, <2>3 DEF Cost
<1>9. ASSUME NEW w \in Workers, Rejected(w, i), status'[i] = "failed", ~Free(i)
      PROVE  Cost(i)' <= Cost(i)
  <2>1. CASE w \in Stale(i) /\ w \notin Stale(i)'
    <3>1. Stale(i)' \in SUBSET (Stale(i) \ {w})
      BY <1>1, <2>1, StaleShrinks
    <3>2. /\ IsFiniteSet(Stale(i) \ {w})
          /\ Cardinality(Stale(i) \ {w}) = c - 1
      BY <1>2, <2>1, FS_RemoveElement
    <3>3. after <= Cardinality(Stale(i) \ {w})
      BY <3>1, <3>2, FS_Subset
    <3>4. after + 1 <= c
      BY <1>2, <3>2, <3>3
    <3> QED
      BY <1>5, <3>4 DEF Cost
  <2>2. CASE risk = 0
    BY <1>4, <2>2 DEF Cost
  <2> QED
    BY <1>1, <1>9, <2>1, <2>2, FailureKeepsBudget
<1>10. CASE Faults' = Faults + 1
  BY <1>6, <1>10 DEF Cost
<1> QED
  BY <1>1, <1>7, <1>8, <1>9, <1>10, FreedByNext

\* Steps other than claims keep the budget of every row.
LEMMA BudgetKept ==
  ASSUME Attempted, Attempted', Budget, [Next]_vars, NEW i \in Ids, Kept
  PROVE  Larger(attempts'[i], MaxAttempts) + Cost(i)' <= MaxAttempts + Faults'
<1> DEFINE n == Larger(attempts[i], MaxAttempts)
<1>1. TypeOK /\ TypeOK'
  BY DEF Attempted, Shape
<1>2. /\ Cost(i) \in Nat /\ Cost(i)' \in Nat /\ Faults \in Nat /\ Faults' \in Nat
      /\ attempts[i] \in Nat /\ MaxAttempts \in Nat
  BY <1>1, BudgetNumbers, BudgetNumbersNext, OutboxConstants DEF Numbers
<1>3. attempts'[i] = attempts[i] /\ n \in Nat /\ n + Cost(i) <= MaxAttempts + Faults
  BY <1>1, <1>2 DEF Kept, Budget, Larger
<1>4. Faults' >= Faults
  BY <1>1, FaultsGrow
<1> HIDE DEF n
<1>5. ASSUME Cost(i)' <= Cost(i)
      PROVE  n + Cost(i)' <= MaxAttempts + Faults'
  BY <1>2, <1>3, <1>4, <1>5
<1>6. ASSUME Cost(i)' <= Cost(i) + 1, Faults' = Faults + 1
      PROVE  n + Cost(i)' <= MaxAttempts + Faults'
  BY <1>2, <1>3, <1>6
<1>7. n + Cost(i)' <= MaxAttempts + Faults'
  BY <1>1, <1>5, <1>6, CostKept
<1> QED
  BY <1>3, <1>7 DEF n

\* A claim that goes over the limit, or makes a worker stale, was at risk.
LEMMA BudgetTaken ==
  ASSUME Attempted, Attempted', Budget, NEW w \in Workers, NEW i \in Ids,
         Takes(w, i)
  PROVE  Larger(attempts'[i], MaxAttempts) + Cost(i)' <= MaxAttempts + Faults
<1> DEFINE c == Cardinality(Stale(i))
           after == Cardinality(Stale(i)')
<1>1. TypeOK /\ TypeOK' /\ Shape /\ Places
  BY DEF Attempted, Shape
<1>2. /\ c \in Nat /\ after \in Nat /\ IsFiniteSet(Stale(i))
      /\ Faults \in Nat
      /\ attempts[i] \in Nat /\ MaxAttempts \in Nat /\ Risk(i) \in {0, 1}
  BY <1>1, BudgetNumbers, BudgetNumbersNext, OutboxConstants DEF Numbers
<1>3. /\ attempts'[i] = attempts[i] + 1
      /\ Larger(attempts[i], MaxAttempts) + (c + Risk(i)) <= MaxAttempts + Faults
  BY <1>1, TakeAttempts DEF Budget, Cost, TypeOK
<1>4. Risk(i)' = 0
  <2>1. Current(i)'
    BY <1>1, <1>3, TakeAttempts DEF Current
  <2>2. status'[i] = "processing" /\ ~expired'[i]
    BY <1>1 DEF Takes, Claim, TypeOK
  <2> QED
    BY <2>1, <2>2 DEF Free, Risk
<1>5. Free(i)
  BY DEF Takes, Claimable, Free
<1>6. \A v \in Workers :
        v \in Stale(i)' <=> /\ i \in Held(v)
                            /\ attemptOf[v][i] <= attempts[i]
                            /\ attemptOf[v][i] < MaxAttempts
  <2> SUFFICES ASSUME NEW v \in Workers
               PROVE  v \in Stale(i)' <=> /\ i \in Held(v)
                                          /\ attemptOf[v][i] <= attempts[i]
                                          /\ attemptOf[v][i] < MaxAttempts
    OBVIOUS
  <2>1. v \in Stale(i)' <=> /\ i \in Held(v)'
                            /\ attemptOf'[v][i] < attempts[i] + 1
                            /\ attemptOf'[v][i] < MaxAttempts
    BY <1>3 DEF Stale
  <2>2. CASE v = w
    BY <1>1, <1>2, <2>1, <2>2, TakeAttempts
  <2>3. CASE v # w
    <3>1. attemptOf[v][i] \in Nat
      BY <1>1 DEF TypeOK
    <3>2. /\ i \in Held(v)' <=> i \in Held(v)
          /\ attemptOf'[v][i] = attemptOf[v][i]
      BY <1>1, <2>3, TakeAttempts
    <3> QED
      BY <1>2, <2>1, <3>1, <3>2
  <2> QED
    BY <2>2, <2>3
<1>7. after \in Nat /\ Cost(i)' = after
  BY <1>2, <1>4 DEF Cost
<1>8. CASE attempts[i] >= MaxAttempts
  <2>1. Risk(i) = 1
    BY <1>5, <1>8 DEF Risk
  <2>2. \A v \in Workers : v \in Stale(i)' <=> v \in Stale(i)
    <3> SUFFICES ASSUME NEW v \in Workers
                 PROVE  v \in Stale(i)' <=> v \in Stale(i)
      OBVIOUS
    <3>1. attemptOf[v][i] \in Nat
      BY <1>1 DEF TypeOK
    <3> QED
      BY <1>2, <1>6, <1>8, <3>1 DEF Stale
  <2>3. after = c
    BY <2>2 DEF Stale
  <2>4. /\ Larger(attempts'[i], MaxAttempts) = attempts[i] + 1
        /\ Larger(attempts[i], MaxAttempts) = attempts[i]
    BY <1>2, <1>3, <1>8 DEF Larger
  <2> HIDE DEF c, after
  <2>5. attempts[i] + 1 + after <= MaxAttempts + Faults
    BY <1>2, <1>3, <2>1, <2>3, <2>4
  <2> QED
    BY <1>7, <2>4, <2>5
<1>9. ASSUME attempts[i] < MaxAttempts, after <= c + Risk(i)
      PROVE  Larger(attempts'[i], MaxAttempts) + Cost(i)' <= MaxAttempts + Faults
  <2>1. /\ Larger(attempts'[i], MaxAttempts) = MaxAttempts
        /\ Larger(attempts[i], MaxAttempts) = MaxAttempts
    BY <1>2, <1>3, <1>9 DEF Larger
  <2> HIDE DEF c, after
  <2>2. MaxAttempts + after <= MaxAttempts + Faults
    BY <1>2, <1>3, <1>7, <1>9, <2>1
  <2> QED
    BY <1>7, <2>1, <2>2
<1>10. CASE attempts[i] < MaxAttempts /\ Current(i)
  <2>1. Risk(i) = 1
    BY <1>5, <1>10 DEF Risk
  <2>2. PICK v \in Workers : i \in Held(v) /\ attemptOf[v][i] = attempts[i]
    BY <1>10 DEF Current
  <2>3. \A u \in Workers : u \in Stale(i)' <=> u \in Stale(i) \/ u = v
    <3> SUFFICES ASSUME NEW u \in Workers
                 PROVE  u \in Stale(i)' <=> u \in Stale(i) \/ u = v
      OBVIOUS
    <3>1. attemptOf[u][i] \in Nat
      BY <1>1 DEF TypeOK
    <3>2. u # v /\ i \in Held(u) => attemptOf[u][i] # attempts[i]
      BY <2>2 DEF Attempted, Distinct
    <3> QED
      BY <1>2, <1>6, <1>10, <2>2, <3>1, <3>2 DEF Stale
  <2>4. Stale(i)' = Stale(i) \cup {v}
    BY <2>3 DEF Stale
  <2>5. Cardinality(Stale(i) \cup {v}) \in {c, c + 1}
    BY <1>2, FS_AddElement
  <2>6. after \in {c, c + 1}
    BY <2>4, <2>5
  <2>7. after <= c + Risk(i)
    <3> HIDE DEF c, after
    <3> QED
      BY <1>2, <2>1, <2>6
  <2> QED
    BY <1>9, <1>10, <2>7
<1>11. CASE attempts[i] < MaxAttempts /\ ~Current(i)
  <2>1. \A u \in Workers : u \in Stale(i)' <=> u \in Stale(i)
    <3> SUFFICES ASSUME NEW u \in Workers
                 PROVE  u \in Stale(i)' <=> u \in Stale(i)
      OBVIOUS
    <3>1. attemptOf[u][i] \in Nat
      BY <1>1 DEF TypeOK
    <3>2. i \in Held(u) => attemptOf[u][i] # attempts[i]
      BY <1>11 DEF Current
    <3> QED
      BY <1>2, <1>6, <3>1, <3>2 DEF Stale
  <2>2. after = c
    BY <2>1 DEF Stale
  <2>3. after <= c + Risk(i)
    <3> HIDE DEF c, after
    <3> QED
      BY <1>2, <2>2
  <2> QED
    BY <1>9, <1>11, <2>3
<1> QED
  BY <1>2, <1>8, <1>10, <1>11

\* A claim does not touch other rows.
LEMMA BudgetOfOthers ==
  ASSUME Attempted, Budget, NEW w \in Workers, NEW j \in Ids, Takes(w, j),
         NEW i \in Ids, i # j
  PROVE  Larger(attempts'[i], MaxAttempts) + Cost(i)' <= MaxAttempts + Faults
<1>1. TypeOK /\ Shape /\ Places
  BY DEF Attempted, Shape
<1>2. /\ attempts'[i] = attempts[i] /\ status'[i] = status[i]
      /\ expired'[i] = expired[i]
  BY <1>1 DEF Takes, Claim, TypeOK
<1>3. \A v \in Workers : /\ i \in Held(v)' <=> i \in Held(v)
                         /\ attemptOf'[v][i] = attemptOf[v][i]
  BY <1>1, TakeAttempts
<1>4. Stale(i)' = Stale(i) /\ (Current(i)' <=> Current(i))
  BY <1>2, <1>3 DEF Stale, Current
<1>5. Risk(i)' = Risk(i)
  BY <1>2, <1>4 DEF Free, Risk
<1> QED
  BY <1>2, <1>4, <1>5 DEF Budget, Cost

\* Every step keeps the budget.
LEMMA BudgetStep == Attempted /\ Attempted' /\ Budget /\ [Next]_vars => Budget'
<1> SUFFICES ASSUME Attempted, Attempted', Budget, [Next]_vars, NEW i \in Ids
             PROVE  Larger(attempts'[i], MaxAttempts) + Cost(i)'
                        <= MaxAttempts + Faults'
  BY DEF Budget, Larger
<1>1. CASE \A w \in Workers, j \in Ids : ~Takes(w, j)
  BY <1>1, KeptByNext, BudgetKept DEF Attempted
<1>2. ASSUME NEW w \in Workers, NEW j \in Ids, Takes(w, j)
      PROVE  Larger(attempts'[i], MaxAttempts) + Cost(i)' <= MaxAttempts + Faults'
  <2>1. Faults' = Faults
    BY <1>2 DEF Takes, Claim, world, Faults
  <2>2. CASE i = j
    BY <1>2, <2>1, <2>2, BudgetTaken
  <2>3. CASE i # j
    BY <1>2, <2>1, <2>3, BudgetOfOthers
  <2> QED
    BY <2>2, <2>3
<1> QED
  BY <1>1, <1>2

\* No row has been tried at first.
LEMMA BudgetInit == Init => Budget
<1> SUFFICES ASSUME Init, NEW i \in Ids
             PROVE  Larger(attempts[i], MaxAttempts) + Cost(i)
                        <= MaxAttempts + Faults
  BY DEF Budget
<1>1. Stale(i) = {} /\ Risk(i) = 0
  BY DEF Init, Stale, Risk, Free, Held
<1>2. Cardinality(Stale(i)) = 0
  BY <1>1, FS_EmptySet
<1>3. attempts[i] = 0 /\ crashes = 0 /\ stalls = 0
  BY DEF Init
<1> QED
  BY <1>1, <1>2, <1>3, OutboxConstants DEF Larger, Cost, Faults

\* Attempts never exceed the configured maximum by more than the crashes and
\* stalls that took one without an outcome, although a stale worker may write
\* `failed` over a row that another one has claimed (claim() and the guarded
\* UPDATEs of the outcomes).
THEOREM AttemptsAreBounded == Spec => []AttemptsWithinBudget
<1>1. Attempted /\ Budget => AttemptsWithinBudget
  <2> SUFFICES ASSUME Attempted, Budget, NEW i \in Ids
               PROVE  attempts[i] <= MaxAttempts + crashes + stalls
    BY DEF AttemptsWithinBudget
  <2> DEFINE n == Larger(attempts[i], MaxAttempts)
  <2>1. attempts[i] \in Nat /\ MaxAttempts \in Nat /\ Cost(i) \in Nat /\ Faults \in Nat
    BY BudgetNumbers, OutboxConstants DEF Attempted, Shape, Numbers
  <2>2. n + Cost(i) <= MaxAttempts + Faults
    BY DEF Budget
  <2>3. n \in Nat /\ attempts[i] <= n
    BY <2>1 DEF Larger
  <2> HIDE DEF n
  <2>4. attempts[i] <= MaxAttempts + Faults
    BY <2>1, <2>2, <2>3
  <2>5. crashes \in Nat /\ stalls \in Nat
    BY DEF Attempted, Shape, TypeOK
  <2> QED
    BY <2>1, <2>4, <2>5 DEF Faults
<1> QED
  BY <1>1, AttemptedInit, BudgetInit, AttemptedStep, BudgetStep, PTL DEF Spec

=============================================================================
