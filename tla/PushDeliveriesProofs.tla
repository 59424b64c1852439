------------------------ MODULE PushDeliveriesProofs ------------------------
(***************************************************************************)
(* Theorems about the notification outbox.  Events, endpoints, users,      *)
(* attempts, changes and faults are arbitrary; dispatchers are finite.     *)
(***************************************************************************)
EXTENDS PushDeliveries, FiniteSetTheorems, TLAPS

----------------------------------------------------------------------------
(* Types *)

\* What finalizePushEvent() writes is a status of a closed event.
LEMMA VerdictCloses ==
  ASSUME NEW e \in Events, NEW st
  PROVE  Verdict(e, st) \in Closed
  BY DEF Verdict, Closed

\* A delivery is a pair of an event and an endpoint, and there is one.
LEMMA NothingIsDelivery == Nothing \in Deliveries
<1>1. PICK e \in Events, s \in Subs : TRUE
  BY PushConstants
<1>2. <<e, s>> \in Deliveries
  BY DEF Deliveries
<1> QED
  BY <1>2 DEF Nothing

\* Deleting a subscription keeps the types of rows and events.
LEMMA DeleteType ==
  ASSUME TypeOK, NEW s \in Subs, Delete(s)
  PROVE  /\ event' \in [Events -> Closed \cup {"none", "pending"}]
         /\ status' \in [Deliveries -> Remaining \cup
                            {"none", "delivered", "dead_letter", "skipped"}]
<1>1. \A e \in Events : Finalized(e, status') \in Closed \cup {"none", "pending"}
  BY VerdictCloses DEF TypeOK, Finalized
<1>2. event' \in [Events -> Closed \cup {"none", "pending"}]
  BY <1>1 DEF Delete, TypeOK
<1>3. status' \in [Deliveries -> Remaining \cup
                      {"none", "delivered", "dead_letter", "skipped"}]
  BY DEF Delete, Cascade, TypeOK
<1> QED
  BY <1>2, <1>3

\* Every step keeps the types.
LEMMA TypeStep == TypeOK /\ [Next]_vars => TypeOK'
<1> SUFFICES ASSUME TypeOK, [Next]_vars PROVE TypeOK'
  OBVIOUS
<1>0. Change => changes' \in 0..MaxChanges
  BY PushConstants DEF TypeOK, Change
<1> USE DEF subscriptions, table, memory, world
<1>1. ASSUME NEW e \in Events, Enqueue(e) PROVE TypeOK'
  BY <1>1 DEF Enqueue, TypeOK, Closed, Remaining
<1>2. ASSUME NEW e \in Events, Maintain(e) PROVE TypeOK'
  BY <1>2, VerdictCloses DEF Maintain, TypeOK
<1>3. ASSUME NEW s \in Subs, Remove(s) PROVE TypeOK'
  BY <1>0, <1>3, DeleteType DEF Remove, TypeOK
<1>4. ASSUME NEW s \in Subs, Expire(s) PROVE TypeOK'
  BY <1>0, <1>4 DEF Expire, Cascade, TypeOK
<1>5. ASSUME NEW s \in Subs, ChangeEntitlement(s) PROVE TypeOK'
  BY <1>0, <1>5 DEF ChangeEntitlement, TypeOK
<1>6. ASSUME NEW s \in Subs, NEW u \in Users, Register(s, u) PROVE TypeOK'
  BY <1>0, <1>6, DeleteType DEF Register, TypeOK
<1>7. ASSUME NEW w \in Dispatchers, Work(w) PROVE TypeOK'
  <2>1. job[w] \in Deliveries /\ job[w][2] \in Subs /\ job[w][1] \in Events
    BY DEF TypeOK, Deliveries
  <2>2. CASE Recheck(w)
    BY <2>2, NothingIsDelivery DEF Recheck, Return, Goto, TypeOK
  <2>3. ASSUME NEW o \in {"skipped", "dead_letter", "delivered"},
               NEW p \in {"noted", "finalize"}, Settle(w, o, p)
        PROVE  TypeOK'
    BY <2>1, <2>3 DEF Settle, Write, Goto, TypeOK
  <2>4. CASE Retry(w)
    BY <2>1, <2>4, NothingIsDelivery
    DEF Retry, SendBack, RetryStatus, Write, Return, Goto, TypeOK, Remaining
  <2>5. CASE Gone(w)
    BY <2>1, <2>5, DeleteType, NothingIsDelivery DEF Gone, Return, Goto, TypeOK
  <2>6. CASE Finalize(w)
    <3>1. Finalized(job[w][1], status) \in Closed \cup {"none", "pending"}
      BY <2>1, VerdictCloses DEF TypeOK, Finalized
    <3> QED
      BY <2>6, <3>1, NothingIsDelivery DEF Finalize, Return, Goto, TypeOK
  <2> QED
    BY <1>7, <2>2, <2>3, <2>4, <2>5, <2>6
    DEF Work, SettleUnsent, Deliver, GiveUp
<1>8. ASSUME NEW w \in Dispatchers, NEW d \in Deliveries, Claim(w, d)
      PROVE  TypeOK'
  BY <1>8 DEF Claim, Goto, TypeOK, Remaining
<1>9. ASSUME NEW d \in Deliveries, BecomeDue(d) PROVE TypeOK'
  BY <1>9 DEF BecomeDue, TypeOK
<1>10. ASSUME NEW d \in Deliveries, LeaseExpires(d) PROVE TypeOK'
  BY <1>10, PushConstants DEF LeaseExpires, TypeOK
<1>11. Accident => accidents' \in 0..MaxFaults
  BY PushConstants DEF TypeOK, Accident
<1>12. CASE Crash
  BY <1>11, <1>12, NothingIsDelivery DEF Crash, TypeOK
<1>13. ASSUME NEW w \in Dispatchers, Abandon(w) PROVE TypeOK'
  BY <1>11, <1>13, NothingIsDelivery DEF Abandon, Return, Goto, TypeOK
<1>14. ASSUME NEW w \in Dispatchers, Overwrite(w) PROVE TypeOK'
  <2>1. job[w] \in Deliveries
    BY DEF TypeOK
  <2>2. reopened' \in [Deliveries -> Nat]
    BY <1>14, <2>1 DEF Overwrite, TypeOK
  <2>3. CASE SendBack(w)
    BY <1>11, <1>14, <2>1, <2>2, <2>3, NothingIsDelivery
    DEF Overwrite, SendBack, RetryStatus, Write, Return, Goto, TypeOK, Remaining
  <2>4. CASE ~SendBack(w)
    BY <1>11, <1>14, <2>1, <2>2, <2>4
    DEF Overwrite, Write, Goto, TypeOK, Remaining
  <2> QED
    BY <2>3, <2>4
<1>15. CASE UNCHANGED vars
  BY <1>15 DEF vars, TypeOK
<1> QED
  BY <1>1, <1>2, <1>3, <1>4, <1>5, <1>6, <1>7, <1>8, <1>9, <1>10, <1>12, <1>13,
     <1>14, <1>15
  DEF Next

\* Init is well-typed.
LEMMA TypeInit == Init => TypeOK
  BY NothingIsDelivery, PushConstants DEF Init, TypeOK, Deliveries

\* Type correctness of the tables of webPush.js and of the memory of its
\* dispatchers.
THEOREM TypeCorrect == Spec => []TypeOK
  BY TypeInit, TypeStep, PTL DEF Spec

----------------------------------------------------------------------------
(* Recipients *)

\* A row belongs to a subscription of the user it was made for.  This is what
\* deleting the rows with their subscription is good for: the re-check looks
\* at rights only, and an endpoint keeps its name when it changes hands.
Addressed ==
    \A d \in Deliveries :
        status[d] # "none" => holder[d[2]] # None /\ meant[d] = holder[d[2]]

\* No step makes a row, but for a new event.
LEMMA RowsOfNext ==
  ASSUME TypeOK, [Next]_vars, \A e \in Events : ~Enqueue(e)
  PROVE  /\ meant' = meant
         /\ \A d \in Deliveries : status[d] = "none" => status'[d] = "none"
<1> USE DEF subscriptions, table, memory, world
<1>1. ASSUME NEW s \in Subs, Delete(s)
      PROVE  \A d \in Deliveries : status[d] = "none" => status'[d] = "none"
  BY <1>1 DEF Delete, Cascade
<1>2. ASSUME NEW w \in Dispatchers, NEW o, Write(w, o)
      PROVE  \A d \in Deliveries : status[d] = "none" => status'[d] = "none"
  BY <1>2 DEF Write, TypeOK
<1>3. ASSUME NEW w \in Dispatchers, Work(w)
      PROVE  /\ meant' = meant
             /\ \A d \in Deliveries : status[d] = "none" => status'[d] = "none"
  <2>1. job[w] \in Deliveries /\ job[w][2] \in Subs
    BY DEF TypeOK, Deliveries
  <2>2. CASE Gone(w)
    BY <1>1, <2>1, <2>2 DEF Gone
  <2>3. CASE Retry(w)
    BY <1>2, <2>3 DEF Retry, SendBack
  <2>4. ASSUME NEW o, NEW p, Settle(w, o, p)
        PROVE  /\ meant' = meant
               /\ \A d \in Deliveries : status[d] = "none" => status'[d] = "none"
    BY <1>2, <2>4 DEF Settle
  <2> QED
    BY <1>3, <2>2, <2>3, <2>4
    DEF Work, Recheck, Finalize, SettleUnsent, Deliver, GiveUp
<1>4. ASSUME NEW w \in Dispatchers, NEW d \in Deliveries, Claim(w, d)
      PROVE  /\ meant' = meant
             /\ \A b \in Deliveries : status[b] = "none" => status'[b] = "none"
  BY <1>4 DEF Claim, Claimable, TypeOK
<1>5. ASSUME NEW s \in Subs, NEW u \in Users, Register(s, u)
      PROVE  /\ meant' = meant
             /\ \A d \in Deliveries : status[d] = "none" => status'[d] = "none"
  BY <1>1, <1>5 DEF Register
<1>6. ASSUME NEW s \in Subs, Remove(s) \/ Expire(s) \/ ChangeEntitlement(s)
      PROVE  /\ meant' = meant
             /\ \A d \in Deliveries : status[d] = "none" => status'[d] = "none"
  BY <1>1, <1>6 DEF Remove, Expire, Cascade, ChangeEntitlement
<1>7. ASSUME NEW w \in Dispatchers, Overwrite(w) \/ Abandon(w)
      PROVE  /\ meant' = meant
             /\ \A d \in Deliveries : status[d] = "none" => status'[d] = "none"
  BY <1>2, <1>7 DEF Overwrite, SendBack, Abandon
<1> QED
  BY <1>3, <1>4, <1>5, <1>6, <1>7
  DEF Next, vars, Maintain, BecomeDue, LeaseExpires, Crash

\* A subscription whose holder changes has no rows, before or afterwards.
LEMMA HandsOfNext ==
  ASSUME TypeOK, Addressed, [Next]_vars, NEW s \in Subs,
         holder'[s] # holder[s]
  PROVE  \A d \in Deliveries : d[2] = s => status'[d] = "none"
<1> USE DEF subscriptions, table, memory, world
<1>1. ASSUME NEW t \in Subs, Delete(t)
      PROVE  \A d \in Deliveries : d[2] = t => status'[d] = "none"
  BY <1>1 DEF Delete, Cascade
<1>2. ASSUME NEW t \in Subs, NEW u \in Users, Register(t, u)
      PROVE  \A d \in Deliveries : d[2] = s => status'[d] = "none"
  <2>1. s = t
    BY <1>2 DEF Register, TypeOK
  <2>2. holder[t] # u
    BY <1>2, <2>1 DEF Register, TypeOK
  <2>3. CASE holder[t] \in {None, u}
    BY <1>2, <2>1, <2>2, <2>3 DEF Register, Addressed
  <2>4. CASE holder[t] \notin {None, u}
    BY <1>1, <1>2, <2>1, <2>4 DEF Register
  <2> QED
    BY <2>3, <2>4
<1>3. ASSUME NEW t \in Subs, Remove(t)
      PROVE  \A d \in Deliveries : d[2] = s => status'[d] = "none"
  BY <1>1, <1>3 DEF Remove, TypeOK
<1>4. ASSUME NEW t \in Subs, Expire(t)
      PROVE  \A d \in Deliveries : d[2] = s => status'[d] = "none"
  BY <1>4 DEF Expire, Cascade, TypeOK
<1>5. ASSUME NEW w \in Dispatchers, Work(w)
      PROVE  \A d \in Deliveries : d[2] = s => status'[d] = "none"
  <2>1. job[w][2] \in Subs
    BY DEF TypeOK, Deliveries
  <2>2. CASE Gone(w)
    BY <1>1, <2>1, <2>2 DEF Gone, TypeOK
  <2> QED
    BY <1>5, <2>2
    DEF Work, Recheck, Finalize, SettleUnsent, Deliver, GiveUp, Settle, Retry
<1> QED
  BY <1>2, <1>3, <1>4, <1>5
  DEF Next, vars, Enqueue, Maintain, ChangeEntitlement, Claim, BecomeDue,
      LeaseExpires, Crash, Overwrite, Abandon

\* Rows stay with the user they were made for.
LEMMA AddressedStep == TypeOK /\ Addressed /\ [Next]_vars => Addressed'
<1> SUFFICES ASSUME TypeOK, Addressed, [Next]_vars, NEW d \in Deliveries,
                    status'[d] # "none"
             PROVE  holder'[d[2]] # None /\ meant'[d] = holder'[d[2]]
  BY DEF Addressed
<1>1. d[2] \in Subs
  BY DEF Deliveries
<1>2. holder'[d[2]] = holder[d[2]]
  BY <1>1, HandsOfNext
<1>3. ASSUME NEW e \in Events, Enqueue(e)
      PROVE  holder[d[2]] # None /\ meant'[d] = holder[d[2]]
  BY <1>1, <1>3 DEF Enqueue, Addressed, TypeOK
<1>4. ASSUME \A e \in Events : ~Enqueue(e)
      PROVE  holder[d[2]] # None /\ meant'[d] = holder[d[2]]
  BY <1>4, RowsOfNext DEF Addressed
<1> QED
  BY <1>2, <1>3, <1>4

\* At first there are no rows.
LEMMA AddressedInit == Init => Addressed
  BY DEF Init, Addressed

\* The provider is called with the row of a subscription whose holder the
\* event was made for, and who is entitled at that moment.
LEMMA SendStep ==
  ASSUME TypeOK, Addressed, [Next]_vars, NEW w \in Dispatchers,
         ~At(w, "send"), pc'[w] = "send"
  PROVE  entitled[job[w][2]] /\ holder[job[w][2]] = meant[job[w]]
<1> USE DEF subscriptions, table, memory, world
<1>1. job[w] \in Deliveries
  BY DEF TypeOK
<1>2. ASSUME NEW v \in Dispatchers, Work(v)
      PROVE  v = w /\ Recheck(w)
  BY <1>2
  DEF Work, Recheck, Gone, Finalize, SettleUnsent, Deliver, GiveUp, Settle, Retry,
      SendBack, Return, Goto, At, TypeOK
<1>3. \E v \in Dispatchers : Work(v)
  <2>1. ASSUME NEW v \in Dispatchers, Overwrite(v) \/ Abandon(v) PROVE FALSE
    BY <2>1 DEF Overwrite, SendBack, Abandon, Return, Goto, At, TypeOK
  <2> QED
    BY <2>1
    DEF Next, vars, Enqueue, Maintain, Remove, Expire, ChangeEntitlement, Register,
        Claim, Goto, BecomeDue, LeaseExpires, Crash, At, TypeOK
<1>4. status[job[w]] # "none" /\ MaySend(job[w])
  BY <1>2, <1>3 DEF Recheck, Return, Goto, At, TypeOK
<1> QED
  BY <1>1, <1>4 DEF MaySend, Eligible, Addressed

\* Every browser notification goes to the user it was made for, while that
\* user may have it: dispatchDelivery() and the cascade of subscriptions.
THEOREM OnlyTheEntitledAreNotified == Spec => SentOnlyToEntitled
<1>1. TypeOK /\ Addressed /\ [Next]_vars =>
        [\A w \in Dispatchers : ~At(w, "send") /\ pc'[w] = "send" =>
           LET d == job[w]
           IN  entitled[d[2]] /\ holder[d[2]] = meant[d]]_vars
  BY SendStep
<1> QED
  BY <1>1, TypeInit, AddressedInit, TypeStep, AddressedStep, PTL
  DEF Spec, SentOnlyToEntitled

----------------------------------------------------------------------------
(* Dispatchers and their rows *)

Working == {"dead", "skip", "validate", "refuse", "spoilt", "send"}

Works(w, d) == pc[w] \in Working /\ job[w] = d

\* The outcome is written, but its dispatcher may still take it back.
Noted(w, d) == At(w, "noted") /\ job[w] = d

\* A row that has not been made was never tried.
Unused ==
    \A d \in Deliveries :
        event[d[1]] = "none" =>
            /\ status[d] = "none"
            /\ attempts[d] = 0
            /\ \A w \in Dispatchers : ~Works(w, d) /\ ~Noted(w, d)

\* A dispatcher remembers an attempt that the row has had ...
Counted ==
    \A w \in Dispatchers, d \in Deliveries :
        Works(w, d) => seen[w] \in 1..attempts[d]

\* ... and no two remember the same.
Distinct ==
    \A v, w \in Dispatchers, d \in Deliveries :
        Works(v, d) /\ Works(w, d) /\ v # w => seen[v] # seen[w]

Attempted == TypeOK /\ Unused /\ Counted /\ Distinct

\* What every step but a claim does to the dispatchers.
Kept ==
    /\ attempts' = attempts
    /\ \A w \in Dispatchers, d \in Deliveries :
           /\ Works(w, d)' => Works(w, d) /\ seen'[w] = seen[w]
           /\ Noted(w, d)' => Works(w, d) \/ Noted(w, d)

\* Only a claim makes attempts or gives a dispatcher a row.
LEMMA KeptByNext ==
  ASSUME TypeOK, [Next]_vars,
         \A w \in Dispatchers, d \in Deliveries : ~Claim(w, d)
  PROVE  Kept
<1> USE DEF subscriptions, table, memory, world
<1>1. ASSUME UNCHANGED <<attempts, memory>> PROVE Kept
  BY <1>1 DEF Kept, Works, Noted, At
<1>2. ASSUME NEW w \in Dispatchers, Work(w) PROVE Kept
  <2>1. ASSUME NEW o, NEW p \in {"noted", "finalize"}, Settle(w, o, p),
               pc[w] \in Working
        PROVE  Kept
    BY <2>1 DEF Settle, Goto, Kept, Works, Noted, At, Working, TypeOK
  <2>2. CASE Recheck(w)
    BY <2>2 DEF Recheck, Return, Goto, At, Kept, Works, Noted, Working, TypeOK
  <2>3. CASE Retry(w) \/ Gone(w) \/ Finalize(w)
    BY <2>3
    DEF Retry, SendBack, Gone, Finalize, Return, Goto, Kept, Works, Noted, At,
        Working, TypeOK
  <2> QED
    BY <1>2, <2>1, <2>2, <2>3 DEF Work, SettleUnsent, Deliver, GiveUp, At, Working
<1>3. CASE Crash
  BY <1>3 DEF Crash, Kept, Works, Noted, At, Working
<1>5. ASSUME NEW w \in Dispatchers, Overwrite(w) \/ Abandon(w) PROVE Kept
  BY <1>5
  DEF Overwrite, SendBack, Abandon, Return, Goto, Kept, Works, Noted, At, Working,
      TypeOK
<1>4. CASE \/ \E e \in Events : Enqueue(e) \/ Maintain(e)
           \/ \E s \in Subs : Remove(s) \/ Expire(s) \/ ChangeEntitlement(s)
           \/ \E s \in Subs, u \in Users : Register(s, u)
           \/ \E d \in Deliveries : BecomeDue(d) \/ LeaseExpires(d)
           \/ UNCHANGED vars
  BY <1>1, <1>4
  DEF Enqueue, Maintain, Remove, Expire, ChangeEntitlement, Register, BecomeDue,
      LeaseExpires, vars
<1> QED
  BY <1>2, <1>3, <1>4, <1>5 DEF Next

\* A claim makes one attempt of one row, and its dispatcher remembers it.
LEMMA ClaimAttempts ==
  ASSUME TypeOK, NEW w \in Dispatchers, NEW d \in Deliveries, Claim(w, d)
  PROVE  /\ \A b \in Deliveries : ~Works(w, b)
         /\ attempts' = [attempts EXCEPT ![d] = attempts[d] + 1]
         /\ Works(w, d)' /\ seen'[w] = attempts[d] + 1
         /\ \A v \in Dispatchers, b \in Deliveries :
                Works(v, b)' => \/ v = w /\ b = d
                                \/ v # w /\ Works(v, b) /\ seen'[v] = seen[v]
         /\ \A v \in Dispatchers, b \in Deliveries :
                Works(v, b) => Works(v, b)' /\ seen'[v] = seen[v]
         /\ \A v \in Dispatchers, b \in Deliveries : Noted(v, b)' => Noted(v, b)
  BY DEF Claim, At, Goto, Works, Noted, Working, TypeOK

\* No step takes an event back.
LEMMA EventsOfNext ==
  ASSUME TypeOK, [Next]_vars, NEW e \in Events, event[e] # "none"
  PROVE  event'[e] # "none"
<1> USE DEF subscriptions, table, memory, world
<1>1. \A f \in Events : \A st : Verdict(f, st) # "none"
  BY VerdictCloses DEF Closed
<1>2. \A st : Finalized(e, st) # "none"
  BY <1>1 DEF Finalized
<1>3. ASSUME NEW s \in Subs, Delete(s) PROVE event'[e] # "none"
  BY <1>2, <1>3 DEF Delete
<1>4. ASSUME NEW w \in Dispatchers, Work(w) PROVE event'[e] # "none"
  <2>1. job[w] \in Deliveries /\ job[w][1] \in Events /\ job[w][2] \in Subs
    BY DEF TypeOK, Deliveries
  <2>2. CASE Gone(w)
    BY <1>3, <2>1, <2>2 DEF Gone
  <2>3. CASE Finalize(w)
    BY <1>2, <2>1, <2>3 DEF Finalize, TypeOK
  <2> QED
    BY <1>4, <2>2, <2>3
    DEF Work, Recheck, SettleUnsent, Deliver, GiveUp, Settle, Retry
<1>5. ASSUME NEW f \in Events, Maintain(f) PROVE event'[e] # "none"
  BY <1>1, <1>5 DEF Maintain, TypeOK
<1>6. ASSUME NEW f \in Events, Enqueue(f) PROVE event'[e] # "none"
  BY <1>6 DEF Enqueue, TypeOK
<1>7. ASSUME NEW s \in Subs, NEW u \in Users, Register(s, u)
      PROVE  event'[e] # "none"
  BY <1>3, <1>7 DEF Register
<1>8. ASSUME NEW s \in Subs, Remove(s) PROVE event'[e] # "none"
  BY <1>3, <1>8 DEF Remove
<1> QED
  BY <1>4, <1>5, <1>6, <1>7, <1>8
  DEF Next, vars, Expire, ChangeEntitlement, Claim, BecomeDue, LeaseExpires, Crash,
      Overwrite, Abandon

\* Counts of attempts and what dispatchers remember of them agree.
LEMMA AttemptedStep == Attempted /\ [Next]_vars => Attempted'
<1> SUFFICES ASSUME Attempted, [Next]_vars PROVE Attempted'
  OBVIOUS
<1>1. TypeOK /\ TypeOK'
  BY TypeStep DEF Attempted
<1>2. CASE \A w \in Dispatchers, d \in Deliveries : ~Claim(w, d)
  <2>1. Kept
    BY <1>1, <1>2, KeptByNext
  <2>2. Counted' /\ Distinct'
    BY <2>1 DEF Kept, Attempted, Counted, Distinct
  <2>3. ASSUME NEW d \in Deliveries, event'[d[1]] = "none"
        PROVE  /\ status'[d] = "none"
               /\ attempts'[d] = 0
               /\ \A w \in Dispatchers : ~Works(w, d)' /\ ~Noted(w, d)'
    <3>1. d[1] \in Events /\ event[d[1]] = "none"
      BY <1>1, <2>3, EventsOfNext DEF Deliveries
    <3>2. status'[d] = "none"
      <4>1. ASSUME NEW e \in Events, Enqueue(e) PROVE status'[d] = "none"
        <5>1. d[1] # e
          BY <1>1, <2>3, <4>1 DEF Enqueue, TypeOK
        <5> QED
          BY <3>1, <4>1, <5>1 DEF Enqueue, Attempted, Unused
      <4> QED
        BY <1>1, <3>1, <4>1, RowsOfNext DEF Attempted, Unused
    <3> QED
      BY <2>1, <3>1, <3>2 DEF Kept, Attempted, Unused
  <2> QED
    BY <1>1, <2>2, <2>3 DEF Attempted, Unused
<1>3. ASSUME NEW w \in Dispatchers, NEW d \in Deliveries, Claim(w, d)
      PROVE  Attempted'
  <2>1. event[d[1]] # "none" /\ event' = event
    BY <1>3 DEF Claim, Claimable, Attempted, Unused
  <2>2. \A b \in Deliveries : b # d => status'[b] = status[b]
    BY <1>1, <1>3 DEF Claim, TypeOK
  <2>3. attempts[d] \in Nat
    BY <1>1 DEF TypeOK
  <2>4. Unused'
    BY <1>1, <1>3, <2>1, <2>2, ClaimAttempts DEF Attempted, Unused, TypeOK
  <2>5. Counted'
    <3> SUFFICES ASSUME NEW v \in Dispatchers, NEW b \in Deliveries, Works(v, b)'
                 PROVE  seen'[v] \in 1..attempts'[b]
      BY DEF Counted
    <3>1. attempts' = [attempts EXCEPT ![d] = attempts[d] + 1]
      BY <1>1, <1>3, ClaimAttempts
    <3>2. CASE v = w /\ b = d
      <4>1. seen'[w] = attempts[d] + 1
        BY <1>1, <1>3, ClaimAttempts
      <4> QED
        BY <1>1, <2>3, <3>1, <3>2, <4>1 DEF TypeOK
    <3>3. CASE ~(v = w /\ b = d)
      <4>1. Works(v, b) /\ seen'[v] = seen[v]
        BY <1>1, <1>3, <3>3, ClaimAttempts
      <4>2. seen[v] \in 1..attempts[b] /\ attempts[b] \in Nat
        BY <1>1, <4>1 DEF Attempted, Counted, TypeOK
      <4> QED
        BY <1>1, <3>1, <4>1, <4>2 DEF TypeOK
    <3> QED
      BY <3>2, <3>3
  <2>6. ASSUME NEW v \in Dispatchers, Works(v, d) PROVE seen[v] # attempts[d] + 1
    BY <2>3, <2>6 DEF Attempted, Counted
  <2>7. Distinct'
    BY <1>1, <1>3, <2>6, ClaimAttempts DEF Attempted, Distinct
  <2> QED
    BY <1>1, <2>4, <2>5, <2>7 DEF Attempted
<1> QED
  BY <1>2, <1>3

\* Nothing has been tried at first.
LEMMA AttemptedInit == Init => Attempted
<1> SUFFICES ASSUME Init PROVE Attempted
  OBVIOUS
<1>1. Unused /\ Counted /\ Distinct
  BY DEF Init, Unused, Counted, Distinct, Works, Noted, At, Working
<1> QED
  BY <1>1, TypeInit DEF Attempted

----------------------------------------------------------------------------
(* Closed events *)

\* As long as leases outlive their dispatchers, a row that somebody works on
\* is theirs, and stays theirs while they note its outcome.
Owned ==
    stalls = 0 =>
        \A w \in Dispatchers, d \in Deliveries :
            /\ Works(w, d) => /\ status[d] \in {"processing", "none"}
                              /\ seen[w] = attempts[d]
                              /\ ~expired[d]
            /\ Noted(w, d) => /\ status[d] \notin Remaining
                              /\ \A v \in Dispatchers \ {w} :
                                     ~Works(v, d) /\ ~Noted(v, d)

\* ClosedEventHasNoWork is inductive with it.
Quiet == Attempted /\ Owned /\ ClosedEventHasNoWork

\* A stall is never taken back.
LEMMA StallsGrow == TypeOK /\ [Next]_vars /\ stalls' = 0 => stalls = 0
  BY DEF Next, vars, subscriptions, table, memory, world, TypeOK, Enqueue,
         Maintain, Remove, Expire, ChangeEntitlement, Register, Work, Recheck,
         SettleUnsent, Deliver, GiveUp, Settle, Retry, Gone, Finalize, Claim,
         BecomeDue, LeaseExpires, Crash, Overwrite, Abandon

\* A row gets work by a new event, by a retry, or by an error that takes its
\* outcome back.
LEMMA WorkOfNext ==
  ASSUME TypeOK, [Next]_vars, NEW d \in Deliveries,
         status[d] \notin Remaining, status'[d] \in Remaining
  PROVE  \/ event[d[1]] = "none" /\ Enqueue(d[1])
         \/ \E w \in Dispatchers : Works(w, d) /\ Retry(w)
         \/ \E w \in Dispatchers : Noted(w, d) /\ Overwrite(w)
<1> USE DEF subscriptions, table, memory, world
<1>1. ASSUME UNCHANGED status PROVE FALSE
  BY <1>1
<1>2. ASSUME NEW s \in Subs, status' = Cascade(s) PROVE FALSE
  BY <1>2 DEF Cascade, Remaining
<1>3. ASSUME NEW w \in Dispatchers, NEW o, Write(w, o)
      PROVE  job[w] = d /\ o \in Remaining
  <2>1. job[w] \in Deliveries
    BY DEF TypeOK
  <2> QED
    BY <1>3, <2>1 DEF Write, TypeOK, Remaining
<1>4. ASSUME NEW w \in Dispatchers, Work(w)
      PROVE  Works(w, d) /\ Retry(w)
  <2>1. CASE Retry(w)
    BY <1>3, <2>1 DEF Retry, SendBack, Works, Working
  <2>2. CASE Recheck(w) \/ Finalize(w)
    BY <1>1, <2>2 DEF Recheck, Finalize
  <2>3. CASE Gone(w)
    <3>1. job[w][2] \in Subs
      BY DEF TypeOK, Deliveries
    <3> QED
      BY <1>1, <1>2, <2>3, <3>1 DEF Gone, Delete
  <2>4. ASSUME NEW p, NEW o \in {"skipped", "dead_letter", "delivered"},
               Settle(w, o, p)
        PROVE  FALSE
    BY <1>3, <2>4 DEF Settle, Remaining
  <2> QED
    BY <1>4, <2>1, <2>2, <2>3, <2>4 DEF Work, SettleUnsent, Deliver, GiveUp
<1>5. ASSUME NEW w \in Dispatchers, Overwrite(w)
      PROVE  Noted(w, d)
  <2>1. \E o : Write(w, o)
    BY <1>5 DEF Overwrite, SendBack
  <2> QED
    BY <1>3, <1>5, <2>1 DEF Overwrite, Noted
<1>6. ASSUME NEW e \in Events, Enqueue(e)
      PROVE  event[d[1]] = "none" /\ Enqueue(d[1])
  BY <1>6 DEF Enqueue
<1>7. ASSUME NEW w \in Dispatchers, NEW b \in Deliveries, Claim(w, b) PROVE FALSE
  BY <1>7 DEF Claim, Claimable, TypeOK, Remaining
<1>8. ASSUME NEW s \in Subs, NEW u \in Users, Register(s, u) PROVE FALSE
  BY <1>1, <1>2, <1>8 DEF Register, Delete
<1>9. ASSUME NEW s \in Subs, Remove(s) \/ Expire(s) \/ ChangeEntitlement(s)
      PROVE  FALSE
  BY <1>1, <1>2, <1>9 DEF Remove, Expire, Delete, ChangeEntitlement
<1> QED
  BY <1>1, <1>4, <1>5, <1>6, <1>7, <1>8, <1>9
  DEF Next, vars, Maintain, BecomeDue, LeaseExpires, Crash, Abandon

\* An outcome is noted by one dispatcher, and nobody else touches its row.
LEMMA NotedStep ==
  ASSUME Quiet, [Next]_vars, stalls' = 0,
         NEW w \in Dispatchers, NEW d \in Deliveries, Noted(w, d)'
  PROVE  /\ status'[d] \notin Remaining
         /\ \A v \in Dispatchers \ {w} : ~Works(v, d)' /\ ~Noted(v, d)'
<1> USE DEF subscriptions, table, memory, world
<1>1. TypeOK /\ stalls = 0
  BY StallsGrow DEF Quiet, Attempted
<1>2. CASE \A v \in Dispatchers, b \in Deliveries : ~Claim(v, b)
  <2>1. Kept
    BY <1>1, <1>2, KeptByNext
  <2>2. \A v \in Dispatchers \ {w} : ~Works(v, d) /\ ~Noted(v, d)
    <3>1. CASE Noted(w, d)
      BY <1>1, <3>1 DEF Quiet, Owned
    <3>2. CASE Works(w, d)
      BY <1>1, <3>2 DEF Quiet, Owned, Attempted, Distinct
    <3> QED
      BY <2>1, <3>1, <3>2 DEF Kept
  <2>3. \A v \in Dispatchers \ {w} : ~Works(v, d)' /\ ~Noted(v, d)'
    BY <2>1, <2>2 DEF Kept
  <2>4. ASSUME status'[d] \in Remaining PROVE FALSE
    <3>1. CASE Noted(w, d)
      <4>1. status[d] \notin Remaining /\ event[d[1]] # "none" /\ ~Works(w, d)
        BY <1>1, <3>1 DEF Quiet, Owned, Attempted, Unused, Noted, At, Works, Working
      <4>2. Overwrite(w)
        BY <1>1, <2>2, <2>4, <4>1, WorkOfNext
      <4> QED
        BY <1>1, <4>2
        DEF Overwrite, SendBack, Return, Goto, Noted, At, TypeOK
    <3>2. CASE Works(w, d)
      <4>1. pc[w] \in Working /\ pc'[w] = "noted" /\ job[w] = d
        BY <3>2 DEF Works, Noted, At
      <4>2. ASSUME NEW v \in Dispatchers, Work(v) PROVE v = w
        BY <1>1, <4>1, <4>2
        DEF Work, Recheck, Gone, Finalize, SettleUnsent, Deliver, GiveUp, Settle,
            Retry, SendBack, Return, Goto, At, TypeOK, Working
      <4>3. ASSUME NEW v \in Dispatchers, Overwrite(v) \/ Abandon(v) PROVE FALSE
        BY <1>1, <4>1, <4>3
        DEF Overwrite, SendBack, Abandon, Return, Goto, At, TypeOK, Working
      <4>4. Work(w)
        BY <1>1, <1>2, <4>1, <4>2, <4>3
        DEF Next, vars, Enqueue, Maintain, Remove, Expire, ChangeEntitlement,
            Register, BecomeDue, LeaseExpires, Crash, Working
      <4>5. CASE Recheck(w)
        BY <1>1, <2>4, <4>1, <4>5
        DEF Recheck, Return, Goto, TypeOK, Remaining
      <4>6. ASSUME NEW p, NEW o \in {"skipped", "dead_letter", "delivered"},
                   Settle(w, o, p)
            PROVE  FALSE
        BY <1>1, <2>4, <4>1, <4>6 DEF Settle, Write, TypeOK, Remaining
      <4> QED
        BY <1>1, <4>1, <4>4, <4>5, <4>6
        DEF Work, SettleUnsent, Deliver, GiveUp, Retry, SendBack, Gone, Finalize,
            Return, Goto, TypeOK
    <3> QED
      BY <2>1, <3>1, <3>2 DEF Kept
  <2> QED
    BY <2>3, <2>4
<1>3. ASSUME NEW u \in Dispatchers, NEW b \in Deliveries, Claim(u, b)
      PROVE  /\ status'[d] \notin Remaining
             /\ \A v \in Dispatchers \ {w} : ~Works(v, d)' /\ ~Noted(v, d)'
  <2>1. Noted(w, d)
    BY <1>1, <1>3, ClaimAttempts
  <2>2. status[d] \notin Remaining /\ status[b] \in Remaining
    BY <1>1, <1>3, <2>1 DEF Quiet, Owned, Claim, Claimable, Remaining
  <2>3. status'[d] = status[d]
    BY <1>1, <1>3, <2>2 DEF Claim, TypeOK
  <2>4. \A v \in Dispatchers \ {w} : ~Works(v, d) /\ ~Noted(v, d)
    BY <1>1, <2>1 DEF Quiet, Owned
  <2>5. \A v \in Dispatchers \ {w} : ~Works(v, d)' /\ ~Noted(v, d)'
    BY <1>1, <1>3, <2>2, <2>4, ClaimAttempts
  <2> QED
    BY <2>2, <2>3, <2>5
<1> QED
  BY <1>2, <1>3

\* A row changes hands only after its lease.
LEMMA OwnedStep == Quiet /\ [Next]_vars => Owned'
<1> SUFFICES ASSUME Quiet, [Next]_vars, stalls' = 0,
                    NEW w \in Dispatchers, NEW d \in Deliveries, Works(w, d)'
             PROVE  /\ status'[d] \in {"processing", "none"}
                    /\ seen'[w] = attempts'[d]
                    /\ ~expired'[d]
  BY NotedStep DEF Owned, Remaining
<1> USE DEF subscriptions, table, memory, world
<1>1. TypeOK /\ stalls = 0
  BY StallsGrow DEF Quiet, Attempted
<1>2. CASE \A v \in Dispatchers, b \in Deliveries : ~Claim(v, b)
  <2>1. /\ Works(w, d) /\ seen'[w] = seen[w] /\ attempts' = attempts
    BY <1>1, <1>2, KeptByNext DEF Kept
  <2>2. /\ status[d] \in {"processing", "none"} /\ seen[w] = attempts[d]
        /\ ~expired[d]
    BY <1>1, <2>1 DEF Quiet, Owned
  <2>3. expired'[d] = expired[d]
    <3>1. ASSUME NEW b \in Deliveries, LeaseExpires(b)
          PROVE  expired'[d] = expired[d]
      <4>1. ~Held(b)
        BY <1>1, <3>1 DEF LeaseExpires
      <4>2. b # d
        BY <2>1, <4>1 DEF Held, Works, Working, At
      <4> QED
        BY <1>1, <3>1, <4>2 DEF LeaseExpires, TypeOK
    <3> QED
      BY <1>2, <3>1
      DEF Next, vars, Enqueue, Maintain, Remove, Expire, ChangeEntitlement,
          Register, Work, Recheck, SettleUnsent, Deliver, GiveUp, Settle, Retry,
          Gone, Finalize, BecomeDue, Crash, Overwrite, Abandon
  <2>4. status'[d] \in {status[d], "none"}
    <3>1. ASSUME NEW s \in Subs, Delete(s) PROVE status'[d] \in {status[d], "none"}
      BY <3>1 DEF Delete, Cascade
    <3>2. ASSUME NEW v \in Dispatchers, Work(v)
          PROVE  status'[d] \in {status[d], "none"}
      <4>1. job[v] \in Deliveries /\ job[v][2] \in Subs
        BY <1>1 DEF TypeOK, Deliveries
      <4>2. ASSUME NEW o, Write(v, o), v # w, pc[v] \in Working
            PROVE  status'[d] \in {status[d], "none"}
        <5>1. job[v] # d
          <6>1. ASSUME job[v] = d PROVE FALSE
            <7>1. Works(v, d)
              BY <4>2, <6>1 DEF Works
            <7>2. seen[v] = attempts[d]
              BY <1>1, <7>1 DEF Quiet, Owned
            <7> QED
              BY <2>1, <2>2, <4>2, <7>1, <7>2 DEF Quiet, Attempted, Distinct
          <6> QED
            BY <6>1
        <5> QED
          BY <1>1, <4>2, <5>1 DEF Write, TypeOK
      <4>3. CASE Gone(v)
        BY <3>1, <4>1, <4>3 DEF Gone
      <4>4. CASE Retry(v)
        <5>1. v # w
          BY <1>1, <4>4 DEF Retry, SendBack, Return, Goto, Works, Working, TypeOK
        <5> QED
          BY <4>2, <4>4, <5>1 DEF Retry, SendBack, Working
      <4>5. ASSUME NEW o, NEW p \in {"noted", "finalize"}, Settle(v, o, p),
                   pc[v] \in Working
            PROVE  status'[d] \in {status[d], "none"}
        <5>1. v # w
          BY <1>1, <4>5 DEF Settle, Goto, Works, Working, TypeOK
        <5> QED
          BY <4>2, <4>5, <5>1 DEF Settle
      <4>6. CASE Recheck(v) \/ Finalize(v)
        BY <4>6 DEF Recheck, Finalize
      <4> QED
        BY <3>2, <4>3, <4>4, <4>5, <4>6
        DEF Work, SettleUnsent, Deliver, GiveUp, At, Working
    <3>3. ASSUME NEW e \in Events, Enqueue(e) PROVE status'[d] \in {status[d], "none"}
      <4>1. d[1] # e
        BY <2>1, <3>3 DEF Enqueue, Quiet, Attempted, Unused
      <4> QED
        BY <3>3, <4>1 DEF Enqueue
    <3>4. ASSUME NEW s \in Subs, NEW u \in Users, Register(s, u)
          PROVE  status'[d] \in {status[d], "none"}
      BY <3>1, <3>4 DEF Register
    <3>5. ASSUME NEW s \in Subs, Remove(s) \/ Expire(s)
          PROVE  status'[d] \in {status[d], "none"}
      BY <3>1, <3>5 DEF Remove, Expire, Cascade
    <3>6. ASSUME NEW v \in Dispatchers, Overwrite(v)
          PROVE  status'[d] \in {status[d], "none"}
      <4>1. v # w /\ At(v, "noted") /\ job[v] \in Deliveries
        BY <1>1, <2>1, <3>6 DEF Overwrite, At, Works, Working, TypeOK
      <4>2. job[v] # d
        BY <1>1, <2>1, <4>1 DEF Quiet, Owned, Noted
      <4> QED
        BY <1>1, <3>6, <4>1, <4>2 DEF Overwrite, SendBack, Write, TypeOK
    <3> QED
      BY <1>2, <3>2, <3>3, <3>4, <3>5, <3>6
      DEF Next, vars, Maintain, ChangeEntitlement, BecomeDue, LeaseExpires, Crash,
          Abandon
  <2> QED
    BY <2>1, <2>2, <2>3, <2>4
<1>3. ASSUME NEW v \in Dispatchers, NEW b \in Deliveries, Claim(v, b)
      PROVE  /\ status'[d] \in {"processing", "none"}
             /\ seen'[w] = attempts'[d]
             /\ ~expired'[d]
  <2>1. CASE w = v
    <3>1. d = b
      BY <1>1, <1>3, <2>1, ClaimAttempts
    <3> QED
      BY <1>1, <1>3, <2>1, <3>1 DEF Claim, TypeOK
  <2>2. CASE w # v
    <3>1. Works(w, d) /\ seen'[w] = seen[w]
      BY <1>1, <1>3, <2>2, ClaimAttempts
    <3>2. /\ status[d] \in {"processing", "none"} /\ seen[w] = attempts[d]
          /\ ~expired[d]
      BY <1>1, <3>1 DEF Quiet, Owned
    <3>3. b # d
      BY <1>3, <3>2 DEF Claim, Claimable
    <3> QED
      BY <1>1, <1>3, <3>1, <3>2, <3>3 DEF Claim, TypeOK
  <2> QED
    BY <2>1, <2>2
<1> QED
  BY <1>2, <1>3

\* An event is closed when it has no work left, or nobody to go to.
LEMMA ClosingOfNext ==
  ASSUME TypeOK, [Next]_vars, NEW e \in Events,
         event[e] \notin Closed, event'[e] \in Closed
  PROVE  ~Open(e, status') \/ (Enqueue(e) /\ status' = status)
<1> USE DEF subscriptions, table, memory, world
<1>1. ASSUME UNCHANGED event PROVE FALSE
  BY <1>1
<1>2. ASSUME NEW s \in Subs, Delete(s) PROVE ~Open(e, status')
  BY <1>2 DEF Delete, Finalized
<1>3. ASSUME NEW w \in Dispatchers, Work(w) PROVE ~Open(e, status')
  <2>1. job[w][1] \in Events /\ job[w][2] \in Subs
    BY DEF TypeOK, Deliveries
  <2>2. CASE Gone(w)
    BY <1>1, <1>2, <2>1, <2>2 DEF Gone
  <2>3. CASE Finalize(w)
    BY <2>1, <2>3 DEF Finalize, Finalized, TypeOK
  <2> QED
    BY <1>1, <1>3, <2>2, <2>3
    DEF Work, Recheck, SettleUnsent, Deliver, GiveUp, Settle, Retry
<1>4. ASSUME NEW f \in Events, Maintain(f) PROVE ~Open(e, status')
  BY <1>4 DEF Maintain, Closable, TypeOK
<1>5. ASSUME NEW f \in Events, Enqueue(f) PROVE Enqueue(e) /\ status' = status
  <2>1. f = e
    BY <1>5 DEF Enqueue, TypeOK
  <2>2. \A s \in Subs : holder[s] = None \/ ~entitled[s]
    BY <1>5, <2>1 DEF Enqueue, TypeOK, Closed
  <2>3. \A d \in Deliveries : d[2] \in Subs
    BY DEF Deliveries
  <2>4. status' = status
    BY <1>5, <2>2, <2>3 DEF Enqueue, TypeOK
  <2> QED
    BY <1>5, <2>1, <2>4
<1>6. ASSUME NEW s \in Subs, NEW u \in Users, Register(s, u)
      PROVE  ~Open(e, status')
  BY <1>1, <1>2, <1>6 DEF Register
<1>7. ASSUME NEW s \in Subs, Remove(s) \/ Expire(s) \/ ChangeEntitlement(s)
      PROVE  ~Open(e, status')
  BY <1>1, <1>2, <1>7 DEF Remove, Expire, ChangeEntitlement
<1> QED
  BY <1>1, <1>3, <1>4, <1>5, <1>6, <1>7
  DEF Next, vars, Claim, BecomeDue, LeaseExpires, Crash, Overwrite, Abandon

\* What was taken back is counted, and the count only grows.
LEMMA ReopenedGrows ==
  ASSUME TypeOK, [Next]_vars, NEW d \in Deliveries
  PROVE  /\ reopened[d] \in Nat /\ reopened'[d] \in Nat
         /\ reopened[d] > 0 => reopened'[d] > 0
         /\ \A w \in Dispatchers :
               Noted(w, d) /\ Overwrite(w) /\ status[d] # "none" => reopened'[d] > 0
<1>1. reopened[d] \in Nat
  BY DEF TypeOK
<1>2. ASSUME NEW w \in Dispatchers, Overwrite(w)
      PROVE  /\ reopened'[d] \in {reopened[d], reopened[d] + 1}
             /\ job[w] = d /\ status[d] # "none" => reopened'[d] = reopened[d] + 1
  BY <1>2 DEF Overwrite, TypeOK
<1>3. (\A w \in Dispatchers : ~Overwrite(w)) => reopened' = reopened
  BY DEF Next, vars, subscriptions, table, memory, world, Enqueue, Maintain, Remove,
         Expire, ChangeEntitlement, Register, Work, Recheck, SettleUnsent, Deliver,
         GiveUp, Settle, Retry, Gone, Finalize, Claim, BecomeDue, LeaseExpires, Crash,
         Abandon
<1> QED
  BY <1>1, <1>2, <1>3 DEF Noted

\* Events are closed without work left, and get none afterwards but by an error.
LEMMA ClosedStep == Quiet /\ [Next]_vars => ClosedEventHasNoWork'
<1> SUFFICES ASSUME Quiet, [Next]_vars, stalls' = 0, NEW d \in Deliveries,
                    event'[d[1]] \in Closed, status'[d] \in Remaining
             PROVE  reopened'[d] > 0
  BY DEF ClosedEventHasNoWork
<1>1. /\ TypeOK /\ stalls = 0
      /\ d[1] \in Events /\ d[2] \in Subs /\ d = <<d[1], d[2]>>
  BY StallsGrow DEF Quiet, Attempted, Deliveries
<1>2. Open(d[1], status')
  BY <1>1 DEF Open
<1>3. CASE status[d] \in Remaining
  <2>1. event[d[1]] # "none"
    BY <1>3 DEF Quiet, Attempted, Unused, Remaining
  <2>2. event[d[1]] \in Closed
    BY <1>1, <1>2, <2>1, ClosingOfNext DEF Enqueue
  <2> QED
    BY <1>1, <1>3, <2>2, ReopenedGrows DEF Quiet, ClosedEventHasNoWork
<1>4. CASE status[d] \notin Remaining
  <2>1. CASE event[d[1]] = "none"
    BY <1>1, <1>2, <1>4, <2>1, ClosingOfNext DEF Closed
  <2>2. ASSUME NEW w \in Dispatchers, Works(w, d), Retry(w) PROVE FALSE
    <3>1. status[d] = "none"
      BY <1>1, <1>4, <2>2 DEF Quiet, Owned, Remaining
    <3> QED
      BY <1>1, <2>2, <3>1
      DEF Retry, SendBack, Write, Works, TypeOK, Remaining
  <2>3. ASSUME NEW w \in Dispatchers, Noted(w, d), Overwrite(w)
        PROVE  reopened'[d] > 0
    <3>1. status[d] # "none"
      BY <1>1, <2>3 DEF Overwrite, SendBack, Write, Noted, TypeOK, Remaining
    <3> QED
      BY <1>1, <2>3, <3>1, ReopenedGrows
  <2> QED
    BY <1>1, <1>4, <2>1, <2>2, <2>3, WorkOfNext
<1> QED
  BY <1>3, <1>4

\* Nothing is claimed or closed at first.
LEMMA QuietInit == Init => Quiet
<1> SUFFICES ASSUME Init PROVE Quiet
  OBVIOUS
<1>1. Owned /\ ClosedEventHasNoWork
  BY DEF Init, Owned, ClosedEventHasNoWork, Works, Noted, At, Working, Remaining
<1> QED
  BY <1>1, AttemptedInit DEF Quiet

\* An event that history shows as settled has no delivery left to send, as
\* long as leases outlive their dispatchers and but for outcomes that an error
\* took back: finalizePushEvent() and the maintenance of web_push_events.
THEOREM ClosedEventsStayQuiet == Spec => []ClosedEventHasNoWork
<1>1. Quiet /\ [Next]_vars => Quiet'
  BY AttemptedStep, OwnedStep, ClosedStep DEF Quiet
<1>2. Quiet => ClosedEventHasNoWork
  BY DEF Quiet
<1> QED
  BY <1>1, <1>2, QuietInit, PTL DEF Spec

----------------------------------------------------------------------------
(* Attempts *)

\* Dispatchers that lost the row to a later claim and could still send it
\* back for another attempt, since outcomes are written by id.
Stale(d) ==
    {w \in Dispatchers :
        Works(w, d) /\ seen[w] < attempts[d] /\ seen[w] < MaxAttempts}

\* The last claim of the row is still at work.
Current(d) == \E w \in Dispatchers : Works(w, d) /\ seen[w] = attempts[d]

\* The row can be claimed, now or when its lease has expired.
Free(d) ==
    \/ status[d] \in {"pending", "failed"}
    \/ status[d] = "processing" /\ (expired[d] \/ ~Current(d))

\* A claim of the row would go over the limit, or make one more dispatcher
\* stale.
Risk(d) ==
    IF Free(d) /\ (attempts[d] >= MaxAttempts \/ Current(d)) THEN 1 ELSE 0

Larger(a, b) == IF a >= b THEN a ELSE b

\* What the row may still cost: an attempt for each stale dispatcher, and one
\* for a claim at risk.
Cost(d) == Cardinality(Stale(d)) + Risk(d)

Faults == accidents + stalls

\* Attempts over the limit, made or to come, are paid for by faults.
Budget ==
    \A d \in Deliveries :
        Larger(attempts[d], MaxAttempts) + Cost(d) <= MaxAttempts + Faults

\* The parts of the budget are numbers.
Numbers ==
    \A d \in Deliveries :
        /\ attempts[d] \in Nat
        /\ accidents \in Nat /\ stalls \in Nat
        /\ IsFiniteSet(Stale(d)) /\ Cardinality(Stale(d)) \in Nat
        /\ Risk(d) \in {0, 1}

\* They are, in every well-typed state.
LEMMA BudgetNumbers == TypeOK => Numbers
<1> SUFFICES ASSUME TypeOK, NEW d \in Deliveries
             PROVE  /\ attempts[d] \in Nat
                    /\ accidents \in Nat /\ stalls \in Nat
                    /\ IsFiniteSet(Stale(d)) /\ Cardinality(Stale(d)) \in Nat
                    /\ Risk(d) \in {0, 1}
  BY DEF Numbers
<1>1. IsFiniteSet(Stale(d))
  BY FS_Subset, PushConstants DEF Stale
<1>2. Cardinality(Stale(d)) \in Nat
  BY <1>1, FS_CardinalityType
<1>3. Risk(d) \in {0, 1}
  BY DEF Risk
<1> QED
  BY <1>1, <1>2, <1>3, PushConstants DEF TypeOK

\* Without a claim no dispatcher becomes stale or current.
LEMMA StaleShrinks ==
  ASSUME TypeOK, Kept, NEW d \in Deliveries
  PROVE  Stale(d)' \subseteq Stale(d) /\ (Current(d)' => Current(d))
  BY DEF Kept, Stale, Current

\* A row that was safe becomes free by a new event, a retry, or a fault.
LEMMA FreedByNext ==
  ASSUME Attempted, [Next]_vars, Kept, NEW d \in Deliveries, Free(d)', ~Free(d)
  PROVE  \/ event[d[1]] = "none"
         \/ \E w \in Dispatchers : Works(w, d) /\ Retry(w)
         \/ accidents' + stalls' = accidents + stalls + 1
<1> USE DEF subscriptions, table, memory, world
<1>1. TypeOK /\ attempts' = attempts
  BY DEF Attempted, Kept
<1>2. ASSUME status'[d] = status[d], expired'[d] = expired[d],
             pc' = pc, job' = job, seen' = seen
      PROVE  FALSE
  BY <1>1, <1>2 DEF Free, Current, Works
<1>3. ASSUME NEW s \in Subs, Delete(s) PROVE status'[d] \in {status[d], "none"}
  BY <1>3 DEF Delete, Cascade
<1>4. ASSUME NEW w \in Dispatchers, Work(w)
      PROVE  \E v \in Dispatchers : Works(v, d) /\ Retry(v)
  <2>1. job[w] \in Deliveries /\ job[w][2] \in Subs
    BY <1>1 DEF TypeOK, Deliveries
  <2>2. ASSUME \A v \in Dispatchers : Works(v, d) => Works(v, d)' /\ seen'[v] = seen[v],
               status'[d] \in {status[d], "none"}, expired' = expired
        PROVE  FALSE
    BY <1>1, <2>2 DEF Free, Current
  <2>3. ASSUME job[w] # d, UNCHANGED expired,
               \A v \in Dispatchers :
                  v # w => pc'[v] = pc[v] /\ job'[v] = job[v] /\ seen'[v] = seen[v],
               status'[d] \in {status[d], "none"}
        PROVE  FALSE
    <3>1. \A v \in Dispatchers : Works(v, d) => Works(v, d)' /\ seen'[v] = seen[v]
      BY <2>3 DEF Works
    <3> QED
      BY <2>2, <2>3, <3>1
  <2>4. ASSUME NEW o \in {"skipped", "dead_letter", "delivered"}, NEW p,
               Settle(w, o, p)
        PROVE  FALSE
    <3>1. CASE job[w] = d
      BY <1>1, <2>4, <3>1 DEF Settle, Write, Free, TypeOK
    <3>2. CASE job[w] # d
      BY <1>1, <2>3, <2>4, <3>2 DEF Settle, Write, Goto, TypeOK
    <3> QED
      BY <3>1, <3>2
  <2>5. CASE Recheck(w)
    <3>1. CASE job[w] # d
      BY <1>1, <2>3, <2>5, <3>1 DEF Recheck, Return, Goto, TypeOK
    <3>2. CASE job[w] = d /\ status[d] = "processing"
      <4>1. CASE Taken(w)
        <5>1. \A v \in Dispatchers :
                Works(v, d) /\ seen[v] = attempts[d] =>
                    Works(v, d)' /\ seen'[v] = seen[v]
          BY <1>1, <2>5, <3>2, <4>1 DEF Recheck, Return, Goto, Taken, Works, TypeOK
        <5> QED
          BY <1>1, <2>5, <3>2, <5>1 DEF Recheck, Free, Current
      <4>2. CASE ~Taken(w)
        <5>1. \A v \in Dispatchers : Works(v, d) => Works(v, d)' /\ seen'[v] = seen[v]
          BY <1>1, <2>5, <3>2, <4>2
          DEF Recheck, Return, Goto, Works, Working, At, TypeOK
        <5> QED
          BY <2>2, <2>5, <5>1 DEF Recheck
      <4> QED
        BY <4>1, <4>2
    <3>3. CASE status[d] # "processing"
      BY <2>5, <3>3 DEF Recheck, Free
    <3> QED
      BY <3>1, <3>2, <3>3
  <2>6. CASE Retry(w)
    <3>1. CASE job[w] = d
      BY <2>6, <3>1 DEF Retry, Works, Working
    <3>2. CASE job[w] # d
      BY <1>1, <2>3, <2>6, <3>2 DEF Retry, SendBack, Write, Return, Goto, TypeOK
    <3> QED
      BY <3>1, <3>2
  <2>7. CASE Gone(w)
    <3>1. CASE job[w] = d
      <4>1. status'[d] = "none"
        BY <2>1, <2>7, <3>1 DEF Gone, Delete, Cascade
      <4> QED
        BY <4>1 DEF Free
    <3>2. CASE job[w] # d
      <4>1. status'[d] \in {status[d], "none"}
        BY <1>3, <2>1, <2>7 DEF Gone
      <4> QED
        BY <1>1, <2>3, <2>7, <3>2, <4>1 DEF Gone, Return, Goto, TypeOK
    <3> QED
      BY <3>1, <3>2
  <2>8. CASE Finalize(w)
    <3>1. \A v \in Dispatchers : Works(v, d) => Works(v, d)' /\ seen'[v] = seen[v]
      BY <1>1, <2>8 DEF Finalize, Return, Goto, Works, Working, At, TypeOK
    <3> QED
      BY <2>2, <2>8, <3>1 DEF Finalize
  <2> QED
    BY <1>4, <2>4, <2>5, <2>6, <2>7, <2>8 DEF Work, SettleUnsent, Deliver, GiveUp
<1>5. ASSUME NEW e \in Events, Enqueue(e) PROVE event[d[1]] = "none"
  BY <1>2, <1>5 DEF Enqueue
<1>6. ASSUME NEW b \in Deliveries, LeaseExpires(b)
      PROVE  accidents' + stalls' = accidents + stalls + 1
  <2>1. CASE Held(b)
    BY <1>1, <1>6, <2>1 DEF LeaseExpires, TypeOK
  <2>2. CASE ~Held(b)
    <3>1. CASE b = d
      BY <1>6, <2>2, <3>1 DEF LeaseExpires, Held, Free, Current, Works, Working, At
    <3>2. CASE b # d
      BY <1>1, <1>2, <1>6, <3>2 DEF LeaseExpires, TypeOK
    <3> QED
      BY <3>1, <3>2
  <2> QED
    BY <2>1, <2>2
<1>7. ASSUME \/ Crash
             \/ \E w \in Dispatchers : Overwrite(w) \/ Abandon(w)
      PROVE  accidents' + stalls' = accidents + stalls + 1
  BY <1>1, <1>7 DEF Crash, Overwrite, Abandon, Accident, TypeOK
<1>8. ASSUME UNCHANGED <<memory, expired>>, status'[d] \in {status[d], "none"}
      PROVE  FALSE
  BY <1>1, <1>8 DEF Free, Current, Works
<1>9. ASSUME NEW s \in Subs, NEW u \in Users, Register(s, u) PROVE FALSE
  BY <1>3, <1>8, <1>9 DEF Register
<1>10. ASSUME NEW s \in Subs, Remove(s) \/ Expire(s) \/ ChangeEntitlement(s)
       PROVE  FALSE
  BY <1>3, <1>8, <1>10 DEF Remove, Expire, Cascade, ChangeEntitlement
<1>11. ASSUME NEW w \in Dispatchers, NEW b \in Deliveries, Claim(w, b)
       PROVE  FALSE
  <2>1. attempts'[b] = attempts[b] + 1 /\ attempts[b] \in Nat
    BY <1>1, <1>11 DEF Claim, TypeOK
  <2> QED
    BY <1>1, <2>1
<1>12. CASE UNCHANGED vars \/ (\E e \in Events : Maintain(e))
            \/ (\E b \in Deliveries : BecomeDue(b))
  BY <1>2, <1>12 DEF vars, Maintain, BecomeDue
<1> QED
  BY <1>4, <1>5, <1>6, <1>7, <1>9, <1>10, <1>11, <1>12 DEF Next

\* Faults are only counted up.
LEMMA FaultsGrow ==
  ASSUME TypeOK, [Next]_vars
  PROVE  accidents' + stalls' >= accidents + stalls
<1>1. accidents \in Nat /\ stalls \in Nat
  BY PushConstants DEF TypeOK
<1> QED
  BY <1>1
  DEF Next, vars, subscriptions, table, memory, world, Enqueue, Maintain, Remove,
      Expire, ChangeEntitlement, Register, Work, Recheck, SettleUnsent, Deliver,
      GiveUp, Settle, Retry, Gone, Finalize, Claim, BecomeDue, LeaseExpires, Crash,
      Overwrite, Abandon, Accident

\* A retry takes its dispatcher from the stale ones, or leaves attempts.
LEMMA RetryKeepsBudget ==
  ASSUME Attempted, Kept, NEW d \in Deliveries, NEW w \in Dispatchers,
         Works(w, d), Retry(w)
  PROVE  Risk(d)' = 0 \/ (w \in Stale(d) /\ w \notin Stale(d)')
<1>1. TypeOK /\ attempts'[d] = attempts[d] /\ attempts[d] \in Nat
  BY DEF Attempted, Kept, TypeOK
<1>2. seen[w] \in 1..attempts[d] /\ seen[w] < MaxAttempts
  BY DEF Attempted, Counted, Retry, SendBack, AttemptsLeft
<1>3. ~Works(w, d)'
  BY <1>1 DEF Retry, SendBack, Return, Goto, Works, Working, TypeOK
<1>4. CASE seen[w] < attempts[d]
  BY <1>2, <1>3, <1>4 DEF Stale
<1>5. CASE seen[w] = attempts[d]
  <2>1. ~Current(d)'
    BY <1>1, <1>3, <1>5 DEF Kept, Current, Attempted, Distinct
  <2>2. ~(attempts'[d] >= MaxAttempts)
    BY <1>1, <1>2, <1>5, PushConstants
  <2> QED
    BY <2>1, <2>2 DEF Risk
<1> QED
  BY <1>1, <1>2, <1>4, <1>5

\* They stay numbers.
LEMMA BudgetNumbersNext == TypeOK' => Numbers'
  BY BudgetNumbers, PTL

\* So are the sums.
Costs == Faults \in Nat /\ \A d \in Deliveries : Cost(d) \in Nat

\* Sums of numbers are numbers.
LEMMA CostNumbers == TypeOK => Costs
<1> SUFFICES ASSUME TypeOK PROVE Costs
  OBVIOUS
<1>1. accidents \in Nat /\ stalls \in Nat
  BY PushConstants DEF TypeOK
<1>2. Faults \in Nat
  BY <1>1 DEF Faults
<1>3. \A d \in Deliveries : Cardinality(Stale(d)) \in Nat /\ Risk(d) \in Nat
  BY BudgetNumbers DEF Numbers
<1>4. \A d \in Deliveries : Cost(d) \in Nat
  BY <1>3 DEF Cost
<1> QED
  BY <1>2, <1>4 DEF Costs

\* They stay numbers.
LEMMA CostNumbersNext == TypeOK' => Costs'
  BY CostNumbers, PTL

\* Steps other than claims keep the cost of a row, or are a fault.
LEMMA CostKept ==
  ASSUME Attempted, Attempted', [Next]_vars, Kept, NEW d \in Deliveries
  PROVE  \/ Cost(d)' <= Cost(d)
         \/ Cost(d)' <= Cost(d) + 1 /\ Faults' = Faults + 1
<1> DEFINE c == Cardinality(Stale(d))
           r == Risk(d)
           after == Cardinality(Stale(d)')
           risk == Risk(d)'
<1>1. TypeOK /\ TypeOK'
  BY DEF Attempted
<1>2. /\ c \in Nat /\ r \in {0, 1} /\ after \in Nat /\ risk \in {0, 1}
      /\ IsFiniteSet(Stale(d)) /\ IsFiniteSet(Stale(d)')
      /\ attempts[d] \in Nat /\ MaxAttempts \in Nat \ {0}
  BY <1>1, BudgetNumbers, BudgetNumbersNext, PushConstants DEF Numbers
<1>3. after <= c
  BY <1>1, <1>2, StaleShrinks, FS_Subset
<1>4. ASSUME risk = 0 \/ r = 1 PROVE after + risk <= c + r
  <2> HIDE DEF c, r, after, risk
  <2> QED
    BY <1>2, <1>3, <1>4
<1>5. ASSUME after + 1 <= c PROVE after + risk <= c + r
  <2> HIDE DEF c, r, after, risk
  <2> QED
    BY <1>2, <1>5
<1>6. after + risk <= c + r + 1
  <2> HIDE DEF c, r, after, risk
  <2> QED
    BY <1>2, <1>3
<1>7. CASE Free(d)' => Free(d)
  <2>1. risk = 0 \/ r = 1
    BY <1>1, <1>7, StaleShrinks DEF Risk, Kept
  <2> QED
    BY <1>4, <2>1 DEF Cost
<1>8. CASE Free(d)' /\ ~Free(d) /\ event[d[1]] = "none"
  <2>1. attempts'[d] = 0 /\ ~Current(d)
    BY <1>8 DEF Attempted, Unused, Current, Kept
  <2>2. ~Current(d)' /\ ~(attempts'[d] >= MaxAttempts)
    BY <1>1, <1>2, <2>1, StaleShrinks
  <2>3. risk = 0
    BY <2>2 DEF Risk
  <2> QED
    BY <1>4, <2>3 DEF Cost
<1>9. ASSUME NEW w \in Dispatchers, Works(w, d), Retry(w)
      PROVE  Cost(d)' <= Cost(d)
  <2>1. CASE w \in Stale(d) /\ w \notin Stale(d)'
    <3>1. Stale(d)' \in SUBSET (Stale(d) \ {w})
      BY <1>1, <2>1, StaleShrinks
    <3>2. /\ IsFiniteSet(Stale(d) \ {w})
          /\ Cardinality(Stale(d) \ {w}) = c - 1
      BY <1>2, <2>1, FS_RemoveElement
    <3>3. after <= Cardinality(Stale(d) \ {w})
      BY <3>1, <3>2, FS_Subset
    <3>4. after + 1 <= c
      BY <1>2, <3>2, <3>3
    <3> QED
      BY <1>5, <3>4 DEF Cost
  <2>2. CASE risk = 0
    BY <1>4, <2>2 DEF Cost
  <2> QED
    BY <1>1, <1>9, <2>1, <2>2, RetryKeepsBudget
<1>10. CASE accidents' + stalls' = accidents + stalls + 1
  BY <1>6, <1>10 DEF Cost, Faults
<1> QED
  BY <1>1, <1>7, <1>8, <1>9, <1>10, FreedByNext

\* Steps other than claims keep the budget of every row.
LEMMA BudgetKept ==
  ASSUME Attempted, Attempted', Budget, [Next]_vars, NEW d \in Deliveries,
         \A w \in Dispatchers, b \in Deliveries : ~Claim(w, b)
  PROVE  Larger(attempts'[d], MaxAttempts) + Cost(d)' <= MaxAttempts + Faults'
<1> DEFINE n == Larger(attempts[d], MaxAttempts)
<1>1. TypeOK /\ TypeOK' /\ Kept
  BY KeptByNext DEF Attempted
<1>2. /\ Cost(d) \in Nat /\ Cost(d)' \in Nat /\ Faults \in Nat /\ Faults' \in Nat
      /\ attempts[d] \in Nat /\ MaxAttempts \in Nat
  BY <1>1, CostNumbers, CostNumbersNext, PushConstants DEF Costs, TypeOK
<1>3. attempts'[d] = attempts[d] /\ n \in Nat /\ n + Cost(d) <= MaxAttempts + Faults
  BY <1>1, <1>2 DEF Kept, Budget, Larger
<1>4. Faults' >= Faults
  BY <1>1, FaultsGrow DEF Faults
<1> HIDE DEF n
<1>5. ASSUME Cost(d)' <= Cost(d)
      PROVE  n + Cost(d)' <= MaxAttempts + Faults'
  BY <1>2, <1>3, <1>4, <1>5
<1>6. ASSUME Cost(d)' <= Cost(d) + 1, Faults' = Faults + 1
      PROVE  n + Cost(d)' <= MaxAttempts + Faults'
  BY <1>2, <1>3, <1>6
<1>7. n + Cost(d)' <= MaxAttempts + Faults'
  BY <1>1, <1>5, <1>6, CostKept
<1> QED
  BY <1>3, <1>7 DEF n

\* A claim that goes over the limit, or makes a dispatcher stale, was at risk.
LEMMA BudgetClaimed ==
  ASSUME Attempted, Attempted', Budget, NEW w \in Dispatchers,
         NEW d \in Deliveries, Claim(w, d)
  PROVE  Larger(attempts'[d], MaxAttempts) + Cost(d)' <= MaxAttempts + Faults
<1> DEFINE c == Cardinality(Stale(d))
           after == Cardinality(Stale(d)')
<1>1. TypeOK /\ TypeOK'
  BY DEF Attempted
<1>2. /\ c \in Nat /\ after \in Nat /\ IsFiniteSet(Stale(d))
      /\ Faults \in Nat
      /\ attempts[d] \in Nat /\ MaxAttempts \in Nat /\ Risk(d) \in {0, 1}
  BY <1>1, BudgetNumbers, BudgetNumbersNext, CostNumbers, PushConstants
  DEF Numbers, Costs
<1>3. /\ attempts'[d] = attempts[d] + 1
      /\ Larger(attempts[d], MaxAttempts) + (c + Risk(d)) <= MaxAttempts + Faults
  BY <1>1, ClaimAttempts DEF Budget, Cost, TypeOK
<1>4. Risk(d)' = 0
  <2>1. Current(d)'
    BY <1>1, <1>3, ClaimAttempts DEF Current
  <2>2. status'[d] = "processing" /\ ~expired'[d]
    BY <1>1 DEF Claim, TypeOK
  <2> QED
    BY <2>1, <2>2 DEF Free, Risk
<1>5. Free(d)
  BY DEF Claim, Claimable, Free
<1>6. \A v \in Dispatchers :
        v \in Stale(d)' <=> /\ Works(v, d)
                            /\ seen[v] <= attempts[d]
                            /\ seen[v] < MaxAttempts
  <2> SUFFICES ASSUME NEW v \in Dispatchers
               PROVE  v \in Stale(d)' <=> /\ Works(v, d)
                                          /\ seen[v] <= attempts[d]
                                          /\ seen[v] < MaxAttempts
    OBVIOUS
  <2>1. v \in Stale(d)' <=> /\ Works(v, d)'
                            /\ seen'[v] < attempts[d] + 1
                            /\ seen'[v] < MaxAttempts
    BY <1>3 DEF Stale
  <2>2. CASE v = w
    BY <1>1, <1>2, <2>1, <2>2, ClaimAttempts
  <2>3. CASE v # w
    <3>1. seen[v] \in Nat
      BY <1>1 DEF TypeOK
    <3>2. Works(v, d)' <=> Works(v, d)
      BY <1>1, <2>3, ClaimAttempts
    <3>3. Works(v, d) => seen'[v] = seen[v]
      BY <1>1, ClaimAttempts
    <3> QED
      BY <1>2, <2>1, <3>1, <3>2, <3>3
  <2> QED
    BY <2>2, <2>3
<1>7. after \in Nat /\ Cost(d)' = after
  BY <1>2, <1>4 DEF Cost
<1>8. CASE attempts[d] >= MaxAttempts
  <2>1. Risk(d) = 1
    BY <1>5, <1>8 DEF Risk
  <2>2. \A v \in Dispatchers : v \in Stale(d)' <=> v \in Stale(d)
    BY <1>1, <1>2, <1>6, <1>8 DEF Stale, TypeOK
  <2>3. after = c
    BY <2>2 DEF Stale
  <2>4. /\ Larger(attempts'[d], MaxAttempts) = attempts[d] + 1
        /\ Larger(attempts[d], MaxAttempts) = attempts[d]
    BY <1>2, <1>3, <1>8 DEF Larger
  <2> HIDE DEF c, after
  <2>5. attempts[d] + 1 + after <= MaxAttempts + Faults
    BY <1>2, <1>3, <2>1, <2>3, <2>4
  <2> QED
    BY <1>7, <2>4, <2>5
<1>9. ASSUME attempts[d] < MaxAttempts, after <= c + Risk(d)
      PROVE  Larger(attempts'[d], MaxAttempts) + Cost(d)' <= MaxAttempts + Faults
  <2>1. /\ Larger(attempts'[d], MaxAttempts) = MaxAttempts
        /\ Larger(attempts[d], MaxAttempts) = MaxAttempts
    BY <1>2, <1>3, <1>9 DEF Larger
  <2> HIDE DEF c, after
  <2>2. MaxAttempts + after <= MaxAttempts + Faults
    BY <1>2, <1>3, <1>7, <1>9, <2>1
  <2> QED
    BY <1>7, <2>1, <2>2
<1>10. CASE attempts[d] < MaxAttempts /\ Current(d)
  <2>1. Risk(d) = 1
    BY <1>5, <1>10 DEF Risk
  <2>2. PICK v \in Dispatchers : Works(v, d) /\ seen[v] = attempts[d]
    BY <1>10 DEF Current
  <2>3. \A u \in Dispatchers : u \in Stale(d)' <=> u \in Stale(d) \/ u = v
    <3> SUFFICES ASSUME NEW u \in Dispatchers
                 PROVE  u \in Stale(d)' <=> u \in Stale(d) \/ u = v
      OBVIOUS
    <3>1. seen[u] \in Nat
      BY <1>1 DEF TypeOK
    <3>2. u # v /\ Works(u, d) => seen[u] # attempts[d]
      BY <2>2 DEF Attempted, Distinct
    <3> QED
      BY <1>2, <1>6, <1>10, <2>2, <3>1, <3>2 DEF Stale
  <2>4. Stale(d)' = Stale(d) \cup {v}
    BY <2>3 DEF Stale
  <2>5. Cardinality(Stale(d) \cup {v}) \in {c, c + 1}
    BY <1>2, FS_AddElement
  <2>6. after \in {c, c + 1}
    BY <2>4, <2>5
  <2>7. after <= c + Risk(d)
    <3> HIDE DEF c, after
    <3> QED
      BY <1>2, <2>1, <2>6
  <2> QED
    BY <1>9, <1>10, <2>7
<1>11. CASE attempts[d] < MaxAttempts /\ ~Current(d)
  <2>1. \A u \in Dispatchers : u \in Stale(d)' <=> u \in Stale(d)
    <3> SUFFICES ASSUME NEW u \in Dispatchers
                 PROVE  u \in Stale(d)' <=> u \in Stale(d)
      OBVIOUS
    <3>1. seen[u] \in Nat
      BY <1>1 DEF TypeOK
    <3>2. Works(u, d) => seen[u] # attempts[d]
      BY <1>11 DEF Current
    <3> QED
      BY <1>2, <1>6, <3>1, <3>2 DEF Stale
  <2>2. after = c
    BY <2>1 DEF Stale
  <2>3. after <= c + Risk(d)
    <3> HIDE DEF c, after
    <3> QED
      BY <1>2, <2>2
  <2> QED
    BY <1>9, <1>11, <2>3
<1> QED
  BY <1>2, <1>8, <1>10, <1>11

\* A claim does not touch other rows.
LEMMA BudgetOfOthers ==
  ASSUME Attempted, Budget, NEW w \in Dispatchers, NEW b \in Deliveries,
         Claim(w, b), NEW d \in Deliveries, d # b
  PROVE  Larger(attempts'[d], MaxAttempts) + Cost(d)' <= MaxAttempts + Faults
<1>1. TypeOK
  BY DEF Attempted
<1>2. /\ attempts'[d] = attempts[d] /\ status'[d] = status[d]
      /\ expired'[d] = expired[d]
  BY <1>1 DEF Claim, TypeOK
<1>3. \A v \in Dispatchers : /\ Works(v, d)' <=> Works(v, d)
                             /\ Works(v, d) => seen'[v] = seen[v]
  BY <1>1, ClaimAttempts
<1>4. Stale(d)' = Stale(d) /\ (Current(d)' <=> Current(d))
  BY <1>2, <1>3 DEF Stale, Current
<1>5. Risk(d)' = Risk(d)
  BY <1>2, <1>4 DEF Free, Risk
<1> QED
  BY <1>2, <1>4, <1>5 DEF Budget, Cost

\* Every step keeps the budget.
LEMMA BudgetStep == Attempted /\ Attempted' /\ Budget /\ [Next]_vars => Budget'
<1> SUFFICES ASSUME Attempted, Attempted', Budget, [Next]_vars,
                    NEW d \in Deliveries
             PROVE  Larger(attempts'[d], MaxAttempts) + Cost(d)' <= MaxAttempts + Faults'
  BY DEF Budget, Larger
<1>1. CASE \A w \in Dispatchers, b \in Deliveries : ~Claim(w, b)
  BY <1>1, BudgetKept
<1>2. ASSUME NEW w \in Dispatchers, NEW b \in Deliveries, Claim(w, b)
      PROVE  Larger(attempts'[d], MaxAttempts) + Cost(d)' <= MaxAttempts + Faults'
  <2>1. Faults' = Faults
    BY <1>2 DEF Claim, world, Faults
  <2>2. CASE d = b
    BY <1>2, <2>1, <2>2, BudgetClaimed
  <2>3. CASE d # b
    BY <1>2, <2>1, <2>3, BudgetOfOthers
  <2> QED
    BY <2>2, <2>3
<1> QED
  BY <1>1, <1>2

\* No row has been tried at first.
LEMMA BudgetInit == Init => Budget
<1> SUFFICES ASSUME Init, NEW d \in Deliveries
             PROVE  Larger(attempts[d], MaxAttempts) + Cost(d) <= MaxAttempts + Faults
  BY DEF Budget
<1>1. Stale(d) = {} /\ Risk(d) = 0
  BY DEF Init, Stale, Risk, Free, Works, Working
<1>2. Cardinality(Stale(d)) = 0
  BY <1>1, FS_EmptySet
<1>3. attempts[d] = 0 /\ accidents = 0 /\ stalls = 0
  BY DEF Init
<1> QED
  BY <1>1, <1>2, <1>3, PushConstants DEF Larger, Cost, Faults

\* A delivery is tried at most as often as WEB_PUSH_MAX_ATTEMPTS says, and once
\* more for each crash, error or stall: what the claim, which looks at no limit, and
\* outcomes written by id can add up to.
THEOREM AttemptsAreBounded == Spec => []AttemptsWithinBudget
<1>1. Attempted /\ Budget => AttemptsWithinBudget
  <2> SUFFICES ASSUME Attempted, Budget, NEW d \in Deliveries
               PROVE  attempts[d] <= MaxAttempts + accidents + stalls
    BY DEF AttemptsWithinBudget
  <2> DEFINE n == Larger(attempts[d], MaxAttempts)
  <2>1. attempts[d] \in Nat /\ MaxAttempts \in Nat /\ Cost(d) \in Nat /\ Faults \in Nat
    BY CostNumbers, PushConstants DEF Attempted, Costs, TypeOK
  <2>2. n + Cost(d) <= MaxAttempts + Faults
    BY DEF Budget
  <2>3. n \in Nat /\ attempts[d] <= n
    BY <2>1 DEF Larger
  <2> HIDE DEF n
  <2>4. attempts[d] <= MaxAttempts + Faults
    BY <2>1, <2>2, <2>3
  <2>5. accidents \in Nat /\ stalls \in Nat
    BY PushConstants DEF Attempted, TypeOK
  <2> QED
    BY <2>1, <2>4, <2>5 DEF Faults
<1> QED
  BY <1>1, AttemptedInit, BudgetInit, AttemptedStep, BudgetStep, PTL DEF Spec
----------------------------------------------------------------------------
(* Refinement of Notifications *)

Finalizing == {"noted", "finalize"}

\* Who is about to finalise an event has an event.
Begun == \A w \in Dispatchers : pc[w] \in Finalizing => event[job[w][1]] # "none"

\* Events are finalised by dispatchers that worked on one of their rows.
LEMMA BegunStep == Attempted /\ Begun /\ [Next]_vars => Begun'
<1> SUFFICES ASSUME Attempted, Begun, [Next]_vars,
                    NEW w \in Dispatchers, pc'[w] \in Finalizing
             PROVE  event'[job'[w][1]] # "none"
  BY DEF Begun
<1> USE DEF Attempted, subscriptions, table, memory, world
<1>1. job'[w] = job[w] /\ pc[w] \in Working \cup Finalizing
  <2>1. ASSUME NEW v \in Dispatchers, Work(v)
        PROVE  job'[w] = job[w] /\ pc[w] \in Working \cup Finalizing
    BY <2>1
    DEF Work, Recheck, Gone, Finalize, SettleUnsent, Deliver, GiveUp, Settle,
        Retry, SendBack, Return, Goto, At, TypeOK, Working, Finalizing
  <2>2. ASSUME NEW v \in Dispatchers, NEW d \in Deliveries, Claim(v, d)
        PROVE  job'[w] = job[w] /\ pc[w] \in Working \cup Finalizing
    BY <2>2 DEF Claim, Goto, At, TypeOK, Finalizing
  <2>3. ASSUME NEW v \in Dispatchers, Overwrite(v) \/ Abandon(v)
        PROVE  job'[w] = job[w] /\ pc[w] \in Working \cup Finalizing
    BY <2>3
    DEF Overwrite, SendBack, Abandon, Return, Goto, At, TypeOK, Finalizing
  <2>4. Crash => FALSE
    BY DEF Crash, Finalizing
  <2> QED
    BY <2>1, <2>2, <2>3, <2>4
    DEF Next, vars, Enqueue, Maintain, Remove, Expire, ChangeEntitlement,
        Register, BecomeDue, LeaseExpires
<1>2. job[w] \in Deliveries /\ job[w][1] \in Events
  BY DEF TypeOK, Deliveries
<1>3. event[job[w][1]] # "none"
  BY <1>1, <1>2 DEF Begun, Unused, Works
<1> QED
  BY <1>1, <1>2, <1>3, EventsOfNext

\* What the steps of the outbox rely on.
Kempt == Quiet /\ Addressed /\ Begun

\* Nothing is queued at first.
LEMMA NotificationsInit == Init => Promise!Init
  BY PushConstants
  DEF Init, Promise!Init, Promise!Copies, Deliveries, Copy, Asked, At, Remaining

\* The result of an event without work is the same for rows and for copies.
LEMMA ResultIsVerdict ==
  ASSUME NEW e \in Events, NEW st, NEW c, ~Open(e, st),
         \A s \in Subs :
             /\ st[<<e, s>>] # "open"
             /\ c[<<e, s>>] = IF st[<<e, s>>] \in Remaining THEN "open"
                                                            ELSE st[<<e, s>>]
  PROVE  ~Promise!IsOpen(e, c) /\ Verdict(e, st) = Promise!Result(e, c)
<1>1. \A s \in Subs : c[<<e, s>>] = st[<<e, s>>]
  BY DEF Open
<1>2. ~Promise!IsOpen(e, c)
  BY <1>1 DEF Promise!IsOpen
<1>3. {c[<<e, s>>] : s \in Subs} = {st[<<e, s>>] : s \in Subs}
  BY <1>1
<1> QED
  BY <1>2, <1>3 DEF Verdict, Promise!Result

\* The same for the rows after a step.
LEMMA ResultNext ==
  ASSUME TypeOK', NEW e \in Events, ~Open(e, status')
  PROVE  ~Promise!IsOpen(e, Copy') /\ Verdict(e, status') = Promise!Result(e, Copy')
<1>1. \A s \in Subs :
         /\ status'[<<e, s>>] # "open"
         /\ Copy'[<<e, s>>] = IF status'[<<e, s>>] \in Remaining
                              THEN "open" ELSE status'[<<e, s>>]
  BY DEF TypeOK, Copy, Deliveries, Remaining
<1> QED
  BY <1>1, ResultIsVerdict

\* finalizePushEvent() and the maintenance close events.
LEMMA FinalizedIsClose ==
  ASSUME TypeOK, TypeOK', NEW S \in SUBSET Events,
         \A e \in S : event[e] # "none",
         event' = [e \in Events |-> IF e \in S /\ ~Open(e, status')
                                    THEN Verdict(e, status') ELSE event[e]]
  PROVE  Promise!Close
<1> DEFINE T == {e \in S : ~Open(e, status')}
<1>1. T \in SUBSET {e \in Events : event[e] # "none" /\ ~Promise!IsOpen(e, Copy')}
  BY ResultNext
<1>2. event' = [e \in Events |-> IF e \in T THEN Promise!Result(e, Copy')
                                            ELSE event[e]]
  BY ResultNext
<1> QED
  BY <1>1, <1>2 DEF Promise!Close

\* So does no event at all.
LEMMA NothingIsClose ==
  ASSUME TypeOK, TypeOK', event' = event
  PROVE  Promise!Close
<1> DEFINE S == {e \in Events : FALSE}
<1>1. S \in SUBSET Events /\ \A e \in S : event[e] # "none"
  OBVIOUS
<1>2. event' = [e \in Events |-> IF e \in S /\ ~Open(e, status')
                                 THEN Verdict(e, status') ELSE event[e]]
  BY DEF TypeOK
<1> HIDE DEF S
<1> QED
  BY <1>1, <1>2, FinalizedIsClose

\* And finalizePushEvent() for one event.
LEMMA OneIsClose ==
  ASSUME TypeOK, TypeOK', NEW f \in Events, event[f] # "none",
         event' = [event EXCEPT ![f] = Finalized(f, status')]
  PROVE  Promise!Close
<1> DEFINE S == {e \in Events : e = f}
<1>1. S \in SUBSET Events /\ \A e \in S : event[e] # "none"
  OBVIOUS
<1>2. event' = [e \in Events |-> IF e = f THEN Finalized(f, status') ELSE event[e]]
  BY DEF TypeOK
<1>3. event' = [e \in Events |-> IF e \in S /\ ~Open(e, status')
                                 THEN Verdict(e, status') ELSE event[e]]
  BY <1>2 DEF Finalized
<1> HIDE DEF S
<1> QED
  BY <1>1, <1>3, FinalizedIsClose

\* deleteSubscriptionById() closes events that lose their last open copy.
LEMMA DeleteIsClose ==
  ASSUME Attempted, TypeOK', NEW s \in Subs, Delete(s)
  PROVE  Promise!Close
<1> DEFINE S == {e \in Events : status[<<e, s>>] # "none"}
<1>1. \A e \in S : event[e] # "none"
  BY DEF Attempted, Unused, Deliveries
<1>2. event' = [e \in Events |-> IF e \in S /\ ~Open(e, status')
                                 THEN Verdict(e, status') ELSE event[e]]
  BY DEF Delete, Finalized
<1> QED
  BY <1>1, <1>2, FinalizedIsClose DEF Attempted

\* When an endpoint changes hands its copies go.
LEMMA CascadeIsChange ==
  ASSUME TypeOK, NEW s \in Subs, NEW h \in Users \cup {None}, h # holder[s],
         holder' = [holder EXCEPT ![s] = h],
         status' = Cascade(s),
         entitled' = entitled \/ entitled' = [entitled EXCEPT ![s] = TRUE],
         Promise!Close,
         Asked' \subseteq Asked, UNCHANGED <<meant, reopened, stalls>>
  PROVE  Promise!Next
<1>1. Copy' = [d \in Promise!Copies |-> IF d[2] = s THEN "none" ELSE Copy[d]]
  BY DEF Copy, Cascade, Promise!Copies, Deliveries, Remaining
<1>2. \E b \in BOOLEAN : entitled' = [entitled EXCEPT ![s] = b]
  BY DEF TypeOK
<1>3. Promise!ChangeHands(s, h)
  BY <1>1, <1>2 DEF Promise!ChangeHands
<1> QED
  BY <1>3 DEF Promise!Next

\* A dispatcher that does not call the provider any more drops at most its own
\* call.
LEMMA AskedShrinks ==
  ASSUME NEW w \in Dispatchers, pc'[w] # "send",
         \A v \in Dispatchers : v # w => pc'[v] = pc[v] /\ job'[v] = job[v]
  PROVE  /\ Asked' \in {Asked, Asked \ {job[w]}}
         /\ Asked' \subseteq Asked
<1>1. \A d : d \in Asked' <=>
          \E v \in Dispatchers : v # w /\ pc[v] = "send" /\ d = job[v]
  BY DEF Asked, At
<1>2. \A d : d \in Asked <=> \E v \in Dispatchers : pc[v] = "send" /\ d = job[v]
  BY DEF Asked, At
<1>3. Asked' \subseteq Asked /\ Asked \ {job[w]} \subseteq Asked'
  BY <1>1, <1>2
<1> QED
  BY <1>3

\* A step that only forgets a call.
LEMMA ForgetIsStep ==
  ASSUME Copy' = Copy, Asked' \subseteq Asked,
         UNCHANGED <<holder, entitled, event, meant, reopened, stalls>>
  PROVE  Promise!Next
  BY DEF Promise!Forget, Promise!Next

\* An outcome that is written by id settles the copy of a live claim, unless a
\* lease has been outlived.
LEMMA WriteIsSettle ==
  ASSUME Quiet, NEW w \in Dispatchers, pc[w] \in Working,
         NEW o \in {"failed", "delivered", "dead_letter", "skipped"},
         Write(w, o), o = "delivered" => At(w, "send"),
         Asked' \in {Asked, Asked \ {job[w]}},
         UNCHANGED <<holder, entitled, event, meant, reopened, stalls>>
  PROVE  Promise!Next
<1> DEFINE d == job[w]
<1>1. TypeOK /\ d \in Deliveries
  BY DEF Quiet, Attempted, TypeOK
<1>2. CASE status[d] = "none"
  <2>1. status' = status
    BY <1>1, <1>2 DEF Write, TypeOK
  <2>2. Copy' = Copy
    BY <2>1 DEF Copy
  <2> QED
    BY <2>2, ForgetIsStep
<1>3. CASE status[d] # "none"
  <2> DEFINE c == IF o = "failed" THEN "open" ELSE o
  <2>1. status' = [status EXCEPT ![d] = o]
    BY <1>1, <1>3 DEF Write, TypeOK
  <2>2. Copy' = [Copy EXCEPT ![d] = c]
    BY <1>1, <2>1 DEF Copy, Remaining, TypeOK
  <2>3. Copy[d] = "open" \/ (stalls > 0 /\ Copy[d] # "none")
    <3>1. CASE stalls = 0
      <4>1. status[d] = "processing"
        BY <1>1, <1>3, <3>1 DEF Quiet, Owned, Works
      <4> QED
        BY <1>1, <4>1 DEF Copy, Remaining
    <3>2. CASE stalls # 0
      <4>1. stalls > 0
        BY <1>1, <3>2, PushConstants DEF TypeOK
      <4> QED
        BY <1>1, <1>3, <4>1 DEF Copy
    <3> QED
      BY <3>1, <3>2
  <2>4. c = "delivered" => d \in Asked
    BY DEF Asked
  <2>5. c \in {"open", "delivered", "dead_letter", "skipped"}
    OBVIOUS
  <2>6. d \in Promise!Copies
    BY <1>1 DEF Promise!Copies, Deliveries
  <2> HIDE DEF c, d
  <2>7. Asked' \in {Asked, Asked \ {d}}
    BY DEF d
  <2>8. Promise!Settle(d, c)
    BY <2>2, <2>3, <2>4, <2>7 DEF Promise!Settle
  <2> QED
    BY <2>5, <2>6, <2>8 DEF Promise!Next
<1> QED
  BY <1>2, <1>3

\* The re-check before the call asks for a copy of a user who may have it, and
\* for none that is being asked for, unless a lease has been outlived.
LEMMA RecheckIsAsk ==
  ASSUME Kempt, NEW w \in Dispatchers, At(w, "validate"),
         status[job[w]] # "none", ~Taken(w), MaySend(job[w]),
         pc' = [pc EXCEPT ![w] = "send"],
         UNCHANGED <<subscriptions, event, table, job, seen, world>>
  PROVE  Promise!Next
<1> DEFINE d == job[w]
<1>1. TypeOK /\ d \in Deliveries /\ d \in Promise!Copies
  BY DEF Kempt, Quiet, Attempted, TypeOK, Promise!Copies, Deliveries
<1>2. Copy[d] = "open" /\ Copy' = Copy
  BY <1>1 DEF Taken, Copy, Remaining, table
<1>3. d \notin Asked \/ stalls > 0
  <2> SUFFICES ASSUME stalls = 0, d \in Asked PROVE FALSE
    BY <1>1, PushConstants DEF TypeOK
  <2>1. PICK v \in Dispatchers : At(v, "send") /\ job[v] = d
    BY DEF Asked
  <2>2. Works(v, d) /\ Works(w, d) /\ v # w
    BY <2>1 DEF Works, Working, At
  <2> HIDE DEF d
  <2>3. seen[v] = attempts[d] /\ seen[w] = attempts[d]
    BY <1>1, <2>2 DEF Kempt, Quiet, Owned
  <2> QED
    BY <1>1, <2>2, <2>3 DEF Kempt, Quiet, Attempted, Distinct
<1>4. holder[d[2]] = meant[d] /\ entitled[d[2]]
  BY <1>1 DEF MaySend, Eligible, Kempt, Addressed
<1>5. Asked' = Asked \cup {d}
  BY <1>1 DEF Asked, At, TypeOK
<1>6. UNCHANGED <<holder, entitled, event, meant, reopened, stalls>>
  BY DEF subscriptions, world
<1> HIDE DEF d
<1>7. Promise!Ask(d)
  BY <1>2, <1>3, <1>4, <1>5, <1>6 DEF Promise!Ask
<1> QED
  BY <1>1, <1>7 DEF Promise!Next

\* Each step of a dispatcher is a step of the promise.
LEMMA NotificationsWork ==
  ASSUME Kempt, TypeOK', NEW w \in Dispatchers, Work(w)
  PROVE  Promise!Next
<1> USE DEF subscriptions, table, memory, world
<1>1. /\ TypeOK /\ Attempted
      /\ job[w] \in Deliveries /\ job[w][1] \in Events /\ job[w][2] \in Subs
  BY DEF Kempt, Quiet, Attempted, TypeOK, Deliveries
<1>2. ASSUME pc'[w] # "send", pc' = [pc EXCEPT ![w] = pc'[w]],
             job' = [job EXCEPT ![w] = job'[w]]
      PROVE  Asked' \in {Asked, Asked \ {job[w]}} /\ Asked' \subseteq Asked
  BY <1>1, <1>2, AskedShrinks DEF TypeOK
<1>3. ASSUME NEW o \in {"delivered", "dead_letter", "skipped"},
             NEW p \in Finalizing, pc[w] \in Working,
             o = "delivered" => At(w, "send"), Settle(w, o, p)
      PROVE  Promise!Next
  <2>1. Asked' \in {Asked, Asked \ {job[w]}}
    BY <1>1, <1>2, <1>3 DEF Settle, Goto, TypeOK, Finalizing
  <2> QED
    BY <1>3, <2>1, WriteIsSettle DEF Settle, Kempt
<1>4. CASE Recheck(w)
  <2>1. CASE Goto(w, "send") /\ UNCHANGED <<job, seen>>
    <3>1. status[job[w]] # "none" /\ ~Taken(w) /\ MaySend(job[w])
      BY <1>1, <1>4, <2>1 DEF Recheck, Goto, Return, TypeOK
    <3> QED
      BY <1>4, <2>1, <3>1, RecheckIsAsk DEF Recheck, Goto
  <2>2. CASE ~(Goto(w, "send") /\ UNCHANGED <<job, seen>>)
    <3>1. Asked' \subseteq Asked
      BY <1>1, <1>2, <1>4, <2>2 DEF Recheck, Goto, Return, TypeOK
    <3>2. Copy' = Copy
      BY <1>4 DEF Recheck, Copy
    <3> QED
      BY <1>4, <3>1, <3>2, ForgetIsStep DEF Recheck
  <2> QED
    BY <2>1, <2>2
<1>5. CASE Retry(w)
  <2>1. Asked' \in {Asked, Asked \ {job[w]}}
    BY <1>1, <1>2, <1>5 DEF Retry, SendBack, Return, Goto, TypeOK
  <2> QED
    BY <1>5, <2>1, WriteIsSettle DEF Retry, SendBack, RetryStatus, Working, Kempt
<1>6. CASE Gone(w)
  <2>1. Asked' \subseteq Asked
    BY <1>1, <1>2, <1>6 DEF Gone, Return, Goto, TypeOK
  <2>2. CASE status[job[w]] # "none"
    <3>1. Delete(job[w][2]) /\ holder' = [holder EXCEPT ![job[w][2]] = None]
      BY <1>6, <2>2 DEF Gone
    <3>2. holder[job[w][2]] # None
      BY <1>1, <2>2 DEF Kempt, Addressed
    <3>3. Promise!Close
      BY <1>1, <3>1, DeleteIsClose
    <3> QED
      BY <1>1, <1>6, <2>1, <3>1, <3>2, <3>3, CascadeIsChange DEF Gone, Delete
  <2>3. CASE status[job[w]] = "none"
    <3>1. UNCHANGED <<status, event, holder>>
      BY <1>6, <2>3 DEF Gone
    <3>2. Copy' = Copy
      BY <3>1 DEF Copy
    <3> QED
      BY <1>6, <2>1, <3>1, <3>2, ForgetIsStep DEF Gone
  <2> QED
    BY <2>2, <2>3
<1>7. CASE Finalize(w)
  <2>1. Copy' = Copy /\ status' = status
    BY <1>7 DEF Finalize, Copy
  <2>2. Asked' = Asked
    BY <1>1, <1>7 DEF Finalize, Return, Goto, Asked, At, TypeOK
  <2>3. event[job[w][1]] # "none"
    BY <1>7 DEF Finalize, Kempt, Begun, Finalizing
  <2>4. event' = [event EXCEPT ![job[w][1]] = Finalized(job[w][1], status')]
    BY <1>7, <2>1 DEF Finalize
  <2>5. Promise!Close
    BY <1>1, <2>3, <2>4, OneIsClose
  <2>6. Promise!CloseEvents
    BY <1>7, <2>1, <2>2, <2>5 DEF Finalize, Promise!CloseEvents
  <2> QED
    BY <2>6 DEF Promise!Next
<1>8. CASE SettleUnsent(w) \/ Deliver(w) \/ GiveUp(w)
  BY <1>3, <1>8 DEF SettleUnsent, Deliver, GiveUp, At, Working, Finalizing
<1> QED
  BY <1>4, <1>5, <1>6, <1>7, <1>8 DEF Work

\* An error after an outcome reopens the copy, or finds none.
LEMMA OverwriteIsReopen ==
  ASSUME Kempt, NEW w \in Dispatchers, Overwrite(w)
  PROVE  [Promise!Next]_Promise!vars
<1> DEFINE d == job[w]
<1> USE DEF subscriptions
<1>1. TypeOK /\ d \in Deliveries /\ d \in Promise!Copies
  BY DEF Kempt, Quiet, Attempted, TypeOK, Promise!Copies, Deliveries
<1>2. Asked' = Asked
  BY <1>1 DEF Overwrite, SendBack, Return, Goto, Asked, At, TypeOK
<1>3. PICK o \in {"failed", "dead_letter"} : Write(w, o)
  BY DEF Overwrite, SendBack, RetryStatus
<1>4. UNCHANGED <<holder, entitled, event, meant, stalls>>
  BY DEF Overwrite
<1>5. CASE status[d] = "none"
  <2>1. status' = status /\ reopened' = reopened
    BY <1>1, <1>3, <1>5 DEF Overwrite, Write, TypeOK
  <2> QED
    BY <1>2, <1>4, <2>1 DEF Copy, Promise!vars
<1>6. CASE status[d] # "none"
  <2> DEFINE c == IF o = "failed" THEN "open" ELSE o
  <2>1. status' = [status EXCEPT ![d] = o]
    BY <1>1, <1>3, <1>6 DEF Write, TypeOK
  <2>2. Copy' = [Copy EXCEPT ![d] = c]
    BY <1>1, <2>1 DEF Copy, Remaining, TypeOK
  <2>3. Copy[d] # "none"
    BY <1>1, <1>6 DEF Copy
  <2>4. reopened' = [reopened EXCEPT ![d] = reopened[d] + 1]
    BY <1>1, <1>6 DEF Overwrite, TypeOK
  <2>5. c \in {"open", "dead_letter"}
    OBVIOUS
  <2> HIDE DEF c, d
  <2>6. Promise!Reopen(d)
    BY <1>2, <1>4, <2>2, <2>3, <2>4, <2>5 DEF Promise!Reopen
  <2> QED
    BY <1>1, <2>6 DEF Promise!Next
<1> QED
  BY <1>5, <1>6

\* Each change of a subscription is a step of the promise.
LEMMA NotificationsOfSubs ==
  ASSUME Kempt, TypeOK', NEW s \in Subs,
         \/ Remove(s) \/ Expire(s) \/ ChangeEntitlement(s)
         \/ \E u \in Users : Register(s, u)
  PROVE  Promise!Next
<1> USE DEF subscriptions, table, memory, world
<1>1. TypeOK /\ Attempted
  BY DEF Kempt, Quiet, Attempted
<1>2. ASSUME UNCHANGED memory PROVE Asked' = Asked
  BY <1>2 DEF Asked, At
<1>3. CASE Remove(s)
  <2>1. Delete(s) /\ holder[s] # None /\ holder' = [holder EXCEPT ![s] = None]
    BY <1>3 DEF Remove
  <2>2. Promise!Close
    BY <1>1, <2>1, DeleteIsClose
  <2>3. Asked' \subseteq Asked /\ UNCHANGED <<entitled, meant, reopened, stalls>>
    BY <1>2, <1>3 DEF Remove
  <2> QED
    BY <1>1, <2>1, <2>2, <2>3, CascadeIsChange DEF Delete
<1>4. CASE Expire(s)
  <2>1. /\ status' = Cascade(s) /\ holder[s] # None
        /\ holder' = [holder EXCEPT ![s] = None]
    BY <1>4 DEF Expire
  <2>2. Promise!Close
    BY <1>1, <1>4, NothingIsClose DEF Expire
  <2>3. Asked' \subseteq Asked /\ UNCHANGED <<entitled, meant, reopened, stalls>>
    BY <1>2, <1>4 DEF Expire
  <2> QED
    BY <1>1, <2>1, <2>2, <2>3, CascadeIsChange
<1>5. CASE ChangeEntitlement(s)
  <2>1. Copy' = Copy /\ Asked' = Asked
    BY <1>2, <1>5 DEF ChangeEntitlement, Copy
  <2>2. PICK b \in BOOLEAN : b = ~entitled[s]
    OBVIOUS
  <2>3. Promise!Entitle(s, b)
    BY <1>5, <2>1, <2>2 DEF ChangeEntitlement, Promise!Entitle
  <2> QED
    BY <2>3 DEF Promise!Next
<1>6. ASSUME NEW u \in Users, Register(s, u)
      PROVE  Promise!Next
  <2>1. /\ holder' = [holder EXCEPT ![s] = u]
        /\ entitled' = [entitled EXCEPT ![s] = TRUE]
        /\ UNCHANGED <<meant, reopened, stalls>>
        /\ Asked' = Asked
    BY <1>2, <1>6 DEF Register
  <2>2. CASE holder[s] \notin {None, u}
    <3>1. Delete(s)
      BY <1>6, <2>2 DEF Register
    <3>2. Promise!Close
      BY <1>1, <3>1, DeleteIsClose
    <3> QED
      BY <1>1, <2>1, <2>2, <3>1, <3>2, CascadeIsChange DEF Delete
  <2>3. CASE holder[s] = None
    <3>1. UNCHANGED <<status, event>> /\ u # None
      BY <1>6, <2>3, PushConstants DEF Register
    <3>2. status' = Cascade(s)
      <4>1. \A d \in Deliveries : d[2] = s => status[d] = "none"
        BY <2>3 DEF Kempt, Addressed
      <4> QED
        BY <1>1, <3>1, <4>1 DEF Cascade, TypeOK
    <3>3. Promise!Close
      BY <1>1, <3>1, NothingIsClose
    <3> QED
      BY <1>1, <2>1, <2>3, <3>1, <3>2, <3>3, CascadeIsChange
  <2>4. CASE holder[s] = u
    <3>1. UNCHANGED <<status, event, holder>> /\ holder[s] # None
      BY <1>1, <1>6, <2>4, PushConstants DEF Register, TypeOK
    <3>2. Copy' = Copy
      BY <3>1 DEF Copy
    <3>3. Promise!Entitle(s, TRUE)
      BY <2>1, <3>1, <3>2 DEF Promise!Entitle
    <3> QED
      BY <3>3 DEF Promise!Next
  <2> QED
    BY <2>2, <2>3, <2>4
<1> QED
  BY <1>3, <1>4, <1>5, <1>6

\* Every step of the outbox is a step or a stutter of the promise.
LEMMA NotificationsStep ==
  Kempt /\ TypeOK' /\ [Next]_vars => [Promise!Next]_Promise!vars
<1> SUFFICES ASSUME Kempt, TypeOK', [Next]_vars
             PROVE  [Promise!Next]_Promise!vars
  OBVIOUS
<1> USE DEF subscriptions, table, memory, world
<1>0. TypeOK /\ Attempted
  BY DEF Kempt, Quiet, Attempted
<1>1. ASSUME UNCHANGED <<holder, entitled, event, meant, reopened, stalls>>,
             Copy' = Copy, Asked' = Asked
      PROVE  [Promise!Next]_Promise!vars
  BY <1>1 DEF Promise!vars
<1>2. ASSUME NEW e \in Events, Enqueue(e)
      PROVE  Promise!Next
  <2> DEFINE new == {e} \X Promise!Recipients
  <2>1. \A d \in Deliveries :
           d \in new <=> d[1] = e /\ holder[d[2]] # None /\ entitled[d[2]]
    BY DEF Deliveries, Promise!Recipients
  <2>2. Promise!Recipients = {s \in Subs : holder[s] # None /\ entitled[s]}
    BY DEF Promise!Recipients
  <2>3. status' = [d \in Deliveries |-> IF d \in new THEN "pending" ELSE status[d]]
    BY <1>2, <2>1 DEF Enqueue, Deliveries
  <2>4. meant' = [d \in Deliveries |-> IF d \in new THEN holder[d[2]] ELSE meant[d]]
    BY <1>2, <2>1 DEF Enqueue, Deliveries
  <2>5. /\ event[e] = "none"
        /\ event' = [event EXCEPT ![e] =
                        IF Promise!Recipients = {} THEN "no_recipients" ELSE "pending"]
    BY <1>2, <2>2 DEF Enqueue
  <2>6. UNCHANGED <<holder, entitled, reopened, stalls>> /\ Asked' = Asked
    BY <1>2 DEF Enqueue, Asked, At
  <2>7. Promise!Copies = Deliveries
    BY DEF Promise!Copies, Deliveries
  <2> HIDE DEF new
  <2>8. Copy' = [d \in Deliveries |-> IF d \in new THEN "open" ELSE Copy[d]]
    BY <2>3 DEF Copy, Remaining
  <2>9. Promise!Queue(e)
    BY <2>4, <2>5, <2>6, <2>7, <2>8 DEF Promise!Queue, new
  <2> QED
    BY <2>9 DEF Promise!Next
<1>3. ASSUME NEW e \in Events, Maintain(e)
      PROVE  Promise!Next
  <2>1. Copy' = Copy /\ Asked' = Asked /\ status' = status
    BY <1>3 DEF Maintain, Copy, Asked, At
  <2>2. event[e] # "none"
    BY <1>3 DEF Maintain, Closable
  <2>3. event' = [event EXCEPT ![e] = Finalized(e, status')]
    BY <1>3, <2>1 DEF Maintain, Closable, Finalized
  <2>4. Promise!Close
    BY <1>0, <2>2, <2>3, OneIsClose
  <2>5. Promise!CloseEvents
    BY <1>3, <2>1, <2>4 DEF Maintain, Promise!CloseEvents
  <2> QED
    BY <2>5 DEF Promise!Next
<1>4. ASSUME NEW w \in Dispatchers, NEW d \in Deliveries, Claim(w, d)
      PROVE  [Promise!Next]_Promise!vars
  <2>1. Copy' = Copy
    BY <1>0, <1>4 DEF Claim, Claimable, Copy, Remaining, TypeOK
  <2>2. Asked' = Asked
    BY <1>0, <1>4 DEF Claim, Goto, Asked, At, TypeOK
  <2> QED
    BY <1>1, <1>4, <2>1, <2>2 DEF Claim
<1>5. ASSUME NEW d \in Deliveries, BecomeDue(d)
      PROVE  [Promise!Next]_Promise!vars
  BY <1>1, <1>5 DEF BecomeDue, Copy, Asked, At
<1>6. ASSUME NEW d \in Deliveries, LeaseExpires(d)
      PROVE  [Promise!Next]_Promise!vars
  <2>1. Copy' = Copy /\ Asked' = Asked
    BY <1>6 DEF LeaseExpires, Copy, Asked, At
  <2>2. CASE UNCHANGED stalls
    BY <1>1, <1>6, <2>1, <2>2 DEF LeaseExpires
  <2>3. CASE stalls' = stalls + 1
    <3>1. stalls' > 0
      BY <1>0, <2>3, PushConstants DEF TypeOK
    <3>2. Promise!OutliveLease
      BY <1>6, <2>1, <3>1 DEF LeaseExpires, Promise!OutliveLease
    <3> QED
      BY <3>2 DEF Promise!Next
  <2> QED
    BY <1>6, <2>2, <2>3 DEF LeaseExpires
<1>7. CASE Crash \/ \E w \in Dispatchers : Abandon(w)
  <2>1. Copy' = Copy
    BY <1>7 DEF Crash, Abandon, Copy
  <2>2. Asked' \subseteq Asked
    BY <1>0, <1>7 DEF Crash, Abandon, Return, Goto, Asked, At, TypeOK
  <2> QED
    BY <1>7, <2>1, <2>2, ForgetIsStep DEF Crash, Abandon
<1>8. CASE UNCHANGED vars
  BY <1>1, <1>8 DEF vars, Copy, Asked, At
<1> QED
  BY <1>2, <1>3, <1>4, <1>5, <1>6, <1>7, <1>8, NotificationsWork,
     NotificationsOfSubs, OverwriteIsReopen
  DEF Next

\* The outbox keeps its promise to the users: a provider is asked only for open
\* copies of entitled users, once at a time, a copy gets one outcome but for the
\* errors that take one back, each counted in `reopened', and events close with
\* the result of all their copies, as long as no lease is outlived.
THEOREM NotificationsAreKept == Spec => ImplementsNotifications
<1>1. Init => Kempt
  BY QuietInit, AddressedInit DEF Kempt, Begun, Init, Finalizing
<1>2. Kempt /\ [Next]_vars => Kempt' /\ TypeOK'
  BY AttemptedStep, OwnedStep, ClosedStep, AddressedStep, BegunStep, TypeStep
  DEF Kempt, Quiet, Attempted
<1> QED
  BY <1>1, <1>2, NotificationsInit, NotificationsStep, PTL
  DEF Spec, ImplementsNotifications, Promise!Spec

=============================================================================
