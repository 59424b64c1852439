----------------------- MODULE ContentSchedulerProofs -----------------------
(***************************************************************************)
(* Proofs about ContentScheduler: types, what becomes of a published row,  *)
(* second posts, credits, the promise of Publications and the automatic    *)
(* pause of a campaign, for any set of processes and any limits.           *)
(***************************************************************************)
EXTENDS ContentScheduler, FiniteSetTheorems, TLAPS

----------------------------------------------------------------------------
(* Types *)

\* The first state has the types.
LEMMA TypeInit == Init => TypeOK
<1> SUFFICES ASSUME Init PROVE TypeOK
  OBVIOUS
<1>1. Threshold \in Nat /\ MaxAccidents \in Nat /\ MaxRetries \in Nat
      /\ 1 \in Rows
  BY ContentConstants DEF Rows
<1>2. failures \in 0..Threshold /\ accidents \in 0..MaxAccidents
      /\ retries \in 0..MaxRetries /\ cur \in [Workers -> Rows]
  BY <1>1 DEF Init
<1> QED
  BY <1>2 DEF Init, TypeOK, Places

\* Recovered rows have the types.
LEMMA TypeRecover ==
  ASSUME TypeOK, NEW S, RecoverRows(S)
  PROVE  /\ status' \in [Rows -> {"none", "pending", "processing",
                                  "published", "failed", "cancelled"}]
         /\ owner' \in [Rows -> Workers \cup {None}]
         /\ stale' \in [Rows -> BOOLEAN]
         /\ due' \in [Rows -> BOOLEAN]
         /\ doubts' \in [Rows -> Nat]
         /\ overtaken' \in [Rows -> BOOLEAN]
<1>1. \A i \in Rows : doubts[i] \in Nat /\ doubts[i] + 1 \in Nat
  BY DEF TypeOK
<1>2. doubts' \in [Rows -> Nat]
  BY <1>1 DEF RecoverRows
<1> QED
  BY <1>2 DEF TypeOK, RecoverRows

\* So has the memory of a worker that goes on with the next row.
LEMMA TypeNextRow ==
  ASSUME TypeOK, NEW w \in Workers, NextRow(w)
  PROVE  /\ pc' \in [Workers -> Places]
         /\ cur' \in [Workers -> Rows]
         /\ tried' \in [Workers -> Nat]
         /\ outcome' \in [Workers -> {"none", "retry", "final", "warned"}]
<1>1. 1 \in Rows
  BY ContentConstants DEF Rows
<1> QED
  BY <1>1 DEF TypeOK, NextRow, Goto, Places

\* Every step of a tick keeps the types.
LEMMA TypeTick ==
  ASSUME TypeOK, NEW w \in Workers,
         \/ StartTick(w) \/ Materialize(w) \/ Select(w) \/ Claim(w)
         \/ EndTick(w) \/ DeferByPolicy(w) \/ Begin(w)
  PROVE  TypeOK'
<1> USE DEF table, claim, memory, campaigns, world, history, TypeOK, Goto,
            Places
<1>1. CASE StartTick(w)
  BY <1>1 DEF StartTick
<1>2. CASE Materialize(w)
  <2>1. /\ status' \in [Rows -> {"none", "pending", "processing",
                                 "published", "failed", "cancelled"}]
        /\ origin' \in [Rows -> {"direct", "campaign"}]
        /\ due' \in [Rows -> BOOLEAN]
        /\ UNCHANGED <<attempts, owner, stale, stored, warned>>
    <3>1. CASE UNCHANGED table
      BY <3>1
    <3>2. ASSUME NEW i \in Rows, Insert(i, "campaign", TRUE)
          PROVE  /\ status' = [status EXCEPT ![i] = "pending"]
                 /\ origin' = [origin EXCEPT ![i] = "campaign"]
                 /\ due' = [due EXCEPT ![i] = TRUE]
                 /\ UNCHANGED <<attempts, owner, stale, stored, warned>>
      BY <3>2 DEF Insert
    <3>3. CASE \E i \in Rows : Insert(i, "campaign", TRUE)
      BY <3>2, <3>3
    <3> QED
      BY <1>2, <3>1, <3>3 DEF Materialize
  <2>2. slotDue' \in BOOLEAN
    BY <1>2 DEF Materialize
  <2> QED
    BY <1>2, <2>1, <2>2 DEF Materialize
<1>3. CASE Select(w)
  <2>1. todo' \in [Workers -> SUBSET Rows] /\ pc' \in [Workers -> Places]
    BY <1>3 DEF Select
  <2> QED
    BY <1>3, <2>1, TypeRecover DEF Select
<1>4. CASE Claim(w)
  <2>1. PICK i \in todo[w] :
            /\ todo' = [todo EXCEPT ![w] = @ \ {i}]
            /\ \/ /\ status' = [status EXCEPT ![i] = "processing"]
                  /\ owner' = [owner EXCEPT ![i] = w]
                  /\ stale' = [stale EXCEPT ![i] = late[w]]
                  /\ cur' = [cur EXCEPT ![w] = i]
                  /\ tried' = [tried EXCEPT ![w] = attempts[i]]
                  /\ pc' = [pc EXCEPT ![w] = "check"]
               \/ UNCHANGED <<status, owner, stale, cur, tried, pc>>
    BY <1>4 DEF Claim
  <2>2. i \in Rows
    BY <2>1
  <2>3. todo' \in [Workers -> SUBSET Rows]
    BY <2>1
  <2>4. UNCHANGED <<origin, due, attempts, stored, warned, usage, campaigns,
                    late, outcome, world>>
    BY <1>4 DEF Claim
  <2>5. /\ status' \in [Rows -> {"none", "pending", "processing",
                                 "published", "failed", "cancelled"}]
        /\ owner' \in [Rows -> Workers \cup {None}]
        /\ stale' \in [Rows -> BOOLEAN]
        /\ cur' \in [Workers -> Rows]
        /\ tried' \in [Workers -> Nat]
        /\ pc' \in [Workers -> Places]
    <3>1. CASE UNCHANGED <<status, owner, stale, cur, tried, pc>>
      BY <3>1
    <3>2. CASE /\ status' = [status EXCEPT ![i] = "processing"]
               /\ owner' = [owner EXCEPT ![i] = w]
               /\ stale' = [stale EXCEPT ![i] = late[w]]
               /\ cur' = [cur EXCEPT ![w] = i]
               /\ tried' = [tried EXCEPT ![w] = attempts[i]]
               /\ pc' = [pc EXCEPT ![w] = "check"]
      BY <2>2, <3>2
    <3> QED
      BY <2>1, <3>1, <3>2
  <2> QED
    BY <2>3, <2>4, <2>5
<1>5. CASE EndTick(w)
  BY <1>5 DEF EndTick
<1>6. CASE DeferByPolicy(w)
  <2>1. /\ status' \in [Rows -> {"none", "pending", "processing",
                                 "published", "failed", "cancelled"}]
        /\ due' \in [Rows -> BOOLEAN]
        /\ owner' \in [Rows -> Workers \cup {None}]
        /\ stale' \in [Rows -> BOOLEAN]
        /\ warned' \in [Rows -> BOOLEAN]
    <3>1. cur[w] \in Rows
      OBVIOUS
    <3>2. CASE /\ status' = [status EXCEPT ![cur[w]] = "pending"]
               /\ due' = [due EXCEPT ![cur[w]] = FALSE]
               /\ owner' = [owner EXCEPT ![cur[w]] = None]
               /\ stale' = [stale EXCEPT ![cur[w]] = FALSE]
               /\ warned' = [warned EXCEPT ![cur[w]] = FALSE]
      BY <3>1, <3>2
    <3>3. CASE UNCHANGED <<status, due, owner, stale, warned>>
      BY <3>3
    <3> QED
      BY <1>6, <3>2, <3>3 DEF DeferByPolicy
  <2> QED
    BY <1>6, <2>1, TypeNextRow DEF DeferByPolicy
<1>7. CASE Begin(w)
  <2>1. Owns(w) \in BOOLEAN /\ attempts[cur[w]] \in Nat /\ tried[w] \in Nat
    BY DEF Owns
  <2>2. attempts' \in [Rows -> Nat] /\ tried' \in [Workers -> Nat]
    BY <1>7, <2>1 DEF Begin
  <2>3. warned' \in [Rows -> BOOLEAN]
    BY <1>7, <2>1 DEF Begin
  <2> QED
    BY <1>7, <2>2, <2>3 DEF Begin
<1> QED
  BY <1>1, <1>2, <1>3, <1>4, <1>5, <1>6, <1>7

\* So does every step of the publisher and every outcome.
LEMMA TypeOutcome ==
  ASSUME TypeOK, NEW w \in Workers,
         \/ Reserve(w) \/ Refuse(w) \/ MetaPosts(w) \/ MetaRefuses(w)
         \/ Answer(w) \/ LoseAnswer(w) \/ Commit(w) \/ CommitFails(w)
         \/ Release(w) \/ Store(w) \/ ResetFailures(w) \/ GiveUp(w)
         \/ CountFailure(w) \/ Pause(w)
  PROVE  TypeOK'
<1> USE DEF table, claim, memory, campaigns, world, history, TypeOK, Goto,
            Places
<1>0. Threshold \in Nat /\ cur[w] \in Rows
  BY ContentConstants
<1>1. CASE Reserve(w)
  BY <1>1 DEF Reserve
<1>2. CASE Refuse(w)
  BY <1>2 DEF Refuse
<1>3. CASE MetaPosts(w)
  BY <1>3 DEF MetaPosts
<1>4. CASE MetaRefuses(w)
  BY <1>4 DEF MetaRefuses, AfterError
<1>5. CASE Answer(w)
  BY <1>5 DEF Answer
<1>6. CASE LoseAnswer(w)
  BY <1>6 DEF LoseAnswer, AfterError, Doubt
<1>7. CASE Commit(w)
  BY <1>7 DEF Commit
<1>8. CASE CommitFails(w)
  BY <1>8 DEF CommitFails, AfterBillingError
<1>9. CASE Release(w)
  BY <1>9 DEF Release
<1>10. CASE Store(w)
  <2>1. /\ pc' \in [Workers -> Places]
        /\ cur' \in [Workers -> Rows]
        /\ tried' \in [Workers -> Nat]
        /\ outcome' \in [Workers -> {"none", "retry", "final", "warned"}]
    BY <1>10, TypeNextRow DEF Store, CampaignStep
  <2> QED
    BY <1>10, <2>1 DEF Store
<1>11. CASE ResetFailures(w)
  <2>1. failures' \in 0..Threshold
    BY <1>0, <1>11 DEF ResetFailures
  <2> QED
    BY <1>11, <2>1, TypeNextRow DEF ResetFailures
<1>12. CASE GiveUp(w)
  <2>1. /\ pc' \in [Workers -> Places]
        /\ cur' \in [Workers -> Rows]
        /\ tried' \in [Workers -> Nat]
        /\ outcome' \in [Workers -> {"none", "retry", "final", "warned"}]
    BY <1>12, TypeNextRow DEF GiveUp, CampaignStep
  <2>2. AfterFailure(w) \in {"pending", "failed"}
    BY DEF AfterFailure
  <2>3. CanRetry(w) \in BOOLEAN
    BY DEF CanRetry
  <2> QED
    BY <1>12, <2>1, <2>2, <2>3 DEF GiveUp
<1>13. CASE CountFailure(w)
  BY <1>0, <1>13 DEF CountFailure
<1>14. CASE Pause(w)
  <2>1. campaign' \in {"active", "stopped"} /\ slotDue' \in BOOLEAN
    BY <1>14 DEF Pause
  <2> QED
    BY <1>14, <2>1, TypeNextRow DEF Pause
<1> QED
  BY <1>1, <1>2, <1>3, <1>4, <1>5, <1>6, <1>7, <1>8, <1>9, <1>10, <1>11,
     <1>12, <1>13, <1>14

\* So do accidents.
LEMMA TypeAccidents ==
  ASSUME TypeOK, NEW w \in Workers, Accidents(w)
  PROVE  TypeOK'
<1> USE DEF table, claim, memory, campaigns, world, history, TypeOK, Goto,
            Places
<1>0. 1 \in Rows /\ MaxAccidents \in Nat /\ cur[w] \in Rows
  BY ContentConstants DEF Rows
<1>a. Accident => accidents' \in 0..MaxAccidents
  BY <1>0 DEF Accident
<1>b. Strand(cur[w]) => stranded' \in [Rows -> BOOLEAN]
  BY <1>0 DEF Strand
<1>c. Doubt(cur[w]) => doubts' \in [Rows -> Nat]
  BY <1>0 DEF Doubt
<1>1. CASE ReleaseFails(w)
  BY <1>1, <1>a, <1>b DEF ReleaseFails
<1>2. CASE OutcomeFails(w)
  BY <1>2, <1>a, <1>b, <1>c DEF OutcomeFails
<1>3. CASE TickAges(w)
  <2>1. stale' \in [Rows -> BOOLEAN]
    BY <1>3 DEF TickAges, At
  <2> QED
    BY <1>3, <1>a, <2>1 DEF TickAges
<1>d. Abandon(w) => /\ pc' \in [Workers -> Places]
                    /\ todo' \in [Workers -> SUBSET Rows]
                    /\ late' \in [Workers -> BOOLEAN]
                    /\ cur' \in [Workers -> Rows]
                    /\ tried' \in [Workers -> Nat]
                    /\ outcome' \in [Workers -> {"none", "retry", "final",
                                                 "warned"}]
                    /\ accidents' \in 0..MaxAccidents
                    /\ UNCHANGED <<origin, attempts, stored, warned, usage,
                                   campaigns, posts, retries>>
  BY <1>0, <1>a DEF Abandon
<1>4. CASE Crash(w)
  <2>1. doubts' \in [Rows -> Nat]
    BY <1>0, <1>4 DEF Crash
  <2>2. stranded' \in [Rows -> BOOLEAN]
    BY <1>0, <1>4 DEF Crash
  <2> QED
    BY <1>4, <1>d, <2>1, <2>2 DEF Crash
<1>5. CASE RecoveryFails(w)
  <2>1. /\ status' \in [Rows -> {"none", "pending", "processing",
                                 "published", "failed", "cancelled"}]
        /\ owner' \in [Rows -> Workers \cup {None}]
        /\ stale' \in [Rows -> BOOLEAN]
        /\ due' \in [Rows -> BOOLEAN]
        /\ doubts' \in [Rows -> Nat]
        /\ overtaken' \in [Rows -> BOOLEAN]
    BY <1>5, TypeRecover DEF RecoveryFails
  <2> QED
    BY <1>5, <1>d, <2>1 DEF RecoveryFails
<1> QED
  BY <1>1, <1>2, <1>3, <1>4, <1>5 DEF Accidents

\* So does every step of users and of time.
LEMMA TypeOthers ==
  ASSUME TypeOK,
         \/ User
         \/ SlotComes
         \/ \E i \in Rows : BecomeDue(i) \/ ClaimAges(i)
  PROVE  TypeOK'
<1> USE DEF table, claim, memory, campaigns, world, history, TypeOK, UserOnly
<1>0. Threshold \in Nat /\ MaxRetries \in Nat
  BY ContentConstants
<1>1. ASSUME NEW i \in Rows, Schedule(i) \/ RunNow(i) PROVE TypeOK'
  <2>1. UNCHANGED <<usage, campaigns, memory, world>>
    BY <1>1 DEF Schedule, RunNow
  <2>2. /\ status' = [status EXCEPT ![i] = "pending"]
        /\ \E from \in {"direct", "campaign"} :
              origin' = [origin EXCEPT ![i] = from]
        /\ \E d \in BOOLEAN : due' = [due EXCEPT ![i] = d]
        /\ UNCHANGED <<attempts, owner, stale, stored, warned>>
    BY <1>1 DEF Schedule, RunNow, Insert
  <2> QED
    BY <2>1, <2>2
<1>2. ASSUME NEW i \in Rows, Retry(i) PROVE TypeOK'
  BY <1>0, <1>2 DEF Retry
<1>3. ASSUME NEW i \in Rows, PublishNow(i) PROVE TypeOK'
  BY <1>3 DEF PublishNow
<1>4. ASSUME NEW i \in Rows, Cancel(i) PROVE TypeOK'
  BY <1>4 DEF Cancel
<1>5. CASE EditCampaign
  <2>1. failures' \in 0..Threshold
    BY <1>0, <1>5 DEF EditCampaign, ResumedFailures
  <2> QED
    BY <1>5, <2>1 DEF EditCampaign
<1>6. CASE CompleteCampaign
  BY <1>6 DEF CompleteCampaign
<1>7. CASE UnlinkPage
  <2>1. status' \in [Rows -> {"none", "pending", "processing", "published",
                              "failed", "cancelled"}]
    BY <1>7 DEF UnlinkPage
  <2> QED
    BY <1>7, <2>1 DEF UnlinkPage
<1>8. CASE SlotComes
  BY <1>8 DEF SlotComes
<1>9. ASSUME NEW i \in Rows, BecomeDue(i) PROVE TypeOK'
  BY <1>9 DEF BecomeDue
<1>10. ASSUME NEW i \in Rows, ClaimAges(i) PROVE TypeOK'
  BY <1>10 DEF ClaimAges
<1> QED
  BY <1>1, <1>2, <1>3, <1>4, <1>5, <1>6, <1>7, <1>8, <1>9, <1>10 DEF User

\* Every step keeps the types.
LEMMA TypeStep == TypeOK /\ [Next]_vars => TypeOK'
<1> SUFFICES ASSUME TypeOK, [Next]_vars PROVE TypeOK'
  OBVIOUS
<1>1. CASE UNCHANGED vars
  BY <1>1 DEF vars, table, claim, memory, campaigns, world, history, TypeOK
<1> QED
  BY <1>1, TypeTick, TypeOutcome, TypeAccidents, TypeOthers DEF Next, Step

\* Type correctness of the tables of the content scheduler and of the memory
\* of its processes, whatever workers, users and accidents do.
THEOREM TypeCorrect == Spec => []TypeOK
  BY TypeInit, TypeStep, PTL DEF Spec

----------------------------------------------------------------------------
(* What a step does to one row *)

\* Where a worker may still go on to a post or give the row up.
Seeking == {"check", "reserve", "call", "release", "giveup"}

\* Where a worker has the post that Meta made and the row does not.
InHand == {"taken", "commit", "store"}

\* Where a worker will write to the row or has just published it.
Hands == Seeking \cup InHand \cup {"reset"}

\* The workers at a row stay where they are, and no other comes.
Unmoved(i) ==
    \A v \in Workers : At(v, i) \/ At(v, i)' =>
        pc'[v] = pc[v] /\ cur'[v] = cur[v] /\ outcome'[v] = outcome[v]

\* Posts and credits of a row stay as they are.
BooksStay(i) ==
    /\ usage'[i] = usage[i] /\ posts'[i] = posts[i]
    /\ stored'[i] = stored[i] /\ stranded'[i] = stranded[i]

DoubtsStay(i) == doubts'[i] = doubts[i] /\ overtaken'[i] = overtaken[i]

\* The step is not about the row.
Same(i) ==
    /\ Unmoved(i) /\ BooksStay(i) /\ DoubtsStay(i)
    /\ status'[i] = status[i] /\ origin'[i] = origin[i]
    /\ owner'[i] = owner[i] /\ warned'[i] = warned[i]

\* A user or a campaign makes, reopens or cancels the row.
Moved(i) ==
    /\ Unmoved(i) /\ BooksStay(i) /\ DoubtsStay(i)
    /\ status[i] \in {"none", "pending", "failed"}
    /\ status'[i] \in {"pending", "cancelled"}
    /\ owner'[i] \in {owner[i], None}
    /\ warned'[i] = warned[i] \/ ~warned'[i]

\* A stale claim of the row is recovered.
Recovered(i) ==
    /\ Unmoved(i) /\ BooksStay(i)
    /\ status[i] = "processing"
    /\ status'[i] = IF stored[i] THEN "published" ELSE "pending"
    /\ origin'[i] = origin[i] /\ owner'[i] = None /\ warned'[i] = warned[i]
    /\ doubts'[i] = IF Claimed(i) THEN doubts[i] + 1 ELSE doubts[i]
    /\ overtaken'[i] = (overtaken[i] \/ Claimed(i))

\* A worker takes the row.
Taken(w, i) ==
    /\ pc[w] = "next" /\ pc' = [pc EXCEPT ![w] = "check"]
    /\ cur' = [cur EXCEPT ![w] = i] /\ outcome' = outcome
    /\ BooksStay(i) /\ DoubtsStay(i)
    /\ status[i] = "pending" /\ status'[i] = "processing"
    /\ origin'[i] = origin[i] /\ owner'[i] = w /\ warned'[i] = warned[i]

\* A worker at its row makes a step.
Work(w) ==
    /\ pc[w] \in Busy
    /\ \/ DeferByPolicy(w) \/ Begin(w) \/ Reserve(w) \/ Refuse(w)
       \/ MetaPosts(w) \/ MetaRefuses(w) \/ Answer(w) \/ LoseAnswer(w)
       \/ Commit(w) \/ CommitFails(w) \/ Release(w) \/ ReleaseFails(w)
       \/ Store(w) \/ ResetFailures(w) \/ OutcomeFails(w)
       \/ GiveUp(w) \/ CountFailure(w) \/ Pause(w) \/ Crash(w)

\* The memory of the other workers is their own.
OthersStay(w) ==
    \A v \in Workers : v # w =>
        pc'[v] = pc[v] /\ cur'[v] = cur[v] /\ outcome'[v] = outcome[v]

\* A worker that leaves its row goes where none is held.
LEMMA WorkMoves ==
  ASSUME TypeOK, NEW w \in Workers, Work(w)
  PROVE  /\ OthersStay(w)
         /\ pc'[w] \in Busy => cur'[w] = cur[w]
<1> USE DEF memory, claim, Goto, NextRow, Busy, Places, OthersStay
<1>0. /\ pc \in [Workers -> Places] /\ cur \in [Workers -> Rows]
      /\ outcome \in [Workers -> {"none", "retry", "final", "warned"}]
  BY DEF TypeOK
<1>1. CASE DeferByPolicy(w) \/ Begin(w) \/ Reserve(w) \/ Refuse(w)
  BY <1>0, <1>1 DEF DeferByPolicy, Begin, Reserve, Refuse
<1>2. CASE MetaPosts(w) \/ MetaRefuses(w) \/ Answer(w) \/ LoseAnswer(w)
  BY <1>0, <1>2 DEF MetaPosts, MetaRefuses, Answer, LoseAnswer
<1>3. CASE Commit(w) \/ CommitFails(w) \/ Release(w) \/ ReleaseFails(w)
  BY <1>0, <1>3 DEF Commit, CommitFails, Release, ReleaseFails
<1>4. CASE Store(w) \/ GiveUp(w)
  BY <1>0, <1>4 DEF Store, GiveUp, CampaignStep
<1>5. CASE ResetFailures(w) \/ OutcomeFails(w) \/ CountFailure(w)
  BY <1>0, <1>5 DEF ResetFailures, OutcomeFails, CountFailure
<1>6. CASE Pause(w) \/ Crash(w)
  BY <1>0, <1>6 DEF Pause, Crash, Abandon
<1> QED
  BY <1>1, <1>2, <1>3, <1>4, <1>5, <1>6 DEF Work

\* A worker writes to no row but its own.
LEMMA WorkWrites ==
  ASSUME TypeOK, NEW w \in Workers, Work(w), NEW i \in Rows, i # cur[w]
  PROVE  /\ BooksStay(i) /\ DoubtsStay(i)
         /\ status'[i] = status[i] /\ origin'[i] = origin[i]
         /\ owner'[i] = owner[i] /\ warned'[i] = warned[i]
<1> USE DEF table, world, history, BooksStay, DoubtsStay
<1>0. /\ status \in [Rows -> {"none", "pending", "processing", "published",
                              "failed", "cancelled"}]
      /\ owner \in [Rows -> Workers \cup {None}] /\ stored \in [Rows -> BOOLEAN]
      /\ warned \in [Rows -> BOOLEAN] /\ posts \in [Rows -> Nat]
      /\ usage \in [Rows -> {"none", "reserved", "committed", "released"}]
      /\ doubts \in [Rows -> Nat] /\ stranded \in [Rows -> BOOLEAN]
  BY DEF TypeOK
<1>1. CASE DeferByPolicy(w) \/ Begin(w) \/ Reserve(w) \/ Refuse(w)
  BY <1>0, <1>1 DEF DeferByPolicy, Begin, Reserve, Refuse
<1>2. CASE MetaPosts(w) \/ MetaRefuses(w) \/ Answer(w) \/ LoseAnswer(w)
  BY <1>0, <1>2 DEF MetaPosts, MetaRefuses, Answer, LoseAnswer, Doubt
<1>3. CASE Commit(w) \/ CommitFails(w) \/ Release(w) \/ ReleaseFails(w)
  BY <1>0, <1>3 DEF Commit, CommitFails, Release, ReleaseFails, Strand
<1>4. CASE Store(w) \/ GiveUp(w)
  BY <1>0, <1>4 DEF Store, GiveUp
<1>5. CASE ResetFailures(w) \/ OutcomeFails(w) \/ CountFailure(w)
  BY <1>0, <1>5 DEF ResetFailures, OutcomeFails, CountFailure, Doubt, Strand
<1>6. CASE Pause(w) \/ Crash(w)
  BY <1>0, <1>6 DEF Pause, Crash, Abandon
<1> QED
  BY <1>1, <1>2, <1>3, <1>4, <1>5, <1>6 DEF Work

\* To any other row nothing happens.
LEMMA WorkElsewhere ==
  ASSUME TypeOK, NEW w \in Workers, Work(w), NEW i \in Rows, i # cur[w]
  PROVE  Same(i)
<1>1. Unmoved(i)
  BY WorkMoves DEF Unmoved, OthersStay, At
<1> QED
  BY <1>1, WorkWrites DEF Same

\* A stretch of the recovery leaves a row alone or recovers it.
LEMMA RecoveryOfRow ==
  ASSUME TypeOK, NEW S, RecoverRows(S), NEW i \in Rows, Unmoved(i),
         \A j \in S : Recoverable(j),
         UNCHANGED <<origin, stored, warned, usage, posts, stranded>>
  PROVE  Same(i) \/ Recovered(i)
<1>1. CASE i \in S
  <2>1. /\ status[i] = "processing"
        /\ status'[i] = IF stored[i] THEN "published" ELSE "pending"
        /\ owner'[i] = None
    BY <1>1 DEF Recoverable, RecoverRows
  <2>2. doubts'[i] = IF Claimed(i) THEN doubts[i] + 1 ELSE doubts[i]
    BY <1>1 DEF RecoverRows
  <2>3. overtaken'[i] = (overtaken[i] \/ Claimed(i))
    BY <1>1 DEF RecoverRows
  <2> QED
    BY <2>1, <2>2, <2>3 DEF Recovered, BooksStay
<1>2. CASE i \notin S
  <2>1. status'[i] = status[i] /\ owner'[i] = owner[i] /\ doubts'[i] = doubts[i]
    BY <1>2 DEF RecoverRows
  <2>2. overtaken'[i] = overtaken[i]
    BY <1>2 DEF RecoverRows, TypeOK
  <2> QED
    BY <2>1, <2>2 DEF Same, BooksStay, DoubtsStay
<1> QED
  BY <1>1, <1>2

\* A tick moves, recovers and takes rows; a process that fails between rows
\* leaves them alone.
LEMMA TickOfRow ==
  ASSUME TypeOK, NEW w \in Workers, NEW i \in Rows,
         \/ StartTick(w) \/ Materialize(w) \/ Select(w) \/ Claim(w)
         \/ EndTick(w) \/ TickAges(w) \/ RecoveryFails(w)
         \/ Crash(w) /\ pc[w] \notin Busy
  PROVE  Same(i) \/ Moved(i) \/ Recovered(i) \/ Taken(w, i)
<1> USE DEF table, claim, memory, campaigns, world, history, Goto
<1>0. /\ pc \in [Workers -> Places] /\ cur \in [Workers -> Rows]
      /\ outcome \in [Workers -> {"none", "retry", "final", "warned"}]
      /\ status \in [Rows -> {"none", "pending", "processing", "published",
                              "failed", "cancelled"}]
  BY DEF TypeOK
<1>a. ASSUME UNCHANGED <<status, origin, owner, warned, usage, posts, stored,
                         stranded, doubts, overtaken>>
      PROVE  BooksStay(i) /\ DoubtsStay(i) /\ (Unmoved(i) => Same(i))
  BY <1>a DEF BooksStay, DoubtsStay, Same
<1>1. CASE StartTick(w) \/ EndTick(w) \/ TickAges(w)
  <2>1. Unmoved(i)
    BY <1>0, <1>1 DEF StartTick, EndTick, TickAges, Unmoved, At, Busy
  <2> QED
    BY <1>1, <1>a, <2>1 DEF StartTick, EndTick, TickAges
<1>2. CASE Crash(w) /\ pc[w] \notin Busy
  <2>1. Unmoved(i)
    BY <1>0, <1>2 DEF Crash, Abandon, Unmoved, At, Busy
  <2>2. pc[w] \notin {"taken", "commit", "store"}
    BY <1>2 DEF Busy, Places
  <2>3. doubts' = doubts /\ stranded' = stranded
    BY <1>2, <2>2 DEF Crash, TypeOK
  <2> QED
    BY <1>2, <1>a, <2>1, <2>3 DEF Crash, Abandon
<1>3. CASE Materialize(w)
  <2>1. Unmoved(i)
    BY <1>0, <1>3 DEF Materialize, Unmoved, At, Busy
  <2>2. CASE UNCHANGED table
    BY <1>3, <1>a, <2>1, <2>2 DEF Materialize
  <2>3. ASSUME NEW j \in Rows, Insert(j, "campaign", TRUE)
        PROVE  Same(i) \/ Moved(i)
    <3>1. UNCHANGED <<usage, posts, stranded, doubts, overtaken, owner, stored,
                      warned>>
      BY <1>3, <2>3 DEF Materialize, Insert
    <3>2. CASE i = j
      BY <1>0, <2>1, <2>3, <3>1, <3>2
      DEF Insert, Free, Moved, BooksStay, DoubtsStay
    <3>3. CASE i # j
      BY <1>0, <2>1, <2>3, <3>1, <3>3
      DEF Insert, Same, BooksStay, DoubtsStay, TypeOK
    <3> QED
      BY <3>2, <3>3
  <2> QED
    BY <1>3, <2>2, <2>3 DEF Materialize
<1>4. CASE Select(w)
  <2>1. Unmoved(i)
    BY <1>0, <1>4 DEF Select, Unmoved, At, Busy
  <2> QED
    BY <1>4, <2>1, RecoveryOfRow DEF Select
<1>5. CASE RecoveryFails(w)
  <2>1. Unmoved(i)
    BY <1>0, <1>5 DEF RecoveryFails, Abandon, Unmoved, At, Busy
  <2>2. UNCHANGED <<origin, stored, warned, usage, posts, stranded>>
    BY <1>5 DEF RecoveryFails, Abandon
  <2>3. RecoverRows({j \in Rows : Recoverable(j) /\ stored[j]})
    BY <1>5 DEF RecoveryFails
  <2> QED
    BY <2>1, <2>2, <2>3, RecoveryOfRow
<1>6. CASE Claim(w)
  <2>1. pc[w] = "next" /\ UNCHANGED <<origin, stored, warned, usage, outcome,
                                      posts, stranded, doubts, overtaken>>
    BY <1>6 DEF Claim
  <2>2. PICK j \in todo[w] :
            \/ /\ Claimable(j)
               /\ status' = [status EXCEPT ![j] = "processing"]
               /\ owner' = [owner EXCEPT ![j] = w]
               /\ cur' = [cur EXCEPT ![w] = j]
               /\ pc' = [pc EXCEPT ![w] = "check"]
            \/ UNCHANGED <<status, owner, cur, pc>>
    BY <1>6 DEF Claim
  <2>3. j \in Rows /\ owner \in [Rows -> Workers \cup {None}]
    BY <2>2 DEF TypeOK
  <2>4. CASE UNCHANGED <<status, owner, cur, pc>>
    BY <1>a, <2>1, <2>4 DEF Unmoved
  <2>5. CASE /\ Claimable(j)
             /\ status' = [status EXCEPT ![j] = "processing"]
             /\ owner' = [owner EXCEPT ![j] = w]
             /\ cur' = [cur EXCEPT ![w] = j]
             /\ pc' = [pc EXCEPT ![w] = "check"]
    <3>1. CASE i = j
      BY <1>0, <2>1, <2>3, <2>5, <3>1
      DEF Claimable, Taken, BooksStay, DoubtsStay
    <3>2. CASE i # j
      <4>1. Unmoved(i)
        BY <1>0, <2>1, <2>3, <2>5, <3>2 DEF Unmoved, At, Busy
      <4> QED
        BY <1>0, <2>1, <2>3, <2>5, <3>2, <4>1 DEF Same, BooksStay, DoubtsStay
    <3> QED
      BY <3>1, <3>2
  <2> QED
    BY <2>2, <2>4, <2>5
<1> QED
  BY <1>1, <1>2, <1>3, <1>4, <1>5, <1>6

\* Users and time move rows that nobody works on.
LEMMA OthersOfRow ==
  ASSUME TypeOK, NEW i \in Rows,
         \/ User
         \/ SlotComes
         \/ \E j \in Rows : BecomeDue(j) \/ ClaimAges(j)
  PROVE  Same(i) \/ Moved(i)
<1> USE DEF table, claim, memory, campaigns, world, history, UserOnly,
            BooksStay, DoubtsStay
<1>0. /\ status \in [Rows -> {"none", "pending", "processing", "published",
                              "failed", "cancelled"}]
      /\ owner \in [Rows -> Workers \cup {None}] /\ warned \in [Rows -> BOOLEAN]
      /\ origin \in [Rows -> {"direct", "campaign"}]
  BY DEF TypeOK
<1>1. UNCHANGED <<pc, cur, outcome, usage, posts, stored, stranded, doubts,
                  overtaken>>
  BY DEF User, Schedule, RunNow, Insert, Retry, PublishNow, Cancel,
         EditCampaign, CompleteCampaign, UnlinkPage, SlotComes, BecomeDue,
         ClaimAges
<1>2. Unmoved(i) /\ BooksStay(i) /\ DoubtsStay(i)
  BY <1>1 DEF Unmoved
<1>3. ASSUME NEW j \in Rows, Schedule(j) \/ RunNow(j)
      PROVE  Same(i) \/ Moved(i)
  <2>1. /\ status[j] = "none" /\ status' = [status EXCEPT ![j] = "pending"]
        /\ \E from \in {"direct", "campaign"} :
               origin' = [origin EXCEPT ![j] = from]
        /\ UNCHANGED <<owner, warned>>
    BY <1>3 DEF Schedule, RunNow, Insert, Free
  <2> QED
    BY <1>0, <1>2, <2>1 DEF Same, Moved
<1>4. ASSUME NEW j \in Rows, Retry(j) PROVE Same(i) \/ Moved(i)
  BY <1>0, <1>2, <1>4 DEF Retry, Same, Moved
<1>5. ASSUME NEW j \in Rows, Cancel(j) PROVE Same(i) \/ Moved(i)
  BY <1>0, <1>2, <1>5 DEF Cancel, Same, Moved
<1>6. CASE UnlinkPage
  BY <1>2, <1>6 DEF UnlinkPage, Same, Moved
<1>7. CASE \/ EditCampaign \/ CompleteCampaign \/ SlotComes
           \/ \E j \in Rows : PublishNow(j) \/ BecomeDue(j) \/ ClaimAges(j)
  BY <1>2, <1>7
  DEF EditCampaign, CompleteCampaign, SlotComes, PublishNow, BecomeDue,
      ClaimAges, Same
<1> QED
  BY <1>3, <1>4, <1>5, <1>6, <1>7 DEF User

\* All that can happen to a row.
LEMMA RowStep ==
  ASSUME TypeOK, [Next]_vars, NEW i \in Rows
  PROVE  \/ Same(i) \/ Moved(i) \/ Recovered(i)
         \/ \E w \in Workers : Taken(w, i)
         \/ \E w \in Workers : Work(w) /\ cur[w] = i
<1>1. CASE UNCHANGED vars
  BY <1>1
  DEF vars, table, memory, claim, world, history, Same, Unmoved, BooksStay,
      DoubtsStay
<1>2. ASSUME NEW w \in Workers, Work(w)
      PROVE  Same(i) \/ cur[w] = i
  BY <1>2, WorkElsewhere
<1>3. ASSUME NEW w \in Workers, Step(w) \/ Accidents(w)
      PROVE  \/ Work(w)
             \/ StartTick(w) \/ Materialize(w) \/ Select(w) \/ Claim(w)
             \/ EndTick(w) \/ TickAges(w) \/ RecoveryFails(w)
             \/ Crash(w) /\ pc[w] \notin Busy
  BY <1>3
  DEF Step, Accidents, Work, Busy, Places, DeferByPolicy, Begin, Reserve,
      Refuse, MetaPosts, MetaRefuses, Answer, LoseAnswer, Commit, CommitFails,
      Release, ReleaseFails, Store, ResetFailures, OutcomeFails, GiveUp,
      CountFailure, Pause
<1> QED
  BY <1>1, <1>2, <1>3, TickOfRow, OthersOfRow DEF Next

----------------------------------------------------------------------------
(* Claims *)

\* Who has a row in hands holds its claim, or has just published it for the
\* campaign and may yet give it up; rows taken from a live worker excepted.
Owned(i) ==
    ~overtaken[i] => \A w \in Workers : cur[w] = i /\ pc[w] \in Hands =>
        \/ status[i] = "processing" /\ owner[i] = w /\ pc[w] # "reset"
        \/ /\ status[i] = "published" /\ origin[i] = "campaign"
           /\ \/ pc[w] = "reset"
              \/ pc[w] = "giveup" /\ outcome[w] = "final"

\* Nobody else has it.  Outcomes are written by id only; this makes them safe.
Alone(i) ==
    ~overtaken[i] => \A v, w \in Workers :
        cur[v] = i /\ cur[w] = i /\ pc[v] \in Hands /\ pc[w] \in Hands => v = w

\* The claim is given back with the outcome.
Left(i) ==
    \A w \in Workers :
        cur[w] = i /\ pc[w] \in {"reset", "count", "pause"} => owner[i] # w

\* Published rows have a post, and only they have a warning.
Marked(i) ==
    /\ status[i] = "published" => stored[i]
    /\ warned[i] => status[i] = "published"

RowClaims(i) == Owned(i) /\ Alone(i) /\ Left(i) /\ Marked(i)

Claims == TypeOK /\ \A i \in Rows : RowClaims(i)

\* A row of which no worker has anything in hands.
Untouched(i) == \A w \in Workers : cur[w] = i => pc[w] \notin Hands

\* Only rows that are processed or published are in hands.
LEMMA OpenIsUntouched ==
  ASSUME Claims, NEW i \in Rows, ~overtaken[i],
         \/ status[i] \in {"none", "pending", "failed", "cancelled"}
         \/ status[i] = "processing" /\ ~Claimed(i)
  PROVE  Untouched(i)
<1> SUFFICES ASSUME NEW w \in Workers, cur[w] = i, pc[w] \in Hands
             PROVE  FALSE
  BY DEF Untouched
<1>1. status[i] = "processing" /\ owner[i] = w
  BY DEF Claims, RowClaims, Owned
<1>2. Claimed(i)
  BY <1>1 DEF Claimed, At, Busy, Places, Hands, Seeking, InHand
<1> QED
  BY <1>1, <1>2

\* Steps that are not a worker's at the row.
LEMMA ClaimsAround ==
  ASSUME Claims, NEW i \in Rows,
         \/ Same(i) \/ Moved(i) \/ Recovered(i)
         \/ \E w \in Workers : Taken(w, i)
  PROVE  RowClaims(i)'
<1> USE DEF Hands, Seeking, InHand
<1>0. /\ pc \in [Workers -> Places] /\ cur \in [Workers -> Rows] /\ TypeOK
      /\ Owned(i) /\ Alone(i) /\ Left(i) /\ Marked(i) /\ None \notin Workers
  BY ContentConstants DEF Claims, RowClaims, TypeOK
<1>a. ASSUME Unmoved(i), NEW v \in Workers, pc'[v] \in Hands \cup {"count", "pause"},
             cur'[v] = i
      PROVE  pc[v] = pc'[v] /\ cur[v] = i /\ outcome'[v] = outcome[v]
  BY <1>a DEF Unmoved, At, Busy, Places
<1>1. CASE Same(i)
  <2>1. Unmoved(i)
    BY <1>1 DEF Same
  <2>2. Owned(i)' /\ Alone(i)' /\ Left(i)'
    BY <1>0, <1>1, <1>a, <2>1 DEF Same, DoubtsStay, Owned, Alone, Left
  <2>3. Marked(i)'
    BY <1>0, <1>1 DEF Same, BooksStay, Marked
  <2> QED
    BY <2>2, <2>3 DEF RowClaims
<1>2. CASE Moved(i)
  <2>1. Unmoved(i)
    BY <1>2 DEF Moved
  <2>2. Owned(i)' /\ Alone(i)'
    BY <1>a, <1>2, <2>1, OpenIsUntouched
    DEF Moved, DoubtsStay, Owned, Alone, Untouched
  <2>3. Left(i)'
    BY <1>0, <1>a, <1>2, <2>1 DEF Moved, Left
  <2>4. Marked(i)'
    BY <1>0, <1>2 DEF Moved, Marked
  <2> QED
    BY <2>2, <2>3, <2>4 DEF RowClaims
<1>3. CASE Recovered(i)
  <2>1. Unmoved(i) /\ status[i] = "processing"
    BY <1>3 DEF Recovered
  <2>2. Owned(i)' /\ Alone(i)'
    BY <1>a, <1>3, <2>1, OpenIsUntouched
    DEF Recovered, Owned, Alone, Untouched
  <2>3. Left(i)'
    BY <1>0, <1>3 DEF Recovered, Left
  <2>4. Marked(i)'
    BY <1>0, <1>3 DEF Recovered, BooksStay, Marked
  <2> QED
    BY <2>2, <2>3, <2>4 DEF RowClaims
<1>4. ASSUME NEW w \in Workers, Taken(w, i) PROVE RowClaims(i)'
  <2>1. /\ \A v \in Workers : v # w => pc'[v] = pc[v] /\ cur'[v] = cur[v]
        /\ pc'[w] = "check" /\ cur'[w] = i
    BY <1>0, <1>4 DEF Taken
  <2>2. ~overtaken[i] => Untouched(i)
    BY <1>4, OpenIsUntouched DEF Taken
  <2>3. Owned(i)' /\ Alone(i)'
    BY <1>4, <2>1, <2>2 DEF Taken, DoubtsStay, Owned, Alone, Untouched
  <2>4. Left(i)'
    BY <1>4, <2>1 DEF Taken, Left
  <2>5. Marked(i)'
    BY <1>0, <1>4 DEF Taken, BooksStay, Marked
  <2> QED
    BY <2>3, <2>4, <2>5 DEF RowClaims
<1> QED
  BY <1>1, <1>2, <1>3, <1>4

\* A worker at its row: where it may go from where it is.
LEMMA WorkLeads ==
  ASSUME TypeOK, NEW w \in Workers, Work(w)
  PROVE  /\ pc'[w] \in Hands => pc[w] \in Hands
         /\ pc'[w] = "reset" => Store(w) /\ origin[cur[w]] = "campaign"
         /\ pc'[w] \in {"count", "pause"} =>
                GiveUp(w) \/ (pc[w] = "count" /\ owner' = owner)
<1> USE DEF Goto, NextRow, Hands, Seeking, InHand
<1>0. pc \in [Workers -> Places]
  BY DEF TypeOK
<1>1. CASE DeferByPolicy(w) \/ Begin(w) \/ Reserve(w) \/ Refuse(w)
  BY <1>0, <1>1 DEF DeferByPolicy, Begin, Reserve, Refuse
<1>2. CASE MetaPosts(w) \/ MetaRefuses(w) \/ Answer(w) \/ LoseAnswer(w)
  BY <1>0, <1>2 DEF MetaPosts, MetaRefuses, Answer, LoseAnswer, AfterError
<1>3. CASE Commit(w) \/ CommitFails(w) \/ Release(w) \/ ReleaseFails(w)
  BY <1>0, <1>3 DEF Commit, CommitFails, Release, ReleaseFails,
                    AfterBillingError
<1>4. CASE Store(w)
  <2>1. cur[w] \in Rows /\ origin[cur[w]] \in {"direct", "campaign"}
    BY DEF TypeOK
  <2> QED
    BY <1>0, <1>4, <2>1 DEF Store, CampaignStep
<1>5. CASE GiveUp(w)
  BY <1>0, <1>5 DEF GiveUp, CampaignStep
<1>6. CASE ResetFailures(w) \/ OutcomeFails(w) \/ CountFailure(w)
  BY <1>0, <1>6 DEF ResetFailures, OutcomeFails, CountFailure, table
<1>7. CASE Pause(w) \/ Crash(w)
  BY <1>0, <1>7 DEF Pause, Crash, Abandon
<1> QED
  BY <1>1, <1>2, <1>3, <1>4, <1>5, <1>6, <1>7 DEF Work

\* A worker at its row that goes on keeps the row, and one that leaves it
\* gives the claim back.
LEMMA WorkKeepsRow ==
  ASSUME Claims, NEW w \in Workers, Work(w), NEW i \in Rows, i = cur[w]
  PROVE  /\ stored[i] => stored'[i]
         /\ origin'[i] = origin[i]
         /\ overtaken'[i] = overtaken[i]
         /\ pc'[w] \in Hands \ {"reset"} =>
                status'[i] = status[i] /\ owner'[i] = owner[i]
         /\ pc'[w] \in Hands /\ status[i] = "published" /\ ~overtaken[i] =>
                OutcomeFails(w)
<1> USE DEF table, world, history, Goto, NextRow, Hands, Seeking, InHand
<1>0. /\ pc \in [Workers -> Places] /\ TypeOK /\ Owned(i) /\ stored[i] \in BOOLEAN
      /\ stored \in [Rows -> BOOLEAN]
  BY DEF Claims, RowClaims, TypeOK
<1>a. ~overtaken[i] /\ status[i] = "published" /\ pc[w] \in Hands =>
          pc[w] = "reset" \/ pc[w] = "giveup"
  BY <1>0 DEF Owned
<1>1. CASE DeferByPolicy(w) \/ Begin(w) \/ Reserve(w) \/ Refuse(w)
  BY <1>0, <1>a, <1>1 DEF DeferByPolicy, Begin, Reserve, Refuse
<1>2. CASE MetaPosts(w) \/ MetaRefuses(w) \/ Answer(w) \/ LoseAnswer(w)
  BY <1>0, <1>a, <1>2 DEF MetaPosts, MetaRefuses, Answer, LoseAnswer
<1>3. CASE Commit(w) \/ CommitFails(w) \/ Release(w) \/ ReleaseFails(w)
  BY <1>0, <1>a, <1>3 DEF Commit, CommitFails, Release, ReleaseFails
<1>4. CASE Store(w)
  BY <1>0, <1>a, <1>4 DEF Store, CampaignStep
<1>5. CASE GiveUp(w)
  BY <1>0, <1>5 DEF GiveUp, CampaignStep
<1>6. CASE ResetFailures(w) \/ OutcomeFails(w) \/ CountFailure(w)
  BY <1>0, <1>6 DEF ResetFailures, OutcomeFails, CountFailure
<1>7. CASE Pause(w) \/ Crash(w)
  BY <1>0, <1>7 DEF Pause, Crash, Abandon
<1> QED
  BY <1>1, <1>2, <1>3, <1>4, <1>5, <1>6, <1>7 DEF Work

\* A published row is marked, whatever its worker does.
LEMMA MarkedWork ==
  ASSUME Claims, NEW w \in Workers, Work(w), NEW i \in Rows, i = cur[w]
  PROVE  Marked(i)'
<1> USE DEF table, world, history, Marked
<1>0. /\ TypeOK /\ Marked(i)
      /\ status \in [Rows -> {"none", "pending", "processing", "published",
                              "failed", "cancelled"}]
      /\ stored \in [Rows -> BOOLEAN] /\ warned \in [Rows -> BOOLEAN]
  BY DEF Claims, RowClaims, TypeOK
<1>1. CASE DeferByPolicy(w) \/ Begin(w)
  BY <1>0, <1>1 DEF DeferByPolicy, Begin, Owns
<1>2. CASE Store(w)
  BY <1>0, <1>2 DEF Store
<1>3. CASE GiveUp(w)
  BY <1>0, <1>3 DEF GiveUp, AfterFailure
<1>4. CASE \/ Reserve(w) \/ Refuse(w) \/ MetaPosts(w) \/ MetaRefuses(w)
           \/ Answer(w) \/ LoseAnswer(w) \/ Commit(w) \/ CommitFails(w)
           \/ Release(w) \/ ReleaseFails(w)
           \/ ResetFailures(w) \/ OutcomeFails(w) \/ CountFailure(w)
           \/ Pause(w) \/ Crash(w)
  <2>1. UNCHANGED <<status, stored, warned>>
    BY <1>4
    DEF Reserve, Refuse, MetaPosts, MetaRefuses, Answer, LoseAnswer, Commit,
        CommitFails, Release, ReleaseFails, ResetFailures, OutcomeFails,
        CountFailure, Pause, Crash, Abandon
  <2> QED
    BY <1>0, <2>1
<1> QED
  BY <1>1, <1>2, <1>3, <1>4 DEF Work

\* The step of a worker at its row.
LEMMA ClaimsWork ==
  ASSUME Claims, NEW w \in Workers, Work(w), NEW i \in Rows, i = cur[w]
  PROVE  RowClaims(i)'
<1>0. /\ TypeOK /\ Owned(i) /\ Alone(i) /\ Left(i)
      /\ status \in [Rows -> {"none", "pending", "processing", "published",
                              "failed", "cancelled"}]
      /\ owner \in [Rows -> Workers \cup {None}] /\ None \notin Workers
  BY ContentConstants DEF Claims, RowClaims, TypeOK
<1>1. /\ \A v \in Workers : v # w =>
             pc'[v] = pc[v] /\ cur'[v] = cur[v] /\ outcome'[v] = outcome[v]
      /\ pc'[w] \in Busy => cur'[w] = cur[w]
  BY <1>0, WorkMoves DEF OthersStay
<1>2. /\ pc'[w] \in Hands => pc[w] \in Hands
      /\ pc'[w] = "reset" => Store(w) /\ origin[i] = "campaign"
  BY <1>0, WorkLeads
<1>3. /\ origin'[i] = origin[i] /\ overtaken'[i] = overtaken[i]
      /\ pc'[w] \in Hands \ {"reset"} =>
             status'[i] = status[i] /\ owner'[i] = owner[i]
      /\ pc'[w] \in Hands /\ status[i] = "published" /\ ~overtaken[i] =>
             OutcomeFails(w)
  BY WorkKeepsRow
<1>4. Alone(i)'
  BY <1>0, <1>1, <1>2, <1>3 DEF Alone, Hands, Seeking, InHand, Busy, Places
<1>5. Owned(i)'
  <2> SUFFICES ASSUME ~overtaken[i], NEW v \in Workers, cur'[v] = i,
                      pc'[v] \in Hands
               PROVE  \/ /\ status'[i] = "processing" /\ owner'[i] = v
                         /\ pc'[v] # "reset"
                      \/ /\ status'[i] = "published" /\ origin'[i] = "campaign"
                         /\ \/ pc'[v] = "reset"
                            \/ pc'[v] = "giveup" /\ outcome'[v] = "final"
    BY <1>3 DEF Owned
  <2>1. CASE v # w
    <3>1. cur[v] = i /\ pc[v] \in Hands
      BY <1>1, <2>1
    <3>2. pc[w] \notin Hands
      BY <1>0, <2>1, <3>1 DEF Alone
    <3>3. CountFailure(w) \/ Pause(w) \/ Crash(w)
      BY <3>2
      DEF Work, Hands, Seeking, InHand, DeferByPolicy, Begin, Reserve, Refuse,
          MetaPosts, MetaRefuses, Answer, LoseAnswer, Commit, CommitFails,
          Release, ReleaseFails, Store, ResetFailures, OutcomeFails, GiveUp
    <3>4. status' = status /\ owner' = owner
      BY <3>3 DEF CountFailure, Pause, Crash, table
    <3> QED
      BY <1>0, <1>1, <1>3, <2>1, <3>1, <3>4 DEF Owned
  <2>2. CASE v = w /\ pc'[w] = "reset"
    <3>1. status'[i] = "published"
      BY <1>0, <1>2, <2>2 DEF Store
    <3> QED
      BY <1>2, <1>3, <2>2, <3>1
  <2>3. CASE v = w /\ pc'[w] # "reset"
    <3>1. CASE status[i] = "processing"
      BY <1>0, <1>2, <1>3, <2>3, <3>1 DEF Owned
    <3>2. CASE status[i] # "processing"
      <4>1. status[i] = "published" /\ origin[i] = "campaign"
        BY <1>0, <1>2, <2>3, <3>2 DEF Owned
      <4>2. OutcomeFails(w)
        BY <1>3, <2>3, <4>1
      <4>3. pc'[w] = "giveup" /\ outcome'[w] = "final"
        BY <1>0, <4>2 DEF OutcomeFails, Goto, TypeOK
      <4> QED
        BY <1>3, <2>3, <4>1, <4>3
    <3> QED
      BY <3>1, <3>2
  <2> QED
    BY <2>1, <2>2, <2>3
<1>6. Left(i)'
  <2> SUFFICES ASSUME NEW v \in Workers, cur'[v] = i,
                      pc'[v] \in {"reset", "count", "pause"}
               PROVE  owner'[i] # v
    BY DEF Left
  <2>1. CASE v # w
    <3>1. owner[i] # v
      BY <1>0, <1>1, <2>1 DEF Left
    <3>2. owner'[i] \in {owner[i], None}
      BY <1>0
      DEF Work, DeferByPolicy, Begin, Reserve, Refuse, MetaPosts, MetaRefuses,
          Answer, LoseAnswer, Commit, CommitFails, Release, ReleaseFails,
          Store, ResetFailures, OutcomeFails, GiveUp, CountFailure, Pause,
          Crash, table
    <3> QED
      BY <1>0, <3>1, <3>2
  <2>2. CASE v = w
    <3>1. \/ Store(w) \/ GiveUp(w)
          \/ pc[w] = "count" /\ owner' = owner
      BY <1>0, <2>2, WorkLeads
    <3>2. CASE Store(w) \/ GiveUp(w)
      BY <1>0, <2>2, <3>2 DEF Store, GiveUp
    <3>3. CASE pc[w] = "count" /\ owner' = owner
      BY <1>0, <2>2, <3>3 DEF Left
    <3> QED
      BY <3>1, <3>2, <3>3
  <2> QED
    BY <2>1, <2>2
<1> QED
  BY <1>4, <1>5, <1>6, MarkedWork DEF RowClaims

\* Claims always hold.
LEMMA ClaimsAlways == Spec => []Claims
<1>1. Init => Claims
  <2> SUFFICES ASSUME Init PROVE Claims
    OBVIOUS
  <2>1. \A i \in Rows : RowClaims(i)
    BY DEF Init, RowClaims, Owned, Alone, Left, Marked, Hands, Seeking, InHand
  <2> QED
    BY <2>1, TypeInit DEF Claims
<1>2. Claims /\ [Next]_vars => Claims'
  <2> SUFFICES ASSUME Claims, [Next]_vars PROVE Claims'
    OBVIOUS
  <2>1. TypeOK'
    BY TypeStep DEF Claims
  <2>2. ASSUME NEW i \in Rows PROVE RowClaims(i)'
    BY RowStep, ClaimsAround, ClaimsWork DEF Claims
  <2> QED
    BY <2>1, <2>2 DEF Claims
<1> QED
  BY <1>1, <1>2, PTL DEF Spec

----------------------------------------------------------------------------
(* Finality *)

\* A published row keeps its post.  It is opened again only by the worker that
\* published it for a campaign, whose next statement threw, unless it was taken
\* from a live worker; then it may be overwritten.
THEOREM PublishedStaysPublished == Spec => PublishedIsFinal
<1> DEFINE Final(i) ==
        /\ stored'[i]
        /\ \/ status'[i] = "published"
           \/ overtaken[i]
           \/ /\ status'[i] = "failed"
              /\ origin[i] = "campaign"
              /\ \E w \in Workers : pc[w] = "giveup" /\ cur[w] = i
<1>1. ASSUME Claims, [Next]_vars, NEW i \in Rows, status[i] = "published"
      PROVE  Final(i)
  <2>0. /\ stored[i] /\ Owned(i) /\ TypeOK
        /\ status \in [Rows -> {"none", "pending", "processing", "published",
                                "failed", "cancelled"}]
    BY <1>1 DEF Claims, RowClaims, Marked, TypeOK
  <2>1. CASE Same(i)
    BY <2>0, <1>1, <2>1 DEF Same, BooksStay
  <2>2. ASSUME NEW w \in Workers, Work(w), cur[w] = i PROVE Final(i)
    <3>1. stored'[i]
      BY <1>1, <2>0, <2>2, WorkKeepsRow
    <3>2. CASE GiveUp(w)
      <4>1. pc[w] = "giveup" /\ status'[i] = AfterFailure(w)
        BY <2>0, <2>2, <3>2 DEF GiveUp
      <4>2. overtaken[i] \/ (origin[i] = "campaign" /\ outcome[w] = "final")
        BY <1>1, <2>0, <2>2, <4>1 DEF Owned, Hands, Seeking
      <4>3. outcome[w] = "final" => status'[i] = "failed"
        BY <4>1 DEF AfterFailure, CanRetry
      <4> QED
        BY <2>2, <3>1, <4>1, <4>2, <4>3
    <3>3. CASE ~GiveUp(w)
      <4>1. status'[i] = "published"
        BY <1>1, <2>0, <2>2, <3>3
        DEF Work, DeferByPolicy, Owns, Begin, Reserve, Refuse, MetaPosts,
            MetaRefuses, Answer, LoseAnswer, Commit, CommitFails, Release,
            ReleaseFails, Store, ResetFailures, OutcomeFails, CountFailure,
            Pause, Crash, table
      <4> QED
        BY <3>1, <4>1
    <3> QED
      BY <3>2, <3>3
  <2> QED
    BY <1>1, <2>0, <2>1, <2>2, RowStep DEF Moved, Recovered, Taken
<1>2. Claims /\ [Next]_vars => [\A i \in Rows : status[i] = "published" =>
                                    Final(i)]_vars
  BY <1>1
<1> QED
  BY <1>2, ClaimsAlways, PTL DEF Spec, PublishedIsFinal

----------------------------------------------------------------------------
(* Posts *)

\* Where the server knows of the latest post, before and after it is stored.
Knowing == InHand \cup {"reset"}

Knower(i) == \E w \in Workers : cur[w] = i /\ pc[w] \in Knowing

Quitter(i) == \E w \in Workers : cur[w] = i /\ pc[w] = "giveup"

\* All posts but the one that is known are in doubt; a published row that is
\* being given up has none that is known.
Accounted(i) ==
    ~overtaken[i] =>
        /\ Knower(i) => posts[i] = doubts[i] + 1
        /\ ~Knower(i) /\ (status[i] # "published" \/ Quitter(i)) =>
               posts[i] = doubts[i]
        /\ posts[i] \in {doubts[i], doubts[i] + 1}

\* Steps that are not a worker's at the row keep its account of posts.
LEMMA AccountAround ==
  ASSUME Claims, NEW i \in Rows, Accounted(i),
         \/ Same(i) \/ Moved(i) \/ Recovered(i)
         \/ \E w \in Workers : Taken(w, i)
  PROVE  Accounted(i)'
<1> USE DEF Hands, Seeking, InHand, Knowing
<1>0. TypeOK /\ pc \in [Workers -> Places] /\ cur \in [Workers -> Rows]
  BY DEF Claims, TypeOK
<1>a. ASSUME Unmoved(i), NEW v \in Workers
      PROVE  \A place \in Hands :
                 pc'[v] = place /\ cur'[v] = i <=> pc[v] = place /\ cur[v] = i
  BY <1>a DEF Unmoved, At, Busy, Places
<1>1. CASE Same(i)
  <2>1. Unmoved(i) /\ BooksStay(i) /\ DoubtsStay(i) /\ status'[i] = status[i]
    BY <1>1 DEF Same
  <2>2. (Knower(i)' <=> Knower(i)) /\ (Quitter(i)' <=> Quitter(i))
    BY <1>a, <2>1 DEF Knower, Quitter
  <2> QED
    BY <2>1, <2>2 DEF BooksStay, DoubtsStay, Accounted
<1>2. ASSUME Untouched(i), ~overtaken[i], status[i] # "published",
             posts'[i] = posts[i], doubts'[i] = doubts[i], ~Knower(i)'
      PROVE  Accounted(i)'
  <2>1. ~Knower(i)
    BY <1>2 DEF Untouched, Knower
  <2>2. posts[i] = doubts[i]
    BY <1>2, <2>1 DEF Accounted
  <2> QED
    BY <1>2, <2>2 DEF Accounted
<1>3. ASSUME Unmoved(i), Untouched(i) PROVE ~Knower(i)'
  BY <1>a, <1>3 DEF Knower, Untouched
<1>4. CASE Moved(i)
  <2>1. ~overtaken[i] => Untouched(i)
    BY <1>4, OpenIsUntouched DEF Moved
  <2> QED
    BY <1>2, <1>3, <1>4, <2>1 DEF Moved, BooksStay, DoubtsStay, Accounted
<1>5. CASE Recovered(i)
  <2>1. ~overtaken'[i] => ~overtaken[i] /\ ~Claimed(i) /\ doubts'[i] = doubts[i]
    BY <1>5 DEF Recovered
  <2>2. ~overtaken'[i] => Untouched(i)
    BY <1>5, <2>1, OpenIsUntouched DEF Recovered
  <2> QED
    BY <1>2, <1>3, <1>5, <2>1, <2>2 DEF Recovered, BooksStay, Accounted
<1>6. ASSUME NEW w \in Workers, Taken(w, i) PROVE Accounted(i)'
  <2>1. ~overtaken[i] => Untouched(i)
    BY <1>6, OpenIsUntouched DEF Taken
  <2>2. Untouched(i) => ~Knower(i)'
    BY <1>0, <1>6 DEF Taken, Knower, Untouched
  <2> QED
    BY <1>2, <1>6, <2>1, <2>2 DEF Taken, BooksStay, DoubtsStay, Accounted
<1> QED
  BY <1>1, <1>4, <1>5, <1>6

\* Of a row in hands the server knows what the worker knows.
LEMMA HolderKnows ==
  ASSUME Claims, NEW w \in Workers, pc[w] \in Hands, ~overtaken[cur[w]]
  PROVE  /\ Knower(cur[w]) <=> pc[w] \in Knowing
         /\ Quitter(cur[w]) <=> pc[w] = "giveup"
<1>1. cur[w] \in Rows /\ Alone(cur[w])
  BY DEF Claims, RowClaims, TypeOK
<1>2. \A v \in Workers : cur[v] = cur[w] /\ pc[v] \in Hands => v = w
  BY <1>1 DEF Alone
<1> QED
  BY <1>2 DEF Knower, Quitter, Knowing, Hands, Seeking, InHand

\* The step of a worker at its row.
LEMMA AccountWork ==
  ASSUME Claims, NEW w \in Workers, Work(w), NEW i \in Rows, i = cur[w],
         Accounted(i)
  PROVE  Accounted(i)'
<1> USE DEF Goto, NextRow, world, history
<1>0. /\ TypeOK /\ Owned(i) /\ Alone(i)
      /\ pc \in [Workers -> Places] /\ cur \in [Workers -> Rows]
      /\ posts \in [Rows -> Nat] /\ doubts \in [Rows -> Nat]
      /\ posts[i] \in Nat /\ doubts[i] \in Nat
  BY DEF Claims, RowClaims, TypeOK
<1>1. /\ \A v \in Workers : v # w => pc'[v] = pc[v] /\ cur'[v] = cur[v]
      /\ pc'[w] \in Busy => cur'[w] = i
  BY <1>0, WorkMoves DEF OthersStay
<1>2. overtaken'[i] = overtaken[i]
  BY WorkKeepsRow
<1>3. SUFFICES ASSUME ~overtaken[i]
               PROVE  /\ Knower(i)' => posts'[i] = doubts'[i] + 1
                      /\ ~Knower(i)' /\ (status'[i] # "published" \/ Quitter(i)') =>
                             posts'[i] = doubts'[i]
                      /\ posts'[i] \in {doubts'[i], doubts'[i] + 1}
  BY <1>2 DEF Accounted
<1>4. CASE pc[w] \notin Hands
  <2>1. CountFailure(w) \/ Pause(w) \/ Crash(w)
    BY <1>4
    DEF Work, Hands, Seeking, InHand, DeferByPolicy, Begin, Reserve, Refuse,
        MetaPosts, MetaRefuses, Answer, LoseAnswer, Commit, CommitFails,
        Release, ReleaseFails, Store, ResetFailures, OutcomeFails, GiveUp
  <2>2. pc'[w] \notin Hands
    BY <1>0, <1>4, WorkLeads
  <2>3. status' = status /\ posts' = posts
    BY <2>1 DEF CountFailure, Pause, Crash, Abandon, table
  <2>4. doubts' = doubts
    <3>1. CASE CountFailure(w) \/ Pause(w)
      BY <3>1 DEF CountFailure, Pause
    <3>2. CASE Crash(w)
      BY <1>0, <1>4, <3>2 DEF Crash, Hands, InHand
    <3> QED
      BY <2>1, <3>1, <3>2
  <2>5. (Knower(i)' <=> Knower(i)) /\ (Quitter(i)' <=> Quitter(i))
    BY <1>1, <1>4, <2>2
    DEF Knower, Quitter, Knowing, Hands, Seeking, InHand
  <2> QED
    BY <1>3, <2>3, <2>4, <2>5 DEF Accounted
<1>5. CASE pc[w] \in Hands
  <2>1. /\ Knower(i) <=> pc[w] \in Knowing
        /\ Quitter(i) <=> pc[w] = "giveup"
    BY <1>3, <1>5, HolderKnows
  <2>2. \A v \in Workers : v # w => ~(cur'[v] = i /\ pc'[v] \in Hands)
    BY <1>0, <1>1, <1>3, <1>5 DEF Alone
  <2>3. /\ Knower(i)' <=> pc'[w] \in Knowing
        /\ Quitter(i)' <=> pc'[w] = "giveup"
    BY <1>1, <2>2
    DEF Knower, Quitter, Knowing, Hands, Seeking, InHand, Busy, Places
  <2>4. CASE pc[w] \in Knowing
    <3>1. posts[i] = doubts[i] + 1
      BY <1>3, <2>1, <2>4 DEF Accounted
    <3>2. CASE Answer(w) \/ Commit(w) \/ CommitFails(w)
      <4>1. pc'[w] \in Knowing /\ posts' = posts /\ doubts' = doubts
        BY <1>0, <3>2
        DEF Answer, Commit, CommitFails, AfterBillingError, Knowing, InHand
      <4> QED
        BY <2>3, <3>1, <4>1
    <3>3. CASE Store(w) \/ ResetFailures(w)
      <4>1. posts' = posts /\ doubts' = doubts /\ pc'[w] # "giveup"
        BY <1>0, <3>3 DEF Store, CampaignStep, ResetFailures
      <4>2. status'[i] = "published"
        <5>1. CASE Store(w)
          BY <1>0, <5>1 DEF Store, TypeOK
        <5>2. CASE ResetFailures(w)
          BY <1>0, <1>3, <1>5, <5>2 DEF ResetFailures, table, Owned
        <5> QED
          BY <3>3, <5>1, <5>2
      <4> QED
        BY <2>3, <3>1, <4>1, <4>2
    <3>4. CASE LoseAnswer(w) \/ OutcomeFails(w)
      <4>1. /\ pc'[w] \notin Knowing /\ posts' = posts
            /\ doubts' = [doubts EXCEPT ![i] = @ + 1]
        BY <1>0, <3>4
        DEF LoseAnswer, OutcomeFails, AfterError, Doubt, Knowing, InHand
      <4> QED
        BY <1>0, <2>3, <3>1, <4>1
    <3>5. CASE Crash(w)
      <4>1. pc'[w] = "idle" /\ posts' = posts /\ status' = status
        BY <1>0, <3>5 DEF Crash, Abandon
      <4>2. CASE pc[w] \in InHand
        <5>1. doubts'[i] = doubts[i] + 1
          BY <1>0, <3>5, <4>2 DEF Crash, InHand
        <5> QED
          BY <1>0, <2>3, <3>1, <4>1, <5>1 DEF Knowing, InHand
      <4>3. CASE pc[w] = "reset"
        <5>1. doubts' = doubts
          BY <1>0, <3>5, <4>3 DEF Crash
        <5>2. status[i] = "published"
          BY <1>0, <1>3, <1>5, <4>3 DEF Owned
        <5> QED
          BY <2>3, <3>1, <4>1, <5>1, <5>2 DEF Knowing, InHand
      <4> QED
        BY <2>4, <4>2, <4>3 DEF Knowing
    <3> QED
      BY <2>4, <3>2, <3>3, <3>4, <3>5
      DEF Work, Knowing, InHand, DeferByPolicy, Begin, Reserve, Refuse,
          MetaPosts, MetaRefuses, Release, ReleaseFails, GiveUp, CountFailure,
          Pause
  <2>5. CASE pc[w] \notin Knowing
    <3>1. posts[i] = doubts[i]
      BY <1>0, <1>3, <1>5, <2>1, <2>5 DEF Accounted, Owned, Knowing
    <3>2. CASE MetaPosts(w)
      <4>1. pc'[w] \in Knowing /\ posts'[i] = posts[i] + 1 /\ doubts' = doubts
        BY <1>0, <3>2 DEF MetaPosts, Knowing, InHand
      <4> QED
        BY <1>0, <2>3, <3>1, <4>1
    <3>3. CASE Crash(w)
      <4>1. pc'[w] = "idle" /\ posts' = posts /\ doubts' = doubts
        BY <1>0, <2>5, <3>3 DEF Crash, Abandon, Knowing, InHand
      <4> QED
        BY <2>3, <3>1, <4>1 DEF Knowing, InHand
    <3>4. CASE \/ DeferByPolicy(w) \/ Begin(w) \/ Reserve(w) \/ Refuse(w)
               \/ MetaRefuses(w) \/ Release(w) \/ ReleaseFails(w) \/ GiveUp(w)
      <4>1. pc'[w] \notin Knowing /\ posts' = posts /\ doubts' = doubts
        BY <1>0, <3>4
        DEF DeferByPolicy, Begin, Reserve, Refuse, MetaRefuses, AfterError,
            Release, ReleaseFails, GiveUp, CampaignStep, Knowing, InHand
      <4> QED
        BY <2>3, <3>1, <4>1
    <3> QED
      BY <1>5, <2>5, <3>2, <3>3, <3>4
      DEF Work, Knowing, InHand, Hands, Seeking, Answer, LoseAnswer, Commit,
          CommitFails, Store, ResetFailures, OutcomeFails, CountFailure, Pause
  <2> QED
    BY <2>4, <2>5
<1> QED
  BY <1>4, <1>5

\* The account of posts always holds.
LEMMA AccountAlways == Spec => [](\A i \in Rows : Accounted(i))
<1>1. Init => \A i \in Rows : Accounted(i)
  <2> SUFFICES ASSUME Init PROVE \A i \in Rows : Accounted(i)
    OBVIOUS
  <2> QED
    BY DEF Init, Accounted, Knower, Quitter, Knowing, InHand
<1>2. Claims /\ (\A i \in Rows : Accounted(i)) /\ [Next]_vars =>
          (\A i \in Rows : Accounted(i))'
  <2> SUFFICES ASSUME Claims, [Next]_vars, NEW i \in Rows, Accounted(i)
               PROVE  Accounted(i)'
    OBVIOUS
  <2> QED
    BY RowStep, AccountAround, AccountWork DEF Claims
<1> QED
  BY <1>1, <1>2, ClaimsAlways, PTL DEF Spec

----------------------------------------------------------------------------
(* Second posts *)

\* The workers that may still go on to a post of the row, and whether one may
\* yet take the row.
Seekers(i) == {w \in Workers : cur[w] = i /\ pc[w] \in Seeking}

Takeable(i) ==
    \/ status[i] \in {"none", "pending", "failed"}
    \/ status[i] = "processing" /\ ~Claimed(i)

\* Each post, and each worker that may yet make one, answers to a doubt, but
\* for the first.  This also holds of rows that were taken from live workers.
Counted(i) ==
    posts[i] + Cardinality(Seekers(i)) + (IF Takeable(i) THEN 1 ELSE 0)
        <= 1 + doubts[i]

\* Workers can be counted.
LEMMA SeekersCount ==
  ASSUME NEW S, S \subseteq Workers
  PROVE  IsFiniteSet(S) /\ Cardinality(S) \in Nat
  BY FS_Subset, FS_CardinalityType, ContentConstants

\* Steps that are not a worker's at the row give no chance of a post without
\* taking another or raising a doubt.
LEMMA CountAround ==
  ASSUME Claims, NEW i \in Rows, Counted(i),
         \/ Same(i) \/ Moved(i) \/ Recovered(i)
         \/ \E w \in Workers : Taken(w, i)
  PROVE  Counted(i)'
<1> DEFINE n == Cardinality(Seekers(i))
<1>0. /\ TypeOK /\ pc \in [Workers -> Places] /\ cur \in [Workers -> Rows]
      /\ posts[i] \in Nat /\ doubts[i] \in Nat
  BY DEF Claims, TypeOK
<1>n. n \in Nat /\ IsFiniteSet(Seekers(i))
  BY SeekersCount DEF Seekers
<1>a. ASSUME Unmoved(i) PROVE n' = n
  <2>1. Seekers(i)' = Seekers(i)
    BY <1>a DEF Seekers, Unmoved, At, Busy, Places, Seeking
  <2> QED
    BY <2>1
<1>b. ASSUME n' = n, posts'[i] = posts[i], doubts'[i] = doubts[i],
             Takeable(i)' => Takeable(i)
      PROVE  Counted(i)'
  <2> HIDE DEF n
  <2>1. posts[i] + n + (IF Takeable(i) THEN 1 ELSE 0) <= 1 + doubts[i]
    BY DEF Counted, n
  <2>2. posts'[i] + n' + (IF Takeable(i)' THEN 1 ELSE 0) <= 1 + doubts'[i]
    BY <1>0, <1>b, <1>n, <2>1
  <2> QED
    BY <2>2 DEF Counted, n
<1>1. CASE Same(i)
  <2>1. Unmoved(i) /\ posts'[i] = posts[i] /\ doubts'[i] = doubts[i]
        /\ status'[i] = status[i] /\ owner'[i] = owner[i]
    BY <1>1 DEF Same, BooksStay, DoubtsStay
  <2>2. Claimed(i)' <=> Claimed(i)
    BY <2>1 DEF Claimed, Unmoved, At
  <2> QED
    BY <1>a, <1>b, <2>1, <2>2 DEF Takeable
<1>2. CASE Moved(i)
  <2>1. Unmoved(i) /\ posts'[i] = posts[i] /\ doubts'[i] = doubts[i]
        /\ Takeable(i)
    BY <1>2 DEF Moved, BooksStay, DoubtsStay, Takeable
  <2> QED
    BY <1>a, <1>b, <2>1
<1>3. CASE Recovered(i)
  <2>1. Unmoved(i) /\ posts'[i] = posts[i] /\ status[i] = "processing"
        /\ doubts'[i] = IF Claimed(i) THEN doubts[i] + 1 ELSE doubts[i]
    BY <1>3 DEF Recovered, BooksStay
  <2>2. CASE ~Claimed(i)
    BY <1>a, <1>b, <2>1, <2>2 DEF Takeable
  <2>3. CASE Claimed(i)
    <3>1. n' = n
      BY <1>a, <2>1
    <3> HIDE DEF n
    <3>2. posts[i] + n <= 1 + doubts[i]
      BY <1>0, <1>n DEF Counted, n
    <3>3. posts'[i] + n' + (IF Takeable(i)' THEN 1 ELSE 0) <= 1 + doubts'[i]
      BY <1>0, <1>n, <2>1, <2>3, <3>1, <3>2
    <3> QED
      BY <3>3 DEF Counted, n
  <2> QED
    BY <2>2, <2>3
<1>4. ASSUME NEW w \in Workers, Taken(w, i) PROVE Counted(i)'
  <2>1. /\ posts'[i] = posts[i] /\ doubts'[i] = doubts[i] /\ Takeable(i)
        /\ pc[w] = "next" /\ pc' = [pc EXCEPT ![w] = "check"]
        /\ cur' = [cur EXCEPT ![w] = i]
        /\ status'[i] = "processing" /\ owner'[i] = w
    BY <1>4 DEF Taken, BooksStay, DoubtsStay, Takeable
  <2>2. ~Takeable(i)'
    BY <1>0, <2>1 DEF Takeable, Claimed, At, Busy, Places
  <2>3. Seekers(i)' = Seekers(i) \cup {w} /\ w \notin Seekers(i)
    BY <1>0, <2>1 DEF Seekers, Seeking
  <2>4. n' = n + 1
    BY <1>n, <2>3, FS_AddElement
  <2> HIDE DEF n
  <2>5. posts[i] + n + 1 <= 1 + doubts[i]
    BY <2>1 DEF Counted, n
  <2>6. posts'[i] + n' + (IF Takeable(i)' THEN 1 ELSE 0) <= 1 + doubts'[i]
    BY <1>0, <1>n, <2>1, <2>2, <2>4, <2>5
  <2> QED
    BY <2>6 DEF Counted, n
<1> QED
  BY <1>1, <1>2, <1>3, <1>4

\* How a worker's step at its row changes the number of those who seek.
LEMMA SeekersWork ==
  ASSUME TypeOK, NEW w \in Workers, Work(w), NEW i \in Rows, i = cur[w]
  PROVE  /\ Cardinality(Seekers(i)) \in Nat
         /\ pc[w] \in Seeking /\ pc'[w] \in Seeking =>
                Cardinality(Seekers(i))' = Cardinality(Seekers(i))
         /\ pc[w] \notin Seeking /\ pc'[w] \notin Seeking =>
                Cardinality(Seekers(i))' = Cardinality(Seekers(i))
         /\ pc[w] \in Seeking /\ pc'[w] \notin Seeking =>
                Cardinality(Seekers(i))' = Cardinality(Seekers(i)) - 1
         /\ pc[w] \notin Seeking /\ pc'[w] \in Seeking =>
                Cardinality(Seekers(i))' = Cardinality(Seekers(i)) + 1
<1>1. /\ \A v \in Workers : v # w => pc'[v] = pc[v] /\ cur'[v] = cur[v]
      /\ pc'[w] \in Seeking => cur'[w] = i
  BY WorkMoves DEF OthersStay, Seeking, Busy, Places
<1>2. IsFiniteSet(Seekers(i)) /\ Cardinality(Seekers(i)) \in Nat
  BY SeekersCount DEF Seekers
<1>3. CASE (pc[w] \in Seeking) = (pc'[w] \in Seeking)
  <2>1. Seekers(i)' = Seekers(i)
    BY <1>1, <1>3 DEF Seekers
  <2> QED
    BY <1>2, <1>3, <2>1
<1>4. CASE pc[w] \in Seeking /\ pc'[w] \notin Seeking
  <2>1. Seekers(i)' = Seekers(i) \ {w} /\ w \in Seekers(i)
    BY <1>1, <1>4 DEF Seekers
  <2> QED
    BY <1>2, <1>4, <2>1, FS_RemoveElement
<1>5. CASE pc[w] \notin Seeking /\ pc'[w] \in Seeking
  <2>1. Seekers(i)' = Seekers(i) \cup {w} /\ w \notin Seekers(i)
    BY <1>1, <1>5 DEF Seekers
  <2> QED
    BY <1>2, <1>5, <2>1, FS_AddElement
<1> QED
  BY <1>3, <1>4, <1>5

\* The step of a worker at its row.
LEMMA CountWork ==
  ASSUME Claims, NEW w \in Workers, Work(w), NEW i \in Rows, i = cur[w],
         Counted(i)
  PROVE  Counted(i)'
<1> USE DEF Goto, NextRow, world, history
<1> DEFINE n == Cardinality(Seekers(i))
<1>0. /\ TypeOK /\ Left(i)
      /\ pc \in [Workers -> Places] /\ cur \in [Workers -> Rows]
      /\ posts \in [Rows -> Nat] /\ doubts \in [Rows -> Nat]
      /\ posts[i] \in Nat /\ doubts[i] \in Nat
  BY DEF Claims, RowClaims, TypeOK
<1>n. /\ n \in Nat
      /\ pc[w] \in Seeking /\ pc'[w] \in Seeking => n' = n
      /\ pc[w] \notin Seeking /\ pc'[w] \notin Seeking => n' = n
      /\ pc[w] \in Seeking /\ pc'[w] \notin Seeking => n' = n - 1
      /\ pc[w] \notin Seeking /\ pc'[w] \in Seeking => n' = n + 1
  BY <1>0, SeekersWork
<1>1. /\ \A v \in Workers : v # w => pc'[v] = pc[v] /\ cur'[v] = cur[v]
      /\ pc'[w] \in Busy => cur'[w] = i
  BY <1>0, WorkMoves DEF OthersStay
<1>c. posts[i] + n + (IF Takeable(i) THEN 1 ELSE 0) <= 1 + doubts[i]
  BY DEF Counted
<1> HIDE DEF n
<1>d. SUFFICES posts'[i] + n' + (IF Takeable(i)' THEN 1 ELSE 0) <= 1 + doubts'[i]
  BY DEF Counted, n
<1>2. ASSUME status'[i] = status[i], owner'[i] = owner[i],
             pc'[w] \in Busy \/ pc[w] \in {"reset", "count", "pause"}
      PROVE  Takeable(i)' <=> Takeable(i)
  <2>1. CASE pc'[w] \in Busy
    <3>1. Claimed(i)' <=> Claimed(i)
      BY <1>1, <1>2, <2>1 DEF Claimed, At, Work
    <3> QED
      BY <1>2, <3>1 DEF Takeable
  <2>2. CASE pc[w] \in {"reset", "count", "pause"} /\ pc'[w] \notin Busy
    <3>1. owner[i] # w
      BY <1>0, <2>2 DEF Left
    <3>2. Claimed(i)' <=> Claimed(i)
      BY <1>1, <1>2, <2>2, <3>1 DEF Claimed, At
    <3> QED
      BY <1>2, <3>2 DEF Takeable
  <2> QED
    BY <1>2, <2>1, <2>2
<1>3. ASSUME n' = n - 1, posts'[i] = posts[i], doubts'[i] = doubts[i]
      PROVE  posts'[i] + n' + (IF Takeable(i)' THEN 1 ELSE 0) <= 1 + doubts'[i]
  BY <1>0, <1>n, <1>c, <1>3
<1>4. ASSUME n' = n, posts'[i] = posts[i], doubts'[i] = doubts[i],
             Takeable(i)' => Takeable(i)
      PROVE  posts'[i] + n' + (IF Takeable(i)' THEN 1 ELSE 0) <= 1 + doubts'[i]
  BY <1>0, <1>n, <1>c, <1>4
<1>5. CASE DeferByPolicy(w) \/ GiveUp(w)
  <2>1. pc[w] \in Seeking /\ pc'[w] \notin Seeking /\ posts' = posts /\ doubts' = doubts
    BY <1>0, <1>5 DEF DeferByPolicy, GiveUp, CampaignStep, Seeking
  <2> QED
    BY <1>n, <1>3, <2>1
<1>6. CASE \/ Begin(w) \/ Reserve(w) \/ Refuse(w) \/ MetaRefuses(w)
           \/ Release(w) \/ ReleaseFails(w)
  <2>1. /\ pc[w] \in Seeking /\ pc'[w] \in Seeking
        /\ posts' = posts /\ doubts' = doubts
        /\ status' = status /\ owner' = owner
    BY <1>0, <1>6
    DEF Begin, Reserve, Refuse, MetaRefuses, AfterError, Release,
        ReleaseFails, table, Seeking
  <2> QED
    BY <1>n, <1>2, <1>4, <2>1 DEF Seeking, Busy, Places
<1>7. CASE MetaPosts(w)
  <2>1. /\ pc[w] \in Seeking /\ pc'[w] = "taken"
        /\ posts'[i] = posts[i] + 1 /\ doubts' = doubts
        /\ status' = status /\ owner' = owner
    BY <1>0, <1>7 DEF MetaPosts, table, Seeking
  <2>2. Takeable(i)' <=> Takeable(i)
    BY <1>2, <2>1 DEF Busy, Places
  <2>3. n' = n - 1
    BY <1>n, <2>1 DEF Seeking
  <2> QED
    BY <1>0, <1>n, <1>c, <2>1, <2>2, <2>3
<1>8. CASE Answer(w) \/ Commit(w) \/ CommitFails(w) \/ CountFailure(w)
  <2>1. /\ pc[w] \notin Seeking /\ pc'[w] \in Busy \ Seeking
        /\ posts' = posts /\ doubts' = doubts
        /\ status' = status /\ owner' = owner
    BY <1>0, <1>8
    DEF Answer, Commit, CommitFails, AfterBillingError, CountFailure, table,
        Seeking, Busy, Places
  <2> QED
    BY <1>n, <1>2, <1>4, <2>1
<1>9. CASE ResetFailures(w) \/ Pause(w)
  <2>1. /\ pc[w] \in {"reset", "pause"} /\ pc'[w] = "next"
        /\ posts' = posts /\ doubts' = doubts
        /\ status' = status /\ owner' = owner
    BY <1>0, <1>9 DEF ResetFailures, Pause, table
  <2> QED
    BY <1>n, <1>2, <1>4, <2>1 DEF Seeking
<1>10. CASE LoseAnswer(w) \/ OutcomeFails(w)
  <2>1. /\ pc[w] \notin Seeking /\ pc'[w] \in Seeking
        /\ posts' = posts /\ doubts'[i] = doubts[i] + 1
        /\ status' = status /\ owner' = owner
    BY <1>0, <1>10
    DEF LoseAnswer, AfterError, OutcomeFails, Doubt, table, Seeking
  <2>2. Takeable(i)' <=> Takeable(i)
    BY <1>2, <2>1 DEF Seeking, Busy, Places
  <2>3. n' = n + 1
    BY <1>n, <2>1
  <2> QED
    BY <1>0, <1>n, <1>c, <2>1, <2>2, <2>3
<1>11. CASE Store(w)
  <2>1. /\ pc[w] \notin Seeking /\ pc'[w] \notin Seeking
        /\ posts' = posts /\ doubts' = doubts /\ status'[i] = "published"
    BY <1>0, <1>11 DEF Store, CampaignStep, TypeOK, Seeking
  <2>2. ~Takeable(i)'
    BY <2>1 DEF Takeable
  <2> QED
    BY <1>n, <1>4, <2>1, <2>2
<1>12. CASE Crash(w)
  <2>1. pc'[w] = "idle" /\ posts' = posts /\ status' = status /\ owner' = owner
    BY <1>0, <1>12 DEF Crash, Abandon
  <2>2. CASE pc[w] \in Seeking
    <3>1. doubts' = doubts
      BY <1>0, <1>12, <2>2 DEF Crash, Seeking
    <3> QED
      BY <1>n, <1>3, <2>1, <2>2, <3>1 DEF Seeking
  <2>3. CASE pc[w] \in InHand
    <3>1. doubts'[i] = doubts[i] + 1
      BY <1>0, <1>12, <2>3 DEF Crash, InHand
    <3>2. n' = n
      BY <1>n, <2>1, <2>3 DEF Seeking, InHand
    <3> QED
      BY <1>0, <1>n, <1>c, <2>1, <3>1, <3>2
  <2>4. CASE pc[w] \in {"reset", "count", "pause"}
    <3>1. doubts' = doubts
      BY <1>0, <1>12, <2>4 DEF Crash
    <3> QED
      BY <1>n, <1>2, <1>4, <2>1, <2>4, <3>1 DEF Seeking
  <2>5. pc[w] \in Seeking \cup InHand \cup {"reset", "count", "pause"}
    BY <1>0 DEF Work, Busy, Places, Seeking, InHand
  <2> QED
    BY <2>2, <2>3, <2>4, <2>5
<1> QED
  BY <1>5, <1>6, <1>7, <1>8, <1>9, <1>10, <1>11, <1>12 DEF Work

\* Posts are always counted.
LEMMA CountAlways == Spec => [](\A i \in Rows : Counted(i))
<1>1. Init => \A i \in Rows : Counted(i)
  <2> SUFFICES ASSUME Init, NEW i \in Rows PROVE Counted(i)
    OBVIOUS
  <2>1. Seekers(i) = {}
    BY DEF Init, Seekers, Seeking
  <2>2. Cardinality(Seekers(i)) = 0
    BY <2>1, FS_EmptySet
  <2>3. posts[i] = 0 /\ doubts[i] = 0
    BY DEF Init
  <2> QED
    BY <2>2, <2>3 DEF Counted
<1>2. Claims /\ (\A i \in Rows : Counted(i)) /\ [Next]_vars =>
          (\A i \in Rows : Counted(i))'
  <2> SUFFICES ASSUME Claims, [Next]_vars, NEW i \in Rows, Counted(i)
               PROVE  Counted(i)'
    OBVIOUS
  <2> QED
    BY RowStep, CountAround, CountWork DEF Claims
<1> QED
  BY <1>1, <1>2, ClaimsAlways, PTL DEF Spec

\* Each post after the first answers to a doubt of its own: an answer that was
\* lost, a worker that died with it, a statement that threw, or a row taken
\* from a live worker.
THEOREM SecondPostsNeedDoubt == Spec => []SecondPostNeedsDoubt
<1>1. Claims /\ (\A i \in Rows : Counted(i)) => SecondPostNeedsDoubt
  <2> SUFFICES ASSUME Claims, NEW i \in Rows, Counted(i)
               PROVE  posts[i] <= 1 + doubts[i]
    BY DEF SecondPostNeedsDoubt
  <2> DEFINE n == Cardinality(Seekers(i))
  <2>1. n \in Nat
    BY SeekersCount DEF Seekers
  <2>2. posts[i] \in Nat /\ doubts[i] \in Nat
    BY DEF Claims, TypeOK
  <2>3. posts[i] + n + (IF Takeable(i) THEN 1 ELSE 0) <= 1 + doubts[i]
    BY DEF Counted
  <2> HIDE DEF n
  <2> QED
    BY <2>1, <2>2, <2>3
<1> QED
  BY <1>1, ClaimsAlways, CountAlways, PTL

----------------------------------------------------------------------------
(* Credits *)

\* Why credits of a row are held: a worker will settle them or warn of them, a
\* warning was stored, or an accident left them.
Backed(i) ==
    \/ stranded[i] \/ overtaken[i] \/ warned[i]
    \/ \E w \in Workers :
        /\ cur[w] = i
        /\ \/ pc[w] \in {"call", "taken", "commit", "release"}
           \/ pc[w] = "store" /\ outcome[w] = "warned"

\* What a worker knows of the usage of its row: there is one when Meta is
\* asked, a post stands behind a charge, the usage is settled or warned of
\* before the outcome, and an accident explains what a failure leaves held.
Metered(w, i) ==
    /\ pc[w] \in InHand \cup {"call", "release"} => usage[i] # "none"
    /\ pc[w] \in InHand => posts[i] > 0
    /\ pc[w] = "store" /\ outcome[w] # "warned" => usage[i] # "reserved"
    /\ pc[w] = "giveup" /\ usage[i] = "reserved" => stranded[i] \/ overtaken[i]

Billed(i) ==
    /\ usage[i] = "committed" => posts[i] > 0
    /\ usage[i] = "reserved" => Backed(i)
    /\ \A w \in Workers : cur[w] = i => Metered(w, i)

\* Steps that are not a worker's at the row touch no credits.
LEMMA BilledAround ==
  ASSUME Claims, NEW i \in Rows, Billed(i),
         \/ Same(i) \/ Moved(i) \/ Recovered(i)
         \/ \E w \in Workers : Taken(w, i)
  PROVE  Billed(i)'
<1>0. /\ TypeOK /\ Marked(i)
      /\ pc \in [Workers -> Places] /\ cur \in [Workers -> Rows]
  BY DEF Claims, RowClaims, TypeOK
<1>1. BooksStay(i)
  BY DEF Same, Moved, Recovered, Taken
<1>2. /\ warned[i] => warned'[i]
      /\ overtaken[i] => overtaken'[i]
  BY <1>0 DEF Same, Moved, Recovered, Taken, DoubtsStay, Marked
<1>3. ASSUME NEW v \in Workers
      PROVE  \/ pc'[v] = pc[v] /\ cur'[v] = cur[v] /\ outcome'[v] = outcome[v]
             \/ ~At(v, i) /\ (cur'[v] = i => pc'[v] \notin Busy \ {"check"})
  <2>1. CASE Unmoved(i)
    BY <2>1 DEF Unmoved, At
  <2>2. CASE \E w \in Workers : Taken(w, i)
    BY <1>0, <2>2 DEF Taken, At, Busy, Places
  <2> QED
    BY <2>1, <2>2 DEF Same, Moved, Recovered
<1>4. Backed(i) => Backed(i)'
  BY <1>1, <1>2, <1>3 DEF Backed, BooksStay, At, Busy, Places
<1>5. ASSUME NEW v \in Workers, cur'[v] = i PROVE Metered(v, i)'
  <2>1. CASE pc'[v] = pc[v] /\ cur'[v] = cur[v] /\ outcome'[v] = outcome[v]
    BY <1>1, <1>2, <1>5, <2>1 DEF Billed, Metered, BooksStay
  <2>2. CASE pc'[v] \notin Busy \ {"check"}
    BY <2>2 DEF Metered, InHand, Busy, Places
  <2> QED
    BY <1>3, <1>5, <2>1, <2>2
<1> QED
  BY <1>1, <1>4, <1>5 DEF Billed, BooksStay

\* The worker that works keeps its account of the usage.
LEMMA MeteredWork ==
  ASSUME Claims, NEW w \in Workers, Work(w), NEW i \in Rows, i = cur[w],
         Billed(i)
  PROVE  /\ Metered(w, i)'
         /\ usage'[i] = "committed" => posts'[i] > 0
         /\ usage'[i] # usage[i] =>
                \/ usage[i] = "none" /\ pc[w] = "reserve"
                \/ usage[i] = "reserved" /\ usage'[i] \in {"committed", "released"}
         /\ posts[i] > 0 => posts'[i] > 0
         /\ stranded[i] => stranded'[i]
<1> USE DEF Goto, NextRow, world, history, Metered, InHand
<1>0. /\ TypeOK /\ Owned(i) /\ Alone(i) /\ Marked(i)
      /\ pc \in [Workers -> Places] /\ outcome \in [Workers -> {"none", "retry",
                                                    "final", "warned"}]
      /\ posts \in [Rows -> Nat] /\ stranded \in [Rows -> BOOLEAN]
      /\ usage \in [Rows -> {"none", "reserved", "committed", "released"}]
      /\ overtaken \in [Rows -> BOOLEAN]
      /\ usage[i] \in {"none", "reserved", "committed", "released"}
  BY DEF Claims, RowClaims, TypeOK
<1>1. Metered(w, i) /\ (usage[i] = "committed" => posts[i] > 0)
      /\ (usage[i] = "reserved" => Backed(i))
  BY DEF Billed
<1>2. CASE DeferByPolicy(w) \/ Begin(w)
  BY <1>0, <1>1, <1>2 DEF DeferByPolicy, Begin
<1>3. CASE Reserve(w)
  BY <1>0, <1>1, <1>3 DEF Reserve
<1>4. CASE Refuse(w)
  <2>1. usage[i] = "reserved" => stranded[i] \/ overtaken[i]
    <3> SUFFICES ASSUME usage[i] = "reserved", ~overtaken[i] PROVE stranded[i]
      OBVIOUS
    <3>1. pc[w] = "reserve" /\ pc[w] \in Hands
      BY <1>4 DEF Refuse, Hands, Seeking
    <3>2. ~warned[i]
      BY <1>0, <3>1 DEF Owned, Marked
    <3>3. \A v \in Workers : cur[v] = i /\ pc[v] \in Hands => v = w
      BY <1>0, <3>1 DEF Alone
    <3> QED
      BY <1>1, <3>1, <3>2, <3>3 DEF Backed, Hands, Seeking
  <2> QED
    BY <1>0, <1>1, <1>4, <2>1 DEF Refuse
<1>5. CASE MetaPosts(w)
  <2>1. posts'[i] = posts[i] + 1 /\ posts[i] \in Nat
    BY <1>0, <1>5 DEF MetaPosts
  <2> QED
    BY <1>0, <1>1, <1>5, <2>1 DEF MetaPosts
<1>6. CASE MetaRefuses(w) \/ Answer(w) \/ LoseAnswer(w)
  BY <1>0, <1>1, <1>6 DEF MetaRefuses, AfterError, Answer, LoseAnswer
<1>7. CASE Commit(w)
  BY <1>0, <1>1, <1>7 DEF Commit
<1>8. CASE CommitFails(w)
  BY <1>0, <1>1, <1>8 DEF CommitFails, AfterBillingError
<1>9. CASE Release(w)
  BY <1>0, <1>1, <1>9 DEF Release
<1>10. CASE ReleaseFails(w) \/ OutcomeFails(w)
  BY <1>0, <1>1, <1>10 DEF ReleaseFails, OutcomeFails, Strand
<1>11. CASE Store(w) \/ GiveUp(w)
  BY <1>0, <1>1, <1>11 DEF Store, GiveUp, CampaignStep
<1>12. CASE ResetFailures(w) \/ CountFailure(w) \/ Pause(w)
  BY <1>0, <1>1, <1>12 DEF ResetFailures, CountFailure, Pause
<1>13. CASE Crash(w)
  BY <1>0, <1>1, <1>13 DEF Crash, Abandon
<1> QED
  BY <1>2, <1>3, <1>4, <1>5, <1>6, <1>7, <1>8, <1>9, <1>10, <1>11, <1>12,
     <1>13 DEF Work

\* Held credits stay backed when a worker goes on.
LEMMA BackedWork ==
  ASSUME Claims, NEW w \in Workers, Work(w), NEW i \in Rows, i = cur[w],
         Billed(i), usage'[i] = "reserved"
  PROVE  Backed(i)'
<1> USE DEF Goto, NextRow, world, history
<1>0. /\ TypeOK /\ Owned(i) /\ Alone(i) /\ Marked(i) /\ Metered(w, i)
      /\ pc \in [Workers -> Places] /\ outcome \in [Workers -> {"none", "retry",
                                                    "final", "warned"}]
      /\ stranded \in [Rows -> BOOLEAN] /\ warned \in [Rows -> BOOLEAN]
      /\ usage \in [Rows -> {"none", "reserved", "committed", "released"}]
  BY DEF Claims, RowClaims, TypeOK, Billed
<1>1. /\ \A v \in Workers : v # w =>
             pc'[v] = pc[v] /\ cur'[v] = cur[v] /\ outcome'[v] = outcome[v]
      /\ pc'[w] \in Busy => cur'[w] = i
  BY <1>0, WorkMoves DEF OthersStay
<1>2. overtaken'[i] = overtaken[i]
  BY WorkKeepsRow
<1>3. CASE overtaken[i] \/ stranded'[i]
  BY <1>2, <1>3 DEF Backed
<1>4. ASSUME \/ pc'[w] \in {"call", "taken", "commit", "release"}
             \/ pc'[w] = "store" /\ outcome'[w] = "warned"
      PROVE  Backed(i)'
  BY <1>1, <1>4 DEF Backed, Busy, Places
<1>5. ASSUME usage[i] = "reserved", pc[w] \in {"check", "reserve", "reset"},
             ~overtaken[i], ~stranded[i]
      PROVE  pc[w] = "reset" /\ warned[i]
  <2>1. \A v \in Workers : cur[v] = i /\ pc[v] \in Hands => v = w
    BY <1>0, <1>5 DEF Alone, Hands, Seeking
  <2>2. warned[i]
    BY <1>5, <2>1 DEF Billed, Backed, Hands, Seeking, InHand
  <2> QED
    BY <1>0, <1>5, <2>2 DEF Marked, Owned, Hands, Seeking
<1>6. CASE DeferByPolicy(w) \/ Begin(w) \/ Refuse(w)
  <2>1. /\ pc[w] \in {"check", "reserve"} /\ usage' = usage
        /\ stranded' = stranded
    BY <1>6 DEF DeferByPolicy, Begin, Refuse
  <2> QED
    BY <1>3, <1>5, <2>1
<1>7. CASE \/ Reserve(w) \/ MetaPosts(w) \/ MetaRefuses(w) \/ Answer(w)
           \/ LoseAnswer(w)
  BY <1>0, <1>4, <1>7
  DEF Reserve, MetaPosts, MetaRefuses, AfterError, Answer, LoseAnswer
<1>8. CASE Commit(w) \/ Release(w)
  BY <1>0, <1>8 DEF Commit, Release
<1>9. CASE CommitFails(w)
  BY <1>0, <1>4, <1>9 DEF CommitFails, AfterBillingError
<1>10. CASE ReleaseFails(w) \/ OutcomeFails(w)
  BY <1>0, <1>3, <1>10 DEF ReleaseFails, OutcomeFails, Strand
<1>11. CASE Store(w)
  <2>1. pc[w] = "store" /\ usage' = usage
        /\ warned' = [warned EXCEPT ![i] = outcome[w] = "warned"]
    BY <1>11 DEF Store
  <2>2. outcome[w] = "warned"
    BY <1>0, <2>1 DEF Metered
  <2>3. warned'[i]
    BY <1>0, <2>1, <2>2
  <2> QED
    BY <2>3 DEF Backed
<1>12. CASE ResetFailures(w)
  <2>1. /\ pc[w] = "reset" /\ usage' = usage /\ stranded' = stranded
        /\ warned' = warned
    BY <1>12 DEF ResetFailures, table
  <2> QED
    BY <1>3, <1>5, <2>1 DEF Backed
<1>13. CASE GiveUp(w)
  <2>1. pc[w] = "giveup" /\ usage' = usage /\ stranded' = stranded
    BY <1>13 DEF GiveUp
  <2> QED
    BY <1>0, <1>3, <2>1 DEF Metered
<1>14. CASE CountFailure(w) \/ Pause(w)
  <2>1. /\ pc[w] \in {"count", "pause"} /\ usage' = usage
        /\ stranded' = stranded /\ warned' = warned
    BY <1>14 DEF CountFailure, Pause, table
  <2>2. Backed(i)
    BY <2>1 DEF Billed
  <2> QED
    BY <1>1, <1>2, <2>1, <2>2 DEF Backed
<1>15. CASE Crash(w)
  <2>1. usage' = usage /\ stranded'[i]
    BY <1>0, <1>15 DEF Crash, Abandon, Work
  <2> QED
    BY <1>3, <2>1
<1> QED
  BY <1>6, <1>7, <1>8, <1>9, <1>10, <1>11, <1>12, <1>13, <1>14, <1>15 DEF Work

\* The step of a worker at its row.
LEMMA BilledWork ==
  ASSUME Claims, NEW w \in Workers, Work(w), NEW i \in Rows, i = cur[w],
         Billed(i)
  PROVE  Billed(i)'
<1>0. TypeOK /\ Alone(i) /\ usage[i] \in {"none", "reserved", "committed", "released"}
  BY DEF Claims, RowClaims, TypeOK
<1>1. \A v \in Workers : v # w =>
          pc'[v] = pc[v] /\ cur'[v] = cur[v] /\ outcome'[v] = outcome[v]
  BY <1>0, WorkMoves DEF OthersStay
<1>2. /\ Metered(w, i)'
      /\ usage'[i] = "committed" => posts'[i] > 0
      /\ usage'[i] # usage[i] =>
             \/ usage[i] = "none" /\ pc[w] = "reserve"
             \/ usage[i] = "reserved" /\ usage'[i] \in {"committed", "released"}
      /\ posts[i] > 0 => posts'[i] > 0
      /\ stranded[i] => stranded'[i]
  BY MeteredWork
<1>3. overtaken'[i] = overtaken[i]
  BY WorkKeepsRow
<1>4. ASSUME NEW v \in Workers, cur'[v] = i, v # w PROVE Metered(v, i)'
  <2>1. Metered(v, i) /\ pc'[v] = pc[v] /\ outcome'[v] = outcome[v] /\ cur[v] = i
    BY <1>1, <1>4 DEF Billed
  <2>2. CASE usage[i] = "none" /\ pc[w] = "reserve"
    <3>1. pc[v] \in Hands => overtaken[i]
      BY <1>0, <1>4, <2>1, <2>2 DEF Alone, Hands, Seeking
    <3> QED
      BY <1>2, <1>3, <2>1, <2>2, <3>1 DEF Metered, Hands, Seeking, InHand
  <2>3. CASE \/ usage'[i] = usage[i]
             \/ usage[i] = "reserved" /\ usage'[i] \in {"committed", "released"}
    BY <1>2, <1>3, <2>1, <2>3 DEF Metered
  <2> QED
    BY <1>2, <2>2, <2>3
<1> QED
  BY <1>2, <1>4, BackedWork DEF Billed

\* Credits are always billed.
LEMMA BilledAlways == Spec => [](\A i \in Rows : Billed(i))
<1>1. Init => \A i \in Rows : Billed(i)
  BY DEF Init, Billed, Metered, InHand
<1>2. Claims /\ (\A i \in Rows : Billed(i)) /\ [Next]_vars =>
          (\A i \in Rows : Billed(i))'
  <2> SUFFICES ASSUME Claims, [Next]_vars, NEW i \in Rows, Billed(i)
               PROVE  Billed(i)'
    OBVIOUS
  <2> QED
    BY RowStep, BilledAround, BilledWork DEF Claims
<1> QED
  BY <1>1, <1>2, ClaimsAlways, PTL DEF Spec

\* Credits are charged for posts that were made and held while somebody is at
\* the publication; they stay held only with a warning, after an accident that
\* left them, or where two workers were at the row.
THEOREM CreditsFollowPosts == Spec => []CreditsFollowPost
<1>1. (\A i \in Rows : Billed(i)) => CreditsFollowPost
  BY DEF Billed, Backed, CreditsFollowPost, Working, At, Busy, Places
<1> QED
  BY <1>1, BilledAlways, PTL

----------------------------------------------------------------------------
(* The promise about posts and credits *)

\* What the refinement needs of every row: who holds it, what the server knows
\* of posts, and how far its usage is.
RowKept(i) == Accounted(i) /\ Counted(i) /\ Billed(i)

Kept == Claims /\ \A i \in Rows : RowKept(i)

\* A row changes its status.
LEMMA StateSet ==
  ASSUME NEW i \in Rows, NEW st, TypeOK, status' = [status EXCEPT ![i] = st]
  PROVE  State' = [State EXCEPT
                      ![i] = IF st \in {"pending", "processing"} THEN "open"
                             ELSE st]
  BY DEF State, TypeOK

\* Nothing happens that a user, the bank or Meta could tell.
LEMMA PromiseStutters ==
  ASSUME UNCHANGED <<posts, doubts, overtaken, stored, usage, warned>>,
         \A i \in Rows :
             \/ status'[i] = status[i]
             \/ /\ status[i] \in {"pending", "processing"}
                /\ status'[i] \in {"pending", "processing"}
  PROVE  UNCHANGED Promise!vars
<1>1. State' = State
  BY DEF State
<1> QED
  BY <1>1 DEF Promise!vars

\* A row in hands is open or published, and the server knows of a post exactly
\* if the worker does.
LEMMA PromiseOfHolder ==
  ASSUME Kept, NEW w \in Workers, pc[w] \in Hands
  PROVE  /\ cur[w] \in Rows
         /\ Promise!IsOpen(cur[w]) \/ State[cur[w]] = "published"
         /\ pc[w] \in Hands \ {"reset", "giveup"} => Promise!IsOpen(cur[w])
         /\ pc[w] \in Knowing => Promise!Knows(cur[w])
         /\ pc[w] \notin Knowing => Promise!KnowsNone(cur[w])
<1>1. /\ cur[w] \in Rows /\ Owned(cur[w]) /\ Accounted(cur[w])
  BY DEF Kept, Claims, RowClaims, RowKept, TypeOK
<1>2. CASE overtaken[cur[w]]
  BY <1>1, <1>2 DEF Promise!IsOpen, Promise!Knows, Promise!KnowsNone
<1>3. CASE ~overtaken[cur[w]]
  <2>1. /\ Knower(cur[w]) <=> pc[w] \in Knowing
        /\ Quitter(cur[w]) <=> pc[w] = "giveup"
    BY <1>3, HolderKnows DEF Kept
  <2>2. \/ status[cur[w]] = "processing" /\ pc[w] # "reset"
        \/ status[cur[w]] = "published" /\ pc[w] \in {"reset", "giveup"}
    BY <1>1, <1>3 DEF Owned
  <2>3. /\ Promise!IsOpen(cur[w]) \/ State[cur[w]] = "published"
        /\ pc[w] \in Hands \ {"reset", "giveup"} => Promise!IsOpen(cur[w])
    BY <1>1, <2>2 DEF Promise!IsOpen, State
  <2>4. pc[w] \in Knowing => Promise!Knows(cur[w])
    BY <1>1, <1>3, <2>1 DEF Accounted, Promise!Knows
  <2>5. pc[w] \notin Knowing => Promise!KnowsNone(cur[w])
    BY <1>1, <1>3, <2>1, <2>2 DEF Accounted, Promise!KnowsNone, Knowing
  <2> QED
    BY <1>1, <2>3, <2>4, <2>5
<1> QED
  BY <1>2, <1>3

\* A row that nobody has in hands and that is not published has no known post.
LEMMA PromiseOfUntouched ==
  ASSUME Kept, NEW i \in Rows, status[i] # "published",
         overtaken[i] \/ Untouched(i)
  PROVE  Promise!KnowsNone(i)
<1>1. Untouched(i) => ~Knower(i)
  BY DEF Untouched, Knower, Knowing, Hands, InHand
<1> QED
  BY <1>1 DEF Kept, RowKept, Accounted, Promise!KnowsNone

\* Neither has one that waits.
LEMMA PromiseOfWaiting ==
  ASSUME Kept, NEW i \in Rows,
         status[i] \in {"none", "pending", "failed", "cancelled"}
  PROVE  Promise!KnowsNone(i)
  BY OpenIsUntouched, PromiseOfUntouched DEF Kept

\* A new row is a new publication.
LEMMA InsertCreates ==
  ASSUME TypeOK, NEW i \in Rows, NEW from, NEW isDue, Insert(i, from, isDue),
         UNCHANGED <<posts, doubts, overtaken, usage>>
  PROVE  Promise!Create(i)
<1>1. State' = [State EXCEPT ![i] = "open"]
  BY StateSet DEF Insert
<1>2. State[i] = "none"
  BY DEF Insert, Free, State
<1> QED
  BY <1>1, <1>2 DEF Promise!Create, Insert

\* The recovery publishes rows that hold a post, and takes rows from workers.
LEMMA RecoveryKeepsPromise ==
  ASSUME Kept, NEW S \in SUBSET Rows, RecoverRows(S),
         \A i \in S : Recoverable(i),
         UNCHANGED <<posts, stored, usage, warned>>
  PROVE  [Promise!Next]_Promise!vars
<1> DEFINE P == {i \in S : stored[i]}
           T == {i \in S : Claimed(i)}
<1>0. /\ overtaken \in [Rows -> BOOLEAN] /\ doubts \in [Rows -> Nat]
      /\ \A i \in S : status[i] = "processing"
  BY DEF Kept, Claims, TypeOK, Recoverable
<1>1. P \in SUBSET Rows /\ T \in SUBSET Rows
  OBVIOUS
<1>2. \A i \in P \cup T : State[i] = "open"
  BY <1>0 DEF State
<1>3. \A i \in P : stored[i] /\ (Promise!KnowsNone(i) \/ i \in T)
  BY <1>0, OpenIsUntouched, PromiseOfUntouched DEF Kept
<1>4. State' = [i \in Rows |-> IF i \in P THEN "published" ELSE State[i]]
  BY <1>0 DEF RecoverRows, State
<1>5. doubts' = [i \in Rows |-> IF i \in T THEN doubts[i] + 1 ELSE doubts[i]]
  BY DEF RecoverRows
<1>6. overtaken' = [i \in Rows |-> overtaken[i] \/ i \in T]
  BY DEF RecoverRows
<1> HIDE DEF P, T
<1>7. Promise!Recover(P, T)
  BY <1>2, <1>3, <1>4, <1>5, <1>6 DEF Promise!Recover
<1> QED
  BY <1>1, <1>7 DEF Promise!Next

\* What the publisher does to posts and credits.
LEMMA PublisherKeepsPromise ==
  ASSUME Kept, NEW w \in Workers,
         \/ MetaPosts(w) \/ LoseAnswer(w) \/ OutcomeFails(w) \/ Crash(w)
         \/ Reserve(w) \/ Commit(w) \/ Release(w)
  PROVE  [Promise!Next]_Promise!vars
<1> USE DEF table, claim, campaigns, world, history, Goto
<1>0. /\ cur[w] \in Rows /\ TypeOK /\ Metered(w, cur[w])
      /\ usage \in [Rows -> {"none", "reserved", "committed", "released"}]
  BY DEF Kept, Claims, RowKept, Billed, TypeOK
<1>a. status' = status => State' = State
  BY DEF State
<1>1. CASE MetaPosts(w)
  <2> DEFINE n == Cardinality(Seekers(cur[w]))
  <2>1. w \in Seekers(cur[w]) /\ IsFiniteSet(Seekers(cur[w])) /\ n \in Nat
    BY <1>1, SeekersCount DEF MetaPosts, Seekers, Seeking
  <2>2. n # 0
    BY <2>1, FS_EmptySet
  <2>3. posts[cur[w]] + n + (IF Takeable(cur[w]) THEN 1 ELSE 0)
            <= 1 + doubts[cur[w]]
    BY <1>0 DEF Kept, RowKept, Counted
  <2>4. posts[cur[w]] \in Nat /\ doubts[cur[w]] \in Nat
    BY <1>0 DEF TypeOK
  <2> HIDE DEF n
  <2>5. posts[cur[w]] <= doubts[cur[w]]
    BY <2>1, <2>2, <2>3, <2>4
  <2>6. Promise!IsOpen(cur[w]) /\ Promise!KnowsNone(cur[w])
    BY <1>1, PromiseOfHolder DEF MetaPosts, Hands, Seeking, Knowing, InHand
  <2>7. usage[cur[w]] # "none"
    BY <1>0, <1>1 DEF MetaPosts, Metered
  <2>8. Promise!Post(cur[w])
    BY <1>0, <1>1, <1>a, <2>5, <2>6, <2>7 DEF MetaPosts, Promise!Post
  <2> QED
    BY <1>0, <2>8 DEF Promise!Next
<1>2. CASE LoseAnswer(w) \/ OutcomeFails(w) \/ (Crash(w) /\ pc[w] \in InHand)
  <2>1. /\ Promise!IsOpen(cur[w]) \/ State[cur[w]] = "published"
        /\ Promise!Knows(cur[w])
    BY <1>2, PromiseOfHolder
    DEF LoseAnswer, OutcomeFails, Knowing, InHand, Hands
  <2>2. /\ doubts' = [doubts EXCEPT ![cur[w]] = @ + 1]
        /\ UNCHANGED <<status, posts, overtaken, stored, usage, warned>>
    <3>1. CASE LoseAnswer(w) \/ OutcomeFails(w)
      BY <3>1 DEF LoseAnswer, OutcomeFails, Doubt
    <3>2. CASE Crash(w) /\ pc[w] \in InHand
      BY <3>2 DEF Crash, Abandon, InHand
    <3> QED
      BY <1>2, <3>1, <3>2
  <2>3. Promise!Lose(cur[w])
    BY <1>a, <2>1, <2>2 DEF Promise!Lose
  <2> QED
    BY <1>0, <2>3 DEF Promise!Next
<1>3. CASE Crash(w) /\ pc[w] \notin InHand
  <2>1. doubts' = doubts
    BY <1>0, <1>3 DEF Crash, InHand, TypeOK
  <2> QED
    BY <1>3, <2>1, PromiseStutters DEF Crash, Abandon
<1>4. CASE Reserve(w)
  <2>1. CASE usage[cur[w]] = "none"
    <3>1. usage' = [usage EXCEPT ![cur[w]] = "reserved"]
      BY <1>0, <1>4, <2>1 DEF Reserve
    <3>2. Promise!Hold(cur[w])
      BY <1>0, <1>4, <1>a, <2>1, <3>1, PromiseOfHolder
      DEF Reserve, Hands, Seeking, Promise!Hold, Promise!SetCredit
    <3> QED
      BY <1>0, <3>2 DEF Promise!Next
  <2>2. CASE usage[cur[w]] # "none"
    <3>1. usage' = usage
      BY <1>0, <1>4, <2>2 DEF Reserve
    <3> QED
      BY <1>4, <3>1, PromiseStutters DEF Reserve
  <2> QED
    BY <2>1, <2>2
<1>5. CASE Commit(w)
  <2>1. CASE usage[cur[w]] = "reserved"
    <3>1. usage' = [usage EXCEPT ![cur[w]] = "committed"]
      BY <1>0, <1>5, <2>1 DEF Commit
    <3>2. /\ Promise!IsOpen(cur[w]) /\ Promise!Knows(cur[w])
          /\ posts[cur[w]] > 0
      BY <1>0, <1>5, PromiseOfHolder
      DEF Commit, Hands, Knowing, InHand, Metered
    <3>3. Promise!Charge(cur[w])
      BY <1>5, <1>a, <2>1, <3>1, <3>2
      DEF Commit, Promise!Charge, Promise!SetCredit
    <3> QED
      BY <1>0, <3>3 DEF Promise!Next
  <2>2. CASE usage[cur[w]] # "reserved"
    <3>1. usage' = usage
      BY <1>0, <1>5, <2>2 DEF Commit
    <3> QED
      BY <1>5, <3>1, PromiseStutters DEF Commit
  <2> QED
    BY <2>1, <2>2
<1>6. CASE Release(w)
  <2>1. CASE usage[cur[w]] = "reserved"
    <3>1. usage' = [usage EXCEPT ![cur[w]] = "released"]
      BY <1>0, <1>6, <2>1 DEF Release
    <3>2. Promise!IsOpen(cur[w]) /\ Promise!KnowsNone(cur[w])
      BY <1>6, PromiseOfHolder DEF Release, Hands, Seeking, Knowing, InHand
    <3>3. Promise!Drop(cur[w])
      BY <1>6, <1>a, <2>1, <3>1, <3>2
      DEF Release, Promise!Drop, Promise!SetCredit
    <3> QED
      BY <1>0, <3>3 DEF Promise!Next
  <2>2. CASE usage[cur[w]] # "reserved"
    <3>1. usage' = usage
      BY <1>0, <1>6, <2>2 DEF Release
    <3> QED
      BY <1>6, <3>1, PromiseStutters DEF Release
  <2> QED
    BY <2>1, <2>2
<1> QED
  BY <1>1, <1>2, <1>3, <1>4, <1>5, <1>6

\* What a worker writes as the outcome.
LEMMA OutcomeKeepsPromise ==
  ASSUME Kept, NEW w \in Workers, Store(w) \/ GiveUp(w)
  PROVE  [Promise!Next]_Promise!vars
<1> USE DEF world, history
<1>0. /\ cur[w] \in Rows /\ TypeOK /\ Metered(w, cur[w])
      /\ Owned(cur[w]) /\ Marked(cur[w])
      /\ warned \in [Rows -> BOOLEAN]
  BY DEF Kept, Claims, RowClaims, RowKept, Billed, TypeOK
<1>1. CASE Store(w)
  <2>1. State' = [State EXCEPT ![cur[w]] = "published"]
    BY <1>0, <1>1, StateSet DEF Store
  <2>2. Promise!IsOpen(cur[w]) /\ Promise!Knows(cur[w])
    BY <1>1, PromiseOfHolder DEF Store, Hands, Knowing, InHand
  <2>3. /\ usage[cur[w]] = "reserved" => outcome[w] = "warned"
        /\ posts[cur[w]] > 0
    BY <1>0, <1>1 DEF Store, Metered, InHand
  <2>4. warned' = [warned EXCEPT ![cur[w]] = outcome[w] = "warned"]
    BY <1>1 DEF Store
  <2>5. Promise!Publish(cur[w])
    BY <1>1, <2>1, <2>2, <2>3, <2>4 DEF Store, Promise!Publish
  <2> QED
    BY <1>0, <2>5 DEF Promise!Next
<1>2. CASE GiveUp(w)
  <2>1. /\ Promise!IsOpen(cur[w]) \/ State[cur[w]] = "published"
        /\ Promise!KnowsNone(cur[w])
    BY <1>2, PromiseOfHolder DEF GiveUp, Hands, Seeking, Knowing, InHand
  <2>2. /\ UNCHANGED <<posts, doubts, overtaken, stored, usage>>
        /\ warned' = [warned EXCEPT ![cur[w]] = FALSE]
        /\ pc[w] = "giveup"
    BY <1>2 DEF GiveUp
  <2>3. CASE CanRetry(w)
    <3>1. status' = [status EXCEPT ![cur[w]] = "pending"]
      BY <1>2, <2>3 DEF GiveUp, AfterFailure
    <3>2. CASE overtaken[cur[w]]
      <4>1. State' = [State EXCEPT ![cur[w]] = "open"]
        BY <1>0, <3>1, StateSet
      <4>2. Promise!Overwrite(cur[w])
        BY <2>2, <3>2, <4>1 DEF Promise!Overwrite
      <4> QED
        BY <1>0, <4>2 DEF Promise!Next
    <3>3. CASE ~overtaken[cur[w]]
      <4>1. status[cur[w]] = "processing"
        BY <1>0, <2>2, <2>3, <3>3 DEF Owned, CanRetry, Hands, Seeking
      <4>2. warned' = warned
        BY <1>0, <2>2, <4>1 DEF Marked
      <4>3. \A i \in Rows :
                \/ status'[i] = status[i]
                \/ /\ status[i] \in {"pending", "processing"}
                   /\ status'[i] \in {"pending", "processing"}
        BY <1>0, <3>1, <4>1 DEF TypeOK
      <4> QED
        BY <2>2, <4>2, <4>3, PromiseStutters
    <3> QED
      BY <3>2, <3>3
  <2>4. CASE ~CanRetry(w)
    <3>1. status' = [status EXCEPT ![cur[w]] = "failed"]
      BY <1>2, <2>4 DEF GiveUp, AfterFailure
    <3>2. State' = [State EXCEPT ![cur[w]] = "failed"]
      BY <1>0, <3>1, StateSet
    <3>3. Promise!GiveUp(cur[w])
      BY <2>1, <2>2, <3>2 DEF Promise!GiveUp
    <3> QED
      BY <1>0, <3>3 DEF Promise!Next
  <2> QED
    BY <2>3, <2>4
<1> QED
  BY <1>1, <1>2

\* What a worker does to claims and campaigns is its own affair, but for rows
\* that a campaign makes and claims that it recovers.
LEMMA WorkerKeepsPromise ==
  ASSUME Kept, NEW w \in Workers,
         \/ StartTick(w) \/ Materialize(w) \/ Select(w) \/ Claim(w)
         \/ EndTick(w) \/ DeferByPolicy(w) \/ Begin(w) \/ Refuse(w)
         \/ MetaRefuses(w) \/ Answer(w) \/ CommitFails(w) \/ ReleaseFails(w)
         \/ ResetFailures(w) \/ CountFailure(w) \/ Pause(w)
         \/ TickAges(w) \/ RecoveryFails(w)
  PROVE  [Promise!Next]_Promise!vars
<1> USE DEF table, world, history
<1>0. /\ TypeOK /\ Marked(cur[w]) /\ cur[w] \in Rows
      /\ status \in [Rows -> {"none", "pending", "processing", "published",
                              "failed", "cancelled"}]
      /\ warned \in [Rows -> BOOLEAN]
  BY DEF Kept, Claims, RowClaims, TypeOK
<1>1. CASE \/ StartTick(w) \/ EndTick(w) \/ Refuse(w) \/ MetaRefuses(w)
           \/ Answer(w) \/ CommitFails(w) \/ ReleaseFails(w)
           \/ ResetFailures(w) \/ CountFailure(w) \/ Pause(w) \/ TickAges(w)
  <2>1. UNCHANGED <<status, posts, doubts, overtaken, stored, usage, warned>>
    BY <1>1
    DEF StartTick, EndTick, Refuse, MetaRefuses, Answer, CommitFails,
        ReleaseFails, ResetFailures, CountFailure, Pause, TickAges
  <2> QED
    BY <2>1, PromiseStutters
<1>2. CASE Materialize(w)
  <2>1. UNCHANGED <<posts, doubts, overtaken, usage>>
    BY <1>2 DEF Materialize
  <2>2. CASE UNCHANGED table
    BY <2>1, <2>2, PromiseStutters
  <2>3. ASSUME NEW i \in Rows, Insert(i, "campaign", TRUE)
        PROVE  [Promise!Next]_Promise!vars
    BY <1>0, <2>1, <2>3, InsertCreates DEF Promise!Next
  <2> QED
    BY <1>2, <2>2, <2>3 DEF Materialize
<1>3. CASE Select(w)
  <2>1. RecoverRows({i \in Rows : Recoverable(i)})
        /\ UNCHANGED <<posts, stored, usage, warned>>
    BY <1>3 DEF Select
  <2> QED
    BY <2>1, RecoveryKeepsPromise
<1>4. CASE RecoveryFails(w)
  <2>1. RecoverRows({i \in Rows : Recoverable(i) /\ stored[i]})
        /\ UNCHANGED <<posts, stored, usage, warned>>
    BY <1>4 DEF RecoveryFails, Abandon
  <2> QED
    BY <2>1, RecoveryKeepsPromise
<1>5. CASE Claim(w)
  <2>1. UNCHANGED <<posts, doubts, overtaken, stored, usage, warned>>
    BY <1>5 DEF Claim
  <2>2. \E i \in todo[w] :
            \/ /\ Claimable(i)
               /\ status' = [status EXCEPT ![i] = "processing"]
            \/ UNCHANGED status
    BY <1>5 DEF Claim
  <2>3. \A i \in Rows :
            \/ status'[i] = status[i]
            \/ status[i] = "pending" /\ status'[i] = "processing"
    BY <1>0, <2>2 DEF Claimable
  <2> QED
    BY <2>1, <2>3, PromiseStutters
<1>6. CASE DeferByPolicy(w)
  <2>1. UNCHANGED <<posts, doubts, overtaken, stored, usage>>
    BY <1>6 DEF DeferByPolicy
  <2>2. \A i \in Rows :
            \/ status'[i] = status[i]
            \/ status[i] = "processing" /\ status'[i] = "pending"
    BY <1>0, <1>6 DEF DeferByPolicy, Owns
  <2>3. warned' = warned
    <3>1. CASE Owns(w)
      <4>1. ~warned[cur[w]]
        BY <1>0, <3>1 DEF Owns, Marked
      <4>2. warned' \in {warned, [warned EXCEPT ![cur[w]] = FALSE]}
        BY <1>6 DEF DeferByPolicy
      <4> QED
        BY <1>0, <4>1, <4>2
    <3>2. CASE ~Owns(w)
      BY <1>6, <3>2 DEF DeferByPolicy
    <3> QED
      BY <3>1, <3>2
  <2> QED
    BY <2>1, <2>2, <2>3, PromiseStutters
<1>7. CASE Begin(w)
  <2>1. UNCHANGED <<status, posts, doubts, overtaken, stored, usage>>
    BY <1>7 DEF Begin
  <2>2. Owns(w) => ~warned[cur[w]]
    BY <1>0 DEF Owns, Marked
  <2>3. warned' = warned
    BY <1>0, <1>7, <2>2 DEF Begin
  <2> QED
    BY <2>1, <2>3, PromiseStutters
<1> QED
  BY <1>1, <1>2, <1>3, <1>4, <1>5, <1>6, <1>7

\* Users create, reopen and cancel publications; time changes none.
LEMMA OthersKeepPromise ==
  ASSUME Kept,
         \/ User
         \/ SlotComes
         \/ \E i \in Rows : BecomeDue(i) \/ ClaimAges(i)
  PROVE  [Promise!Next]_Promise!vars
<1> USE DEF table, world, history, UserOnly
<1>0. /\ TypeOK /\ \A i \in Rows : Marked(i)
      /\ status \in [Rows -> {"none", "pending", "processing", "published",
                              "failed", "cancelled"}]
      /\ warned \in [Rows -> BOOLEAN]
  BY DEF Kept, Claims, RowClaims, TypeOK
<1>1. ASSUME NEW i \in Rows, Schedule(i) \/ RunNow(i)
      PROVE  [Promise!Next]_Promise!vars
  <2>1. \E from \in {"direct", "campaign"}, d \in BOOLEAN : Insert(i, from, d)
    BY <1>1 DEF Schedule, RunNow
  <2>2. UNCHANGED <<posts, doubts, overtaken, usage>>
    BY <1>1 DEF Schedule, RunNow
  <2>3. Promise!Create(i)
    BY <1>0, <2>1, <2>2, InsertCreates
  <2> QED
    BY <2>3 DEF Promise!Next
<1>2. ASSUME NEW i \in Rows, Retry(i) PROVE [Promise!Next]_Promise!vars
  <2>1. State' = [State EXCEPT ![i] = "open"]
    BY <1>0, <1>2, StateSet DEF Retry
  <2>2. warned' = warned
    BY <1>0, <1>2 DEF Retry, Marked
  <2>3. Promise!Reopen(i)
    BY <1>2, <2>1, <2>2 DEF Retry, State, Promise!Reopen
  <2> QED
    BY <2>3 DEF Promise!Next
<1>3. ASSUME NEW i \in Rows, Cancel(i) PROVE [Promise!Next]_Promise!vars
  <2>1. State' = [State EXCEPT ![i] = "cancelled"]
    BY <1>0, <1>3, StateSet DEF Cancel
  <2>2. State' = [j \in Rows |-> IF j \in {i} THEN "cancelled" ELSE State[j]]
    BY <2>1 DEF State
  <2>3. Promise!KnowsNone(i) /\ State[i] \in {"open", "failed"}
    BY <1>3, PromiseOfWaiting DEF Cancel, State
  <2>4. Promise!Cancel({i})
    BY <1>3, <2>2, <2>3 DEF Cancel, Promise!Cancel
  <2> QED
    BY <2>4 DEF Promise!Next
<1>4. CASE UnlinkPage
  <2> DEFINE S == {i \in Rows : status[i] = "pending"}
  <2>1. State' = [j \in Rows |-> IF j \in S THEN "cancelled" ELSE State[j]]
    BY <1>4 DEF UnlinkPage, State
  <2>2. \A i \in S : Promise!KnowsNone(i) /\ State[i] \in {"open", "failed"}
    BY PromiseOfWaiting DEF State
  <2>3. Promise!Cancel(S)
    BY <1>4, <2>1, <2>2 DEF UnlinkPage, Promise!Cancel
  <2> QED
    BY <2>3 DEF Promise!Next
<1>5. CASE \/ EditCampaign \/ CompleteCampaign \/ SlotComes
           \/ \E i \in Rows : PublishNow(i) \/ BecomeDue(i) \/ ClaimAges(i)
  <2>1. UNCHANGED <<status, posts, doubts, overtaken, stored, usage, warned>>
    BY <1>5
    DEF EditCampaign, CompleteCampaign, SlotComes, PublishNow, BecomeDue,
        ClaimAges
  <2> QED
    BY <2>1, PromiseStutters
<1> QED
  BY <1>1, <1>2, <1>3, <1>4, <1>5 DEF User

\* The scheduler keeps the promise about posts and credits, whatever its
\* processes, its users and accidents do: each of its steps is a step of a
\* publication or nothing that a user, the books or Meta could tell.
THEOREM PublicationsAreKept == Spec => ImplementsPublications
<1>1. Init => Promise!Init
  BY DEF Init, State, Promise!Init
<1>2. Kept /\ [Next]_vars => [Promise!Next]_Promise!vars
  <2> SUFFICES ASSUME Kept, [Next]_vars PROVE [Promise!Next]_Promise!vars
    OBVIOUS
  <2>1. CASE UNCHANGED vars
    BY <2>1, PromiseStutters DEF vars, table, world, history
  <2>2. ASSUME NEW w \in Workers, Step(w) \/ Accidents(w)
        PROVE  [Promise!Next]_Promise!vars
    BY <2>2, PublisherKeepsPromise, OutcomeKeepsPromise, WorkerKeepsPromise
    DEF Step, Accidents
  <2> QED
    BY <2>1, <2>2, OthersKeepPromise DEF Next
<1>3. Claims /\ (\A i \in Rows : Accounted(i)) /\ (\A i \in Rows : Counted(i))
          /\ (\A i \in Rows : Billed(i)) => Kept
  BY DEF Kept, RowKept
<1>4. Spec => []Kept
  BY <1>3, ClaimsAlways, AccountAlways, CountAlways, BilledAlways, PTL
<1> QED
  BY <1>1, <1>2, <1>4, PTL DEF Spec, ImplementsPublications, Promise!Spec

----------------------------------------------------------------------------
(* Auto-pause *)

\* A campaign at its limit of failures is paused by whoever counted the last.
LEMMA PauseStep ==
  TypeOK /\ ActiveBelowThreshold /\ [Next]_vars => ActiveBelowThreshold'
<1> SUFFICES ASSUME TypeOK, ActiveBelowThreshold, [Next]_vars
             PROVE  ActiveBelowThreshold'
  OBVIOUS
<1> USE DEF table, claim, memory, campaigns, world, history, UserOnly, Goto,
            NextRow
<1>0. /\ Threshold \in Nat /\ Threshold > 0
      /\ pc \in [Workers -> Places] /\ accidents \in Nat /\ failures \in Nat
  BY ContentConstants DEF TypeOK
<1>1. ASSUME UNCHANGED <<accidents, pc>>,
             campaign' = "active" => campaign = "active",
             failures' = failures \/ failures' = 0
      PROVE  ActiveBelowThreshold'
  BY <1>0, <1>1 DEF ActiveBelowThreshold
<1>2. CASE UNCHANGED vars
  BY <1>1, <1>2 DEF vars
<1>3. CASE EditCampaign
  BY <1>0, <1>3 DEF EditCampaign, ResumedFailures, ActiveBelowThreshold
<1>4. CASE CompleteCampaign \/ UnlinkPage
  BY <1>1, <1>4 DEF CompleteCampaign, UnlinkPage
<1>5. CASE \E i \in Rows :
               Schedule(i) \/ RunNow(i) \/ Retry(i) \/ PublishNow(i) \/ Cancel(i)
  BY <1>1, <1>5 DEF Schedule, RunNow, Retry, PublishNow, Cancel
<1>6. CASE SlotComes \/ \E i \in Rows : BecomeDue(i) \/ ClaimAges(i)
  BY <1>1, <1>6 DEF SlotComes, BecomeDue, ClaimAges
<1>7. ASSUME NEW w \in Workers, Pause(w) PROVE ActiveBelowThreshold'
  BY <1>0, <1>7 DEF Pause, ActiveBelowThreshold
<1>8. ASSUME NEW w \in Workers, CountFailure(w) PROVE ActiveBelowThreshold'
  BY <1>0, <1>8 DEF CountFailure, ActiveBelowThreshold
<1>9. ASSUME NEW w \in Workers, ResetFailures(w) PROVE ActiveBelowThreshold'
  BY <1>0, <1>9 DEF ResetFailures, ActiveBelowThreshold
<1>10. ASSUME NEW w \in Workers, Accidents(w) PROVE ActiveBelowThreshold'
  <2>1. accidents' = accidents + 1
    BY <1>10
    DEF Accidents, ReleaseFails, OutcomeFails, TickAges, Crash, RecoveryFails,
        Abandon, Accident
  <2>2. accidents' > 0
    BY <1>0, <2>1
  <2> QED
    BY <2>2 DEF ActiveBelowThreshold
<1>11. ASSUME NEW w \in Workers, Step(w),
              ~Pause(w), ~CountFailure(w), ~ResetFailures(w)
       PROVE  ActiveBelowThreshold'
  <2>1. UNCHANGED <<campaign, failures, accidents>> /\ pc[w] # "pause"
    BY <1>11
    DEF Step, StartTick, Materialize, Select, Claim, EndTick, DeferByPolicy,
        Begin, Reserve, Refuse, MetaPosts, MetaRefuses, Answer, LoseAnswer,
        Commit, CommitFails, Release, Store, GiveUp
  <2>2. \A v \in Workers : v # w => pc'[v] = pc[v]
    BY <1>0, <1>11
    DEF Step, StartTick, Materialize, Select, Claim, EndTick, DeferByPolicy,
        Begin, Reserve, Refuse, MetaPosts, MetaRefuses, Answer, LoseAnswer,
        Commit, CommitFails, Release, Store, GiveUp, CampaignStep
  <2> QED
    BY <2>1, <2>2 DEF ActiveBelowThreshold
<1> QED
  BY <1>2, <1>3, <1>4, <1>5, <1>6, <1>7, <1>8, <1>9, <1>10, <1>11
  DEF Next, User

\* A campaign that failed as often as its limit does not stay active.
THEOREM FailuresPause == Spec => []ActiveBelowThreshold
<1>1. Init => ActiveBelowThreshold
  BY ContentConstants DEF Init, ActiveBelowThreshold
<1> QED
  BY <1>1, TypeInit, TypeStep, PauseStep, PTL DEF Spec

=============================================================================
