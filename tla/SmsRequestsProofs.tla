------------------------- MODULE SmsRequestsProofs -------------------------
(***************************************************************************)
(* Proofs about SmsRequests for every number of keys, handlers, tries,     *)
(* attempts, crashes and stalls.                                           *)
(***************************************************************************)
EXTENDS SmsRequests, TLAPS

Responses == {"none", "accepted", "busy", "definite", "retry"}
Knowledge == {"unknown", "working", "accepted"}

\* The steps of the system, one per action.
LEMMA NextCases ==
    ASSUME [Next]_vars
    PROVE  \/ \E h \in Handlers, k \in Keys, response \in Responses :
                 Reply(h, k, response)
           \/ \E h \in Handlers, k \in Keys : Claim(h, k)
           \/ \E h \in Handlers :
                 \/ AccountInactive(h) \/ UseAgain(h) \/ Reserve(h)
                 \/ Attach(h) \/ Try(h) \/ Commit(h) \/ Confirm(h)
                 \/ Release(h) \/ Fail(h) \/ NewKey(h)
           \/ \E k \in Keys :
                 \/ GatewayDecides(k) \/ Reconcile(k) \/ LeaseExpires(k)
                 \/ CutReconcile(k) \/ ReadHistory(k)
           \/ Crash \/ CheckHealth \/ PageThrows
           \/ UNCHANGED vars
  BY DEF Next, Request, Step, ReplyStored, RefuseInactive, ReplyBusy, Responses

\* What a call to the gateway can do to a key.
LEMMA CallEffectsShape ==
    ASSUME NEW g \in Knowledge, NEW e \in CallEffects(g)
    PROVE  /\ e[1] \in Knowledge
           /\ e[2] \in {"ok", "lost", "send_failed", "refused"}
           /\ e[2] = "ok" => e[1] = "accepted"
           /\ g = "accepted" => e[1] = "accepted"
  BY DEF CallEffects, Knowledge

\* A call changes the gateway and the place of one handler; it ends as a certain
\* failure only if the gateway does not know the key or the key counts as
\* forgotten.
LEMMA TryShape ==
    ASSUME TypeOK, NEW h \in Handlers, Try(h)
    PROVE  \E e \in CallEffects(gateway[req[h]]) :
             /\ gateway' = [gateway EXCEPT ![req[h]] = e[1]]
             /\ \/ pc' = pc
                \/ e[2] = "ok" /\ pc' = [pc EXCEPT ![h] = "commit"]
                \/ e[2] = "lost" /\ pc' = [pc EXCEPT ![h] = "fail"]
                \/ /\ pc' = [pc EXCEPT ![h] = "release"]
                   /\ e[1] # "unknown" => req[h] \in forgotten'
             /\ forgotten' \in {forgotten, forgotten \cup {req[h]}}
             /\ tries' \in [Handlers -> 0..MaxTries]
             /\ healthy' \in BOOLEAN
             /\ answer' \in [Handlers -> Responses]
             /\ accidents' \in Nat
<1>1. PICK e \in CallEffects(gateway[req[h]]) :
        LET seen == e[2]
            again == seen \in {"lost", "send_failed"} /\ TriesLeft(h)
        IN  /\ gateway' = [gateway EXCEPT ![req[h]] = e[1]]
            /\ tries' = [tries EXCEPT ![h] = IF again THEN @ + 1 ELSE 0]
            /\ \/ /\ again
                  /\ UNCHANGED <<pc, answer, healthy, forgotten, accidents>>
               \/ /\ ~again
                  /\ seen = "ok"
                  /\ Goto(h, "commit")
                  /\ UNCHANGED <<answer, healthy, forgotten, accidents>>
               \/ /\ ~again
                  /\ seen # "ok"
                  /\ AfterSend(h, seen)
                  /\ healthy' \in IF seen = "lost" THEN {FALSE}
                                  ELSE IF seen = "send_failed"
                                  THEN {healthy, FALSE} ELSE {healthy}
                  /\ IF seen = "lost" THEN UNCHANGED forgotten
                     ELSE GiveUp(req[h], e[1])
                  /\ UNCHANGED accidents
               \/ /\ Accident
                  /\ seen = "lost"
                  /\ AfterSend(h, "send_failed")
                  /\ GiveUp(req[h], e[1])
                  /\ UNCHANGED healthy
  BY DEF Try
<1>2. e[2] \in {"ok", "lost", "send_failed", "refused"}
  BY CallEffectsShape DEF TypeOK, Knowledge
<1>3. tries' \in [Handlers -> 0..MaxTries]
  BY <1>1, SmsConstants DEF TypeOK, TriesLeft
<1>4. healthy' \in BOOLEAN
  BY <1>1 DEF TypeOK
<1>5. answer' \in [Handlers -> Responses]
  BY <1>1 DEF TypeOK, AfterSend, Throw, Responses
<1>6. \/ pc' = pc
      \/ e[2] = "ok" /\ pc' = [pc EXCEPT ![h] = "commit"]
      \/ e[2] = "lost" /\ pc' = [pc EXCEPT ![h] = "fail"]
      \/ /\ pc' = [pc EXCEPT ![h] = "release"]
         /\ e[1] # "unknown" => req[h] \in forgotten'
  BY <1>1, <1>2 DEF AfterSend, Throw, Goto, GiveUp
<1>7. forgotten' \in {forgotten, forgotten \cup {req[h]}}
  BY <1>1 DEF GiveUp
<1>8. accidents' \in Nat
  <2>1. accidents' = accidents \/ accidents' = accidents + 1
    BY <1>1 DEF Accident
  <2>2. QED
    BY <2>1 DEF TypeOK
<1>9. gateway' = [gateway EXCEPT ![req[h]] = e[1]]
  BY <1>1
<1>10. QED
  BY <1>3, <1>4, <1>5, <1>6, <1>7, <1>8, <1>9

\* A settlement changes at most one usage, from reserved to `status`.
LEMMA SettleShape ==
    ASSUME TypeOK, NEW k \in Keys, NEW n \in 0..MaxAttempts,
           NEW status \in {"committed", "released"}, Settle(k, n, status)
    PROVE  /\ usage' \in [Keys -> [Attempts ->
                             {"none", "reserved", "committed", "released"}]]
           /\ \A j \in Keys, m \in Attempts :
                 \/ usage'[j][m] = usage[j][m]
                 \/ /\ j = k /\ m = n
                    /\ usage[k][n] = "reserved"
                    /\ usage'[k][n] = status
           /\ n # 0 /\ usage[k][n] = "reserved" => usage'[k][n] = status
<1>1. CASE n # 0 /\ usage[k][n] = "reserved"
  <2>1. n \in Attempts
    BY <1>1, SmsConstants DEF Attempts
  <2>2. usage' = [usage EXCEPT ![k] = [usage[k] EXCEPT ![n] = status]]
    BY <1>1 DEF Settle
  <2>3. QED
    BY <1>1, <2>1, <2>2 DEF TypeOK
<1>2. CASE ~(n # 0 /\ usage[k][n] = "reserved")
  BY <1>2 DEF Settle, TypeOK
<1>3. QED
  BY <1>1, <1>2

----------------------------------------------------------------------------
(* The books: type correctness and the single open usage *)

\* At most one handler is between two transactions.
OneRunning ==
    \A h, i \in Handlers : pc[h] \in Running /\ pc[i] \in Running => h = i

\* A row knows its attempt, and billing_usage_id never lags behind it.
RowsCountAttempts ==
    \A k \in Keys : /\ row[k] # "none" <=> attempt[k] # 0
                    /\ billed[k] \in {0, attempt[k]}

\* Only the usage of the current attempt can be open.
OpenIsCurrent ==
    \A k \in Keys, n \in Attempts :
        /\ usage[k][n] # "none" => n <= attempt[k]
        /\ usage[k][n] \in Open => n = attempt[k]

\* From claim() to attachBilling() the handler works on the current attempt.
ClaimIsCurrent ==
    \A h \in Handlers :
        /\ pc[h] \in {"check", "attach"} => row[req[h]] # "none"
        /\ pc[h] = "check" /\ billed[req[h]] = 0 =>
              usage[req[h]][attempt[req[h]]] = "none"
        /\ pc[h] = "attach" => hold[h] = attempt[req[h]]

Books ==
    /\ TypeOK
    /\ OneRunning
    /\ RowsCountAttempts
    /\ OpenIsCurrent
    /\ ClaimIsCurrent

\* Empty tables are consistent.
LEMMA BooksInit == Init => Books
<1> SUFFICES ASSUME Init PROVE Books
  OBVIOUS
<1>1. TypeOK
  <2>1. 1 \in Keys /\ 0 \in 0..MaxAttempts /\ 0 \in 0..MaxTries
    BY SmsConstants DEF Keys
  <2>2. /\ row \in [Keys -> {"none", "processing", "accepted", "failed"}]
        /\ usage \in [Keys -> [Attempts ->
                         {"none", "reserved", "committed", "released"}]]
        /\ gateway \in [Keys -> {"unknown", "working", "accepted"}]
    BY DEF Init
  <2>3. /\ attempt \in [Keys -> 0..MaxAttempts]
        /\ billed \in [Keys -> 0..MaxAttempts]
        /\ lease \in [Keys -> BOOLEAN]
    BY <2>1 DEF Init
  <2>4. /\ pc \in [Handlers -> {"idle", "send", "confirm"} \cup Running]
        /\ req \in [Handlers -> Keys]
        /\ hold \in [Handlers -> 0..MaxAttempts]
        /\ tries \in [Handlers -> 0..MaxTries]
        /\ answer \in [Handlers -> {"none", "accepted", "busy", "definite", "retry"}]
    BY <2>1 DEF Init
  <2>5. QED
    BY <2>1, <2>2, <2>3, <2>4 DEF Init, TypeOK
<1>2. OneRunning /\ RowsCountAttempts /\ OpenIsCurrent /\ ClaimIsCurrent
  BY DEF Init, OneRunning, RowsCountAttempts, OpenIsCurrent, ClaimIsCurrent,
     Running, Open
<1>3. QED
  BY <1>1, <1>2 DEF Books

\* Every step keeps the books.
LEMMA BooksStep == Books /\ [Next]_vars => Books'
<1> SUFFICES ASSUME Books, [Next]_vars PROVE Books'
  OBVIOUS
<1> USE DEF Books, TypeOK, world, outside, history
<1> USE SmsConstants
<1>1. ASSUME NEW h \in Handlers, NEW k \in Keys, NEW response \in Responses,
             Reply(h, k, response)
      PROVE  Books'
  BY <1>1 DEF Reply, Responses, Yielded, Running, OneRunning, RowsCountAttempts,
     OpenIsCurrent, ClaimIsCurrent, table, world
<1>2. ASSUME NEW h \in Handlers, NEW k \in Keys, Claim(h, k)
      PROVE  Books'
  <2>1. /\ Yielded
        /\ row' = [row EXCEPT ![k] = "processing"]
        /\ lease' = [lease EXCEPT ![k] = TRUE]
        /\ pc' = [pc EXCEPT ![h] = "check"]
        /\ answer' = [answer EXCEPT ![h] = "none"]
        /\ req' = [req EXCEPT ![h] = k]
        /\ UNCHANGED <<usage, healthy, hold, tries, world>>
    BY <1>2 DEF Claim, Throw, Goto
  <2>2. CASE HasOpenUsage(k)
    <3>1. /\ attempt' = attempt
          /\ billed' = [billed EXCEPT ![k] = attempt[k]]
          /\ attempt[k] # 0
      BY <1>2, <2>2 DEF Claim, HasOpenUsage, UsageOf, RowsCountAttempts
    <3>2. QED
      BY <2>1, <3>1 DEF Yielded, Running, OneRunning, RowsCountAttempts,
         OpenIsCurrent, ClaimIsCurrent, world
  <2>3. CASE ~HasOpenUsage(k)
    <3>1. /\ attempt[k] < MaxAttempts
          /\ attempt' = [attempt EXCEPT ![k] = attempt[k] + 1]
          /\ billed' = [billed EXCEPT ![k] = 0]
      BY <1>2, <2>3 DEF Claim
    <3>2. attempt[k] + 1 \in Attempts /\ attempt[k] \in 0..MaxAttempts
      BY <3>1 DEF Attempts
    <3>3. \A n \in Attempts : usage[k][n] \notin Open
      <4>1. ASSUME NEW n \in Attempts, usage[k][n] \in Open
            PROVE  FALSE
        <5>1. n = attempt[k] /\ n # 0
          BY <4>1 DEF OpenIsCurrent, Attempts
        <5>2. UsageOf(k) = n
          BY <5>1 DEF UsageOf, RowsCountAttempts
        <5>3. QED
          BY <2>3, <4>1, <5>1, <5>2 DEF HasOpenUsage
      <4>2. QED
        BY <4>1
    <3>4. usage[k][attempt[k] + 1] = "none"
      BY <3>2 DEF OpenIsCurrent
    <3>5. OpenIsCurrent'
      BY <2>1, <3>1, <3>2, <3>3 DEF OpenIsCurrent, Attempts
    <3>6. ClaimIsCurrent'
      BY <2>1, <3>1, <3>2, <3>4 DEF ClaimIsCurrent, Yielded, Running
    <3>7. OneRunning' /\ RowsCountAttempts'
      BY <2>1, <3>1 DEF OneRunning, RowsCountAttempts, Yielded
    <3>8. TypeOK'
      BY <2>1, <3>1, <3>2 DEF Running, world, Attempts
    <3>9. QED
      BY <3>5, <3>6, <3>7, <3>8
  <2>4. QED
    BY <2>2, <2>3
<1>3. ASSUME NEW h \in Handlers, AccountInactive(h) \/ UseAgain(h)
      PROVE  Books'
  <2>1. /\ pc[h] = "check"
        /\ UNCHANGED <<table, usage, healthy, req, tries, world>>
    BY <1>3 DEF AccountInactive, UseAgain
  <2>2. \A i \in Handlers : i # h => pc[i] \notin Running
    BY <2>1 DEF OneRunning, Running
  <2>3. CASE AccountInactive(h)
    <3>1. /\ pc' = [pc EXCEPT ![h] = "fail"]
          /\ answer' = [answer EXCEPT ![h] = "definite"]
          /\ hold' = hold
      BY <2>3 DEF AccountInactive, Throw, Goto
    <3>2. QED
      BY <2>1, <2>2, <3>1 DEF Running, OneRunning, RowsCountAttempts,
         OpenIsCurrent, ClaimIsCurrent, table, world
  <2>4. CASE UseAgain(h)
    <3>1. /\ pc' = [pc EXCEPT ![h] = "send"]
          /\ answer' = answer
          /\ hold' = [hold EXCEPT ![h] = billed[req[h]]]
      BY <2>4 DEF UseAgain, Goto
    <3>2. QED
      BY <2>1, <2>2, <3>1 DEF Running, OneRunning, RowsCountAttempts,
         OpenIsCurrent, ClaimIsCurrent, table, world
  <2>5. QED
    BY <1>3, <2>3, <2>4
<1>4. ASSUME NEW h \in Handlers, Reserve(h)
      PROVE  Books'
  <2> DEFINE k == req[h]
  <2>1. /\ pc[h] = "check" /\ billed[k] = 0 /\ row[k] # "none"
        /\ k \in Keys /\ attempt[k] \in Attempts
        /\ usage[k][attempt[k]] = "none"
    BY <1>4 DEF Reserve, ClaimIsCurrent, RowsCountAttempts, Attempts
  <2>2. \A i \in Handlers : i # h => pc[i] \notin Running
    BY <2>1 DEF OneRunning, Running
  <2>3. UNCHANGED <<table, healthy, req, tries, world>>
    BY <1>4 DEF Reserve
  <2>4. CASE /\ hold' = [hold EXCEPT ![h] = attempt[k]]
             /\ usage' = [usage EXCEPT ![k] =
                             [usage[k] EXCEPT ![attempt[k]] = "reserved"]]
             /\ pc' = [pc EXCEPT ![h] = "attach"]
             /\ UNCHANGED answer
    <3>1. OpenIsCurrent'
      BY <2>1, <2>3, <2>4 DEF OpenIsCurrent, table
    <3>2. ClaimIsCurrent'
      BY <2>1, <2>2, <2>3, <2>4 DEF ClaimIsCurrent, Running, table
    <3>3. OneRunning' /\ RowsCountAttempts'
      BY <2>2, <2>3, <2>4 DEF OneRunning, RowsCountAttempts, table
    <3>4. TypeOK'
      BY <2>1, <2>3, <2>4 DEF Running, table, world
    <3>5. QED
      BY <3>1, <3>2, <3>3, <3>4
  <2>5. CASE /\ pc' = [pc EXCEPT ![h] = "fail"]
             /\ answer' = [answer EXCEPT ![h] = "definite"]
             /\ UNCHANGED <<usage, hold>>
    BY <2>1, <2>2, <2>3, <2>5 DEF Running, OneRunning, RowsCountAttempts,
       OpenIsCurrent, ClaimIsCurrent, table, world
  <2>6. QED
    BY <1>4, <2>1, <2>4, <2>5 DEF Reserve, Throw, Goto
<1>5. ASSUME NEW h \in Handlers, Attach(h)
      PROVE  Books'
  <2>1. /\ pc[h] = "attach" /\ hold[h] = attempt[req[h]]
        /\ UNCHANGED <<row, attempt, lease, usage, healthy>>
        /\ UNCHANGED <<req, hold, tries, outside>>
    BY <1>5 DEF Attach, ClaimIsCurrent
  <2>2. \A i \in Handlers : i # h => pc[i] \notin Running
    BY <2>1 DEF OneRunning, Running
  <2>3. CASE /\ billed' = [billed EXCEPT ![req[h]] = hold[h]]
             /\ pc' = [pc EXCEPT ![h] = "send"]
             /\ UNCHANGED <<answer, accidents>>
    BY <2>1, <2>2, <2>3 DEF Running, OneRunning, RowsCountAttempts,
       OpenIsCurrent, ClaimIsCurrent
  <2>4. CASE /\ accidents' = accidents + 1
             /\ pc' = [pc EXCEPT ![h] = "release"]
             /\ answer' = [answer EXCEPT ![h] = "definite"]
             /\ billed' = billed
    BY <2>1, <2>2, <2>4 DEF Running, OneRunning, RowsCountAttempts,
       OpenIsCurrent, ClaimIsCurrent
  <2>5. QED
    BY <1>5, <2>3, <2>4 DEF Attach, Accident, Throw, Goto
<1>6. ASSUME NEW h \in Handlers, Try(h)
      PROVE  Books'
  <2>1. /\ Yielded /\ pc[h] = "send"
        /\ UNCHANGED <<table, usage, req, hold, current, passed, stuck, stalls>>
    BY <1>6 DEF Try
  <2>2. PICK e \in CallEffects(gateway[req[h]]) :
           /\ gateway' = [gateway EXCEPT ![req[h]] = e[1]]
           /\ \/ pc' = pc
              \/ e[2] = "ok" /\ pc' = [pc EXCEPT ![h] = "commit"]
              \/ e[2] = "lost" /\ pc' = [pc EXCEPT ![h] = "fail"]
              \/ pc' = [pc EXCEPT ![h] = "release"]
           /\ forgotten' \in {forgotten, forgotten \cup {req[h]}}
           /\ tries' \in [Handlers -> 0..MaxTries]
           /\ healthy' \in BOOLEAN
           /\ answer' \in [Handlers -> Responses]
           /\ accidents' \in Nat
    BY <1>6, TryShape
  <2>3. e[1] \in Knowledge
    BY CallEffectsShape DEF Knowledge
  <2>4. TypeOK'
    <3>1. gateway' \in [Keys -> Knowledge]
      BY <2>2, <2>3 DEF Knowledge
    <3>2. forgotten' \subseteq Keys
      BY <2>2
    <3>3. pc' \in [Handlers -> {"idle", "send", "confirm"} \cup Running]
      BY <2>2 DEF Running
    <3>4. /\ tries' \in [Handlers -> 0..MaxTries] /\ healthy' \in BOOLEAN
          /\ answer' \in [Handlers -> Responses] /\ accidents' \in Nat
      BY <2>2
    <3>5. QED
      BY <2>1, <3>1, <3>2, <3>3, <3>4 DEF Knowledge, Responses, table
  <2>5. /\ \E place \in {"send", "commit", "fail", "release"} :
               pc' = [pc EXCEPT ![h] = place]
        /\ \A i \in Handlers : pc[i] \notin Running
    BY <2>1, <2>2 DEF Yielded
  <2>6. QED
    BY <2>1, <2>4, <2>5 DEF Running, OneRunning, RowsCountAttempts,
       OpenIsCurrent, ClaimIsCurrent, table
<1>7. ASSUME NEW h \in Handlers, Commit(h) \/ Release(h)
      PROVE  Books'
  <2>1. /\ pc[h] \in {"commit", "release"}
        /\ UNCHANGED <<table, healthy, req, hold, tries, world>>
        /\ answer' \in [Handlers -> Responses]
        /\ \E place \in {"confirm", "fail"} : pc' = [pc EXCEPT ![h] = place]
    BY <1>7 DEF Commit, Release, Throw, Goto, Responses
  <2>2. \/ usage' = usage
        \/ \E status \in {"committed", "released"} :
              Settle(req[h], hold[h], status)
    BY <1>7 DEF Commit, Release
  <2>3. /\ usage' \in [Keys -> [Attempts ->
                           {"none", "reserved", "committed", "released"}]]
        /\ \A j \in Keys, m \in Attempts :
              usage'[j][m] = usage[j][m] \/ usage[j][m] = "reserved"
    BY <2>2, SettleShape
  <2>4. \A i \in Handlers : i # h => pc[i] \notin Running
    BY <2>1 DEF OneRunning, Running
  <2>5. TypeOK'
    BY <2>1, <2>3 DEF Responses, Running, table, world
  <2>6. OpenIsCurrent'
    BY <2>1, <2>3 DEF OpenIsCurrent, Open, table
  <2>7. QED
    BY <2>1, <2>4, <2>5, <2>6 DEF Running, OneRunning, RowsCountAttempts,
       ClaimIsCurrent, table
<1>8. ASSUME NEW h \in Handlers, Confirm(h) \/ Fail(h)
      PROVE  Books'
  <2>1. /\ UNCHANGED <<attempt, billed, usage, healthy, req, tries, outside>>
        /\ pc[h] = "fail" \/ Yielded
        /\ \E place \in {"idle", "fail"} : pc' = [pc EXCEPT ![h] = place]
        /\ hold' \in {hold, [hold EXCEPT ![h] = 0]}
        /\ answer' \in [Handlers -> Responses]
        /\ accidents' \in Nat
    <3>1. CASE Confirm(h)
      <4>1. /\ Yielded
            /\ UNCHANGED <<attempt, billed, usage, healthy, req, tries, outside>>
            /\ accidents' = accidents \/ accidents' = accidents + 1
        BY <3>1 DEF Confirm, Accident
      <4>2. \/ Return(h, "accepted")
            \/ Throw(h, "fail", "retry") /\ hold' = hold
        BY <3>1 DEF Confirm
      <4>3. QED
        BY <4>1, <4>2 DEF Return, Throw, Goto, Responses
    <3>2. CASE Fail(h)
      BY <3>2 DEF Fail, Return, Responses, Accident
    <3>3. QED
      BY <1>8, <3>1, <3>2
  <2>2. /\ row' \in [Keys -> {"none", "processing", "accepted", "failed"}]
        /\ lease' \in [Keys -> BOOLEAN]
        /\ \A k \in Keys : row'[k] = "none" <=> row[k] = "none"
    <3>1. CASE Confirm(h)
      <4>1. CASE /\ row[req[h]] = "processing"
                 /\ row' = [row EXCEPT ![req[h]] = "accepted"]
                 /\ lease' = [lease EXCEPT ![req[h]] = FALSE]
        BY <4>1
      <4>2. CASE UNCHANGED <<row, lease>>
        BY <4>2
      <4>3. QED
        BY <3>1, <4>1, <4>2 DEF Confirm
    <3>2. CASE Fail(h)
      <4>1. CASE /\ row[req[h]] = "processing"
                 /\ row' = [row EXCEPT ![req[h]] = "failed"]
                 /\ lease' = [lease EXCEPT ![req[h]] = FALSE]
        BY <4>1
      <4>2. CASE UNCHANGED <<row, lease>>
        BY <4>2
      <4>3. QED
        BY <3>2, <4>1, <4>2 DEF Fail, FailRow
    <3>3. QED
      BY <1>8, <3>1, <3>2
  <2>3. \A i \in Handlers : i # h => pc[i] \notin Running
    BY <2>1 DEF OneRunning, Yielded, Running
  <2>4. TypeOK'
    <3>1. pc' \in [Handlers -> {"idle", "send", "confirm"} \cup Running]
      BY <2>1 DEF Running
    <3>2. hold' \in [Handlers -> 0..MaxAttempts]
      <4>1. hold' = hold \/ hold' = [hold EXCEPT ![h] = 0]
        BY <2>1
      <4>2. 0 \in 0..MaxAttempts /\ hold \in [Handlers -> 0..MaxAttempts]
        OBVIOUS
      <4>3. CASE hold' = hold
        BY <4>2, <4>3
      <4>4. CASE hold' = [hold EXCEPT ![h] = 0]
        BY <4>2, <4>4
      <4>5. QED
        BY <4>1, <4>3, <4>4
    <3>3. QED
      BY <2>1, <2>2, <3>1, <3>2 DEF Responses
  <2>5. OneRunning'
    BY <2>1, <2>3 DEF OneRunning, Running
  <2>6. RowsCountAttempts' /\ OpenIsCurrent'
    BY <2>1, <2>2 DEF RowsCountAttempts, OpenIsCurrent
  <2>7. ClaimIsCurrent'
    <3>1. \A i \in Handlers : pc'[i] \notin {"check", "attach"}
      BY <2>1, <2>3 DEF Running
    <3>2. QED
      BY <3>1 DEF ClaimIsCurrent
  <2>8. QED
    BY <2>4, <2>5, <2>6, <2>7
<1>9. ASSUME NEW h \in Handlers, NewKey(h)
      PROVE  Books'
  <2>1. current' \in Keys
    BY <1>9 DEF NewKey, Keys
  <2>2. QED
    BY <1>9, <2>1 DEF NewKey, OneRunning, RowsCountAttempts, OpenIsCurrent,
       ClaimIsCurrent, table, handler
<1>10. ASSUME NEW k \in Keys, GatewayDecides(k) \/ LeaseExpires(k)
       PROVE  Books'
  <2>1. /\ UNCHANGED <<row, attempt, billed, usage, healthy, handler>>
        /\ UNCHANGED <<forgotten, current, passed, stuck, accidents>>
        /\ lease' \in [Keys -> BOOLEAN]
        /\ gateway' \in [Keys -> Knowledge]
        /\ stalls' \in Nat
    <3>1. CASE GatewayDecides(k)
      BY <3>1 DEF GatewayDecides, Knowledge, table
    <3>2. CASE LeaseExpires(k)
      BY <3>2 DEF LeaseExpires, Knowledge
    <3>3. QED
      BY <1>10, <3>1, <3>2
  <2>2. QED
    BY <2>1 DEF Knowledge, OneRunning, RowsCountAttempts, OpenIsCurrent,
       ClaimIsCurrent, handler
<1>11. ASSUME NEW k \in Keys, Reconcile(k) \/ CutReconcile(k) \/ ReadHistory(k)
       PROVE  Books'
  <2>1. /\ Yielded
        /\ UNCHANGED <<attempt, billed, healthy, handler, gateway, forgotten>>
        /\ UNCHANGED <<current, stuck, stalls>>
        /\ passed' \subseteq Keys
        /\ accidents' \in Nat
    BY <1>11 DEF Reconcile, CutReconcile, ReadHistory, Accept, Accident, table
  <2>2. /\ usage' \in [Keys -> [Attempts ->
                           {"none", "reserved", "committed", "released"}]]
        /\ \A j \in Keys, m \in Attempts :
              usage'[j][m] = usage[j][m] \/ usage[j][m] = "reserved"
    <3>1. UsageOf(k) \in 0..MaxAttempts
      BY DEF UsageOf
    <3>2. Settle(k, UsageOf(k), "committed") \/ usage' = usage
      BY <1>11 DEF Reconcile, CutReconcile, ReadHistory, Accept
    <3>3. CASE usage' = usage
      BY <3>3
    <3>4. CASE Settle(k, UsageOf(k), "committed")
      BY <3>1, <3>4, SettleShape
    <3>5. QED
      BY <3>2, <3>3, <3>4
  <2>3. /\ row' \in [Keys -> {"none", "processing", "accepted", "failed"}]
        /\ lease' \in [Keys -> BOOLEAN]
        /\ \A j \in Keys : row'[j] = "none" <=> row[j] = "none"
    <3>1. \/ UNCHANGED <<row, lease>>
          \/ /\ row[k] # "none"
             /\ row' = [row EXCEPT ![k] = "accepted"]
             /\ lease' = [lease EXCEPT ![k] = FALSE]
      BY <1>11 DEF Reconcile, CutReconcile, ReadHistory, Accept, Reconcilable, table
    <3>2. QED
      BY <3>1
  <2>4. OpenIsCurrent'
    BY <2>1, <2>2 DEF OpenIsCurrent, Open
  <2>5. \A i \in Handlers : pc'[i] \notin Running
    BY <2>1 DEF Yielded, Running, handler
  <2>6. OneRunning' /\ RowsCountAttempts' /\ ClaimIsCurrent'
    BY <2>1, <2>3, <2>5 DEF OneRunning, RowsCountAttempts, ClaimIsCurrent, Running
  <2>7. TypeOK'
    BY <2>1, <2>2, <2>3 DEF handler
  <2>8. QED
    BY <2>4, <2>6, <2>7
<1>12. CASE Crash
  <2>1. gateway' \in [Keys -> Knowledge]
    BY <1>12 DEF Crash, Knowledge
  <2>2. QED
    BY <1>12, <2>1 DEF Crash, Accident, Running, OneRunning, RowsCountAttempts,
       OpenIsCurrent, ClaimIsCurrent, table, Knowledge
<1>13. CASE CheckHealth
  BY <1>13 DEF CheckHealth, OneRunning, RowsCountAttempts, OpenIsCurrent,
     ClaimIsCurrent, table, handler, world
<1>14. CASE UNCHANGED vars
  BY <1>14 DEF vars, OneRunning, RowsCountAttempts, OpenIsCurrent,
     ClaimIsCurrent, table, handler, world
<1>15. CASE PageThrows
  BY <1>15 DEF PageThrows, OneRunning, RowsCountAttempts, OpenIsCurrent,
     ClaimIsCurrent, table, handler
<1>16. QED
  BY <1>1, <1>2, <1>3, <1>4, <1>5, <1>6, <1>7, <1>8, <1>9, <1>10, <1>11,
     <1>12, <1>13, <1>14, <1>15, NextCases

\* The books are consistent in every reachable state.
LEMMA BooksAlways == Spec => []Books
  BY BooksInit, BooksStep, PTL DEF Spec

\* The variables keep their types.
THEOREM TypeCorrect == Spec => []TypeOK
  BY BooksAlways, PTL DEF Books

\* No key ever has two open usages: no double charge and no second hold, for
\* any number of concurrent requests, retries, crashes and stalls.
THEOREM NeverTwoOpenUsages == Spec => []OneOpenUsage
<1>1. Books => OneOpenUsage
  BY DEF Books, OpenIsCurrent, OneOpenUsage
<1>2. QED
  BY <1>1, BooksAlways, PTL

\* An open usage is always that of the current attempt of an existing row, so
\* that whoever takes up the request again finds it.
THEOREM HeldCreditsAreFound == Spec => []OpenUsageIsFound
<1>1. ASSUME Books PROVE OpenUsageIsFound
  <2> SUFFICES ASSUME NEW k \in Keys, NEW n \in Attempts, usage[k][n] \in Open
               PROVE  row[k] # "none" /\ UsageOf(k) = n
    BY DEF OpenUsageIsFound
  <2>1. n = attempt[k] /\ n # 0
    BY <1>1 DEF Books, OpenIsCurrent, Attempts
  <2>2. row[k] # "none"
    BY <1>1, <2>1 DEF Books, RowsCountAttempts
  <2> QED
    BY <1>1, <2>1, <2>2 DEF Books, RowsCountAttempts, UsageOf
<1>2. QED
  BY <1>1, BooksAlways, PTL

----------------------------------------------------------------------------
(* What is closed or stored stays so *)

\* No transaction changes a committed or released usage.
LEMMA ClosedStep ==
    ASSUME Books, [Next]_vars, NEW k \in Keys, NEW n \in Attempts,
           usage[k][n] \in {"committed", "released"}
    PROVE  usage'[k][n] = usage[k][n]
<1> USE DEF Books, TypeOK
<1>1. CASE usage' = usage
  BY <1>1
<1>2. ASSUME NEW h \in Handlers, Reserve(h)
      PROVE  usage'[k][n] = usage[k][n]
  <2> DEFINE j == req[h]
  <2>1. CASE usage[j][attempt[j]] = "none"
    <3>1. \/ usage' = usage
          \/ usage' = [usage EXCEPT ![j] =
                          [usage[j] EXCEPT ![attempt[j]] = "reserved"]]
      BY <1>2, <2>1 DEF Reserve
    <3>2. QED
      BY <2>1, <3>1
  <2>2. CASE usage[j][attempt[j]] # "none"
    BY <1>2, <2>2 DEF Reserve
  <2>3. QED
    BY <2>1, <2>2
<1>3. ASSUME NEW j \in Keys, NEW m \in 0..MaxAttempts,
             NEW status \in {"committed", "released"}, Settle(j, m, status)
      PROVE  usage'[k][n] = usage[k][n]
  <2>1. TypeOK
    OBVIOUS
  <2>2. \A i \in Keys, l \in Attempts :
           usage'[i][l] = usage[i][l] \/ usage[i][l] = "reserved"
    <3> HIDE DEF Books, TypeOK
    <3>1. QED
      BY <1>3, <2>1, SettleShape
  <2>3. QED
    BY <2>2
<1>4. \A j \in Keys : UsageOf(j) \in 0..MaxAttempts
  BY DEF UsageOf
<1>5. QED
  BY <1>1, <1>2, <1>3, <1>4, NextCases
  DEF Reply, Claim, AccountInactive, UseAgain, Attach, Try, Commit, Confirm,
      Release, Fail, NewKey, GatewayDecides, Reconcile, CutReconcile,
      ReadHistory, Accept, LeaseExpires, Crash, CheckHealth, PageThrows, vars

\* Late commits and releases never touch a closed usage.
THEOREM ClosedUsagesAreFinal == Spec => ClosedUsageIsFinal
<1>1. Books /\ [Next]_vars =>
        [\A k \in Keys, n \in Attempts :
            usage[k][n] \in {"committed", "released"} =>
                usage'[k][n] = usage[k][n]]_vars
  BY ClosedStep
<1>2. QED
  BY <1>1, BooksAlways, PTL DEF Spec, ClosedUsageIsFinal

\* No transaction takes a stored success back.
LEMMA StoredStep ==
    ASSUME Books, [Next]_vars, NEW k \in Keys, row[k] = "accepted"
    PROVE  row'[k] = "accepted"
<1> USE DEF Books, TypeOK
<1>1. CASE row' = row
  BY <1>1
<1>2. ASSUME NEW h \in Handlers, NEW j \in Keys, Claim(h, j)
      PROVE  row'[k] = "accepted"
  BY <1>2 DEF Claim, CanClaim
<1>3. ASSUME NEW h \in Handlers, Confirm(h)
      PROVE  row'[k] = "accepted"
  <2>1. row' = row \/ row' = [row EXCEPT ![req[h]] = "accepted"]
    BY <1>3 DEF Confirm
  <2>2. QED
    BY <2>1
<1>4. ASSUME NEW h \in Handlers, Fail(h)
      PROVE  row'[k] = "accepted"
  <2>1. \/ row' = row
        \/ row[req[h]] = "processing" /\ row' = [row EXCEPT ![req[h]] = "failed"]
    BY <1>4 DEF Fail, FailRow
  <2>2. QED
    BY <2>1
<1>5. ASSUME NEW j \in Keys, Reconcile(j) \/ ReadHistory(j)
      PROVE  row'[k] = "accepted"
  <2>1. row' = row \/ row' = [row EXCEPT ![j] = "accepted"]
    BY <1>5 DEF Reconcile, ReadHistory, Accept, table
  <2>2. QED
    BY <2>1
<1>6. ASSUME NEW h \in Handlers,
             \/ AccountInactive(h) \/ UseAgain(h) \/ Reserve(h) \/ Attach(h)
             \/ Try(h) \/ Commit(h) \/ Release(h) \/ NewKey(h)
      PROVE  row' = row
  BY <1>6 DEF AccountInactive, UseAgain, Reserve, Attach, Try, Commit, Release,
     NewKey, table
<1>7. ASSUME NEW j \in Keys,
             GatewayDecides(j) \/ LeaseExpires(j) \/ CutReconcile(j)
      PROVE  row' = row
  BY <1>7 DEF GatewayDecides, LeaseExpires, CutReconcile, table
<1>8. CASE Crash \/ CheckHealth \/ PageThrows \/ UNCHANGED vars
  BY <1>8 DEF Crash, CheckHealth, PageThrows, vars, table
<1>9. ASSUME NEW h \in Handlers, NEW j \in Keys, NEW response \in Responses,
             Reply(h, j, response)
      PROVE  row' = row
  BY <1>9 DEF Reply, table
<1>10. QED
  BY <1>1, <1>2, <1>3, <1>4, <1>5, <1>6, <1>7, <1>8, <1>9, NextCases

\* A stored success is what every repetition of the request gets.
THEOREM StoredSuccessesAreFinal == Spec => StoredSuccessIsFinal
<1>1. Books /\ [Next]_vars =>
        [\A k \in Keys : row[k] = "accepted" => row'[k] = "accepted"]_vars
  BY StoredStep
<1>2. QED
  BY <1>1, BooksAlways, PTL DEF Spec, StoredSuccessIsFinal

----------------------------------------------------------------------------
(* Every message is paid for, while leases outlive handlers, unless a send() *)
(* gave it up although the gateway knew it                                   *)

CurrentOpen(k) == attempt[k] # 0 /\ usage[k][attempt[k]] \in Open

\* A key has one live handler at most: the lease keeps others out.
Exclusive ==
    \A h, i \in Handlers :
        pc[h] # "idle" /\ pc[i] # "idle" /\ req[h] = req[i] => h = i

Leased ==
    \A h \in Handlers : pc[h] # "idle" =>
        \/ row[req[h]] = "accepted"
        \/ row[req[h]] = "processing" /\ lease[req[h]]

KnownIsOpen ==
    \A k \in Keys : gateway[k] # "unknown" => k \in forgotten \/ CurrentOpen(k)

ChargedWasSent ==
    \A k \in Keys, n \in Attempts :
        usage[k][n] = "committed" => gateway[k] = "accepted"

StoredIsCharged ==
    \A k \in Keys : row[k] = "accepted" =>
        /\ gateway[k] = "accepted"
        /\ \/ k \in forgotten
           \/ attempt[k] # 0 /\ usage[k][attempt[k]] = "committed"

\* What a handler knows of its key at each place.
HandlersHold ==
    \A h \in Handlers :
        /\ pc[h] = "check" /\ billed[req[h]] # 0 => CurrentOpen(req[h])
        /\ pc[h] \in {"attach", "send", "commit", "confirm"} =>
              hold[h] = attempt[req[h]] /\ CurrentOpen(req[h])
        /\ pc[h] \in {"commit", "confirm"} => gateway[req[h]] = "accepted"
        /\ pc[h] = "confirm" => usage[req[h]][attempt[req[h]]] = "committed"
        /\ pc[h] \in {"attach", "release"} =>
              gateway[req[h]] = "unknown" \/ req[h] \in forgotten

Paid ==
    /\ Exclusive
    /\ Leased
    /\ KnownIsOpen
    /\ ChargedWasSent
    /\ StoredIsCharged
    /\ HandlersHold

\* Before the first request nothing is sent and nothing is owed.
LEMMA PaidInit == Init => Paid
  BY DEF Init, Paid, Exclusive, Leased, KnownIsOpen, ChargedWasSent,
     StoredIsCharged, HandlersHold

\* The usage of a key with an open current usage is that usage.
LEMMA OpenIsUsed ==
    ASSUME Books, NEW k \in Keys, CurrentOpen(k)
    PROVE  UsageOf(k) = attempt[k] /\ HasOpenUsage(k) /\ attempt[k] \in Attempts
  BY SmsConstants DEF Books, TypeOK, RowsCountAttempts, UsageOf, HasOpenUsage,
     CurrentOpen, Attempts

\* Steps before the gateway call.
LEMMA PaidBefore ==
    ASSUME Books, Paid, NEW h \in Handlers, NEW k \in Keys,
           \/ \E response \in Responses : Reply(h, k, response)
           \/ Claim(h, k) \/ AccountInactive(h) \/ UseAgain(h)
           \/ Reserve(h) \/ Attach(h)
    PROVE  Paid'
<1> USE DEF Books, TypeOK, Paid, world, outside, history
<1>1. ASSUME NEW response \in Responses, Reply(h, k, response)
      PROVE  Paid'
  <2>1. /\ pc[h] = "idle" /\ req' = [req EXCEPT ![h] = k]
        /\ UNCHANGED <<row, attempt, billed, lease, usage, pc, hold, gateway>>
        /\ forgotten' = forgotten
    BY <1>1 DEF Reply, table
  <2>2. QED
    BY <2>1 DEF Exclusive, Leased, KnownIsOpen, ChargedWasSent,
       StoredIsCharged, HandlersHold, CurrentOpen
<1>2. CASE Claim(h, k)
  <2>1. /\ pc[h] = "idle"
        /\ CanClaim(k)
        /\ row' = [row EXCEPT ![k] = "processing"]
        /\ lease' = [lease EXCEPT ![k] = TRUE]
        /\ pc' = [pc EXCEPT ![h] = "check"]
        /\ req' = [req EXCEPT ![h] = k]
        /\ UNCHANGED <<usage, hold, gateway, forgotten>>
    BY <1>2 DEF Claim, Throw, Goto
  <2>2. \A i \in Handlers : pc[i] # "idle" => req[i] # k
    BY <2>1 DEF CanClaim, Leased
  <2>3. /\ \A j \in Keys : j # k => attempt'[j] = attempt[j] /\ billed'[j] = billed[j]
        /\ \/ HasOpenUsage(k) /\ attempt' = attempt /\ billed'[k] = attempt[k]
           \/ ~HasOpenUsage(k) /\ billed'[k] = 0
    BY <1>2 DEF Claim, HasOpenUsage, UsageOf, RowsCountAttempts
  <2>4. gateway[k] # "unknown" /\ k \notin forgotten =>
           HasOpenUsage(k) /\ CurrentOpen(k)
    BY OpenIsUsed DEF KnownIsOpen
  <2>5. HasOpenUsage(k) => CurrentOpen(k)
    BY DEF HasOpenUsage, UsageOf, RowsCountAttempts, CurrentOpen
  <2>6. KnownIsOpen' /\ ChargedWasSent'
    BY <2>1, <2>3, <2>4 DEF KnownIsOpen, CurrentOpen, ChargedWasSent
  <2>7. Exclusive' /\ Leased'
    BY <2>1, <2>2 DEF Exclusive, Leased
  <2>8. StoredIsCharged'
    BY <2>1, <2>3 DEF StoredIsCharged
  <2>9. HandlersHold'
    BY <2>1, <2>2, <2>3, <2>5 DEF HandlersHold, CurrentOpen
  <2>10. QED
    BY <2>6, <2>7, <2>8, <2>9
<1>3. CASE AccountInactive(h) \/ UseAgain(h) \/ Attach(h)
  <2>1. /\ pc[h] # "idle"
        /\ UNCHANGED <<row, attempt, lease, usage, req, gateway, forgotten>>
    BY <1>3 DEF AccountInactive, UseAgain, Attach, table
  <2>2. CASE AccountInactive(h)
    <3>1. pc' = [pc EXCEPT ![h] = "fail"] /\ UNCHANGED <<billed, hold>>
      BY <2>2 DEF AccountInactive, Throw, Goto, table
    <3>2. QED
      BY <2>1, <3>1 DEF Exclusive, Leased, KnownIsOpen, ChargedWasSent,
         StoredIsCharged, HandlersHold, CurrentOpen
  <2>3. CASE UseAgain(h)
    <3>1. /\ pc[h] = "check" /\ billed[req[h]] # 0
          /\ pc' = [pc EXCEPT ![h] = "send"]
          /\ hold' = [hold EXCEPT ![h] = billed[req[h]]]
          /\ billed' = billed
      BY <2>3 DEF UseAgain, Goto, table
    <3>2. billed[req[h]] = attempt[req[h]] /\ CurrentOpen(req[h])
      BY <3>1 DEF HandlersHold, RowsCountAttempts
    <3>3. Exclusive' /\ Leased' /\ KnownIsOpen' /\ ChargedWasSent' /\ StoredIsCharged'
      BY <2>1, <3>1 DEF Exclusive, Leased, KnownIsOpen, ChargedWasSent,
         StoredIsCharged, CurrentOpen
    <3>4. HandlersHold'
      BY <2>1, <3>1, <3>2 DEF HandlersHold, CurrentOpen
    <3>5. QED
      BY <3>3, <3>4
  <2>4. CASE Attach(h)
    <3>1. /\ pc[h] = "attach"
          /\ \E place \in {"send", "release"} : pc' = [pc EXCEPT ![h] = place]
          /\ billed' \in {billed, [billed EXCEPT ![req[h]] = hold[h]]}
          /\ hold' = hold
      BY <2>4 DEF Attach, Goto, Throw
    <3>2. \A i \in Handlers : i # h => pc[i] # "check"
      BY <3>1 DEF OneRunning, Running
    <3>3. Exclusive' /\ Leased' /\ KnownIsOpen' /\ ChargedWasSent' /\ StoredIsCharged'
      BY <2>1, <3>1 DEF Exclusive, Leased, KnownIsOpen, ChargedWasSent,
         StoredIsCharged, CurrentOpen
    <3>4. HandlersHold'
      BY <2>1, <3>1, <3>2 DEF HandlersHold, CurrentOpen
    <3>5. QED
      BY <3>3, <3>4
  <2>5. QED
    BY <1>3, <2>2, <2>3, <2>4
<1>4. CASE Reserve(h)
  <2> DEFINE j == req[h]
  <2>1. pc[h] = "check" /\ billed[j] = 0 /\ j \in Keys
    BY <1>4 DEF Reserve
  <2>2. attempt[j] \in Attempts /\ attempt[j] # 0
    BY <2>1, SmsConstants DEF ClaimIsCurrent, RowsCountAttempts, Attempts
  <2>3. usage[j][attempt[j]] = "none"
    BY <2>1 DEF ClaimIsCurrent
  <2>4. UNCHANGED <<row, attempt, billed, lease, req, gateway, forgotten>>
    BY <1>4 DEF Reserve, table
  <2>5. gateway[j] = "unknown" \/ j \in forgotten
    BY <2>1, <2>2, <2>3 DEF KnownIsOpen, CurrentOpen, Open
  <2>6. \A i \in Handlers : i # h /\ pc[i] # "idle" => req[i] # j
    BY <2>1 DEF Exclusive
  <2>7. CASE /\ pc' = [pc EXCEPT ![h] = "attach"]
             /\ hold' = [hold EXCEPT ![h] = attempt[j]]
             /\ usage' = [usage EXCEPT ![j] =
                             [usage[j] EXCEPT ![attempt[j]] = "reserved"]]
    <3>1. Exclusive' /\ Leased'
      BY <2>1, <2>4, <2>7 DEF Exclusive, Leased
    <3>2. /\ usage'[j][attempt[j]] = "reserved"
          /\ \A i \in Keys : i # j => usage'[i] = usage[i]
          /\ \A n \in Attempts : n # attempt[j] => usage'[j][n] = usage[j][n]
      BY <2>1, <2>2, <2>7
    <3>3. \A i \in Keys : CurrentOpen(i) => CurrentOpen(i)'
      BY <2>3, <2>4, <3>2 DEF CurrentOpen, Open
    <3>4. CurrentOpen(j)'
      BY <2>2, <2>4, <3>2 DEF CurrentOpen, Open
    <3>5. KnownIsOpen'
      BY <2>4, <3>3 DEF KnownIsOpen
    <3>6. ChargedWasSent'
      <4>1. ASSUME NEW i \in Keys, NEW n \in Attempts, usage'[i][n] = "committed"
            PROVE  usage[i][n] = "committed"
        BY <2>2, <3>2, <4>1
      <4>2. QED
        BY <2>4, <4>1 DEF ChargedWasSent
    <3>7. StoredIsCharged'
      BY <2>2, <2>3, <2>4, <3>2 DEF StoredIsCharged
    <3>8. HandlersHold'
      BY <2>1, <2>4, <2>5, <2>6, <2>7, <3>2, <3>3, <3>4 DEF HandlersHold
    <3>9. QED
      BY <3>1, <3>5, <3>6, <3>7, <3>8
  <2>8. CASE pc' = [pc EXCEPT ![h] = "fail"] /\ UNCHANGED <<hold, usage>>
    BY <2>1, <2>4, <2>8 DEF Exclusive, Leased, KnownIsOpen, ChargedWasSent,
       StoredIsCharged, HandlersHold, CurrentOpen
  <2>9. QED
    BY <1>4, <2>2, <2>3, <2>7, <2>8 DEF Reserve, Throw, Goto
<1>5. QED
  BY <1>1, <1>2, <1>3, <1>4

\* One call of send(): what it leaves undecided is covered by the reservation.
LEMMA PaidTry ==
    ASSUME Books, Paid, NEW h \in Handlers, Try(h)
    PROVE  Paid'
<1> USE DEF Books, TypeOK, Paid, world, outside, history
<1> DEFINE k == req[h]
<1>1. /\ Yielded /\ pc[h] = "send" /\ k \in Keys
      /\ UNCHANGED <<row, attempt, billed, lease, usage, req, hold>>
  BY DEF Try, table
<1>2. PICK e \in CallEffects(gateway[k]) :
        /\ gateway' = [gateway EXCEPT ![k] = e[1]]
        /\ \/ pc' = pc
           \/ e[2] = "ok" /\ pc' = [pc EXCEPT ![h] = "commit"]
           \/ e[2] = "lost" /\ pc' = [pc EXCEPT ![h] = "fail"]
           \/ /\ pc' = [pc EXCEPT ![h] = "release"]
              /\ e[1] # "unknown" => k \in forgotten'
        /\ forgotten' \in {forgotten, forgotten \cup {k}}
  BY TryShape
<1>3. /\ e[2] = "ok" => e[1] = "accepted"
      /\ gateway[k] = "accepted" => e[1] = "accepted"
  BY <1>1, CallEffectsShape DEF Knowledge
<1>4. /\ \A i \in Handlers : i # h => pc'[i] = pc[i]
      /\ pc'[h] \in {"send", "commit", "fail", "release"}
      /\ pc'[h] = "commit" => e[1] = "accepted"
      /\ pc'[h] = "release" => e[1] = "unknown" \/ k \in forgotten'
      /\ forgotten \subseteq forgotten'
  BY <1>1, <1>2, <1>3
<1>5. /\ \A j \in Keys : j # k => gateway'[j] = gateway[j]
      /\ gateway'[k] = e[1]
  BY <1>1, <1>2
<1>6. hold[h] = attempt[k] /\ CurrentOpen(k)
  BY <1>1 DEF HandlersHold
<1>7. \A i \in Handlers : i # h /\ pc[i] # "idle" => req[i] # k
  BY <1>1 DEF Exclusive
<1>8. Exclusive' /\ Leased'
  <2>1. \A i \in Handlers : pc'[i] # "idle" => pc[i] # "idle"
    BY <1>1, <1>4
  <2>2. UNCHANGED <<row, lease, req>>
    BY <1>1
  <2>3. QED
    BY <2>1, <2>2 DEF Exclusive, Leased
<1>9. KnownIsOpen' /\ StoredIsCharged'
  BY <1>1, <1>3, <1>4, <1>5, <1>6 DEF KnownIsOpen, StoredIsCharged, CurrentOpen
<1>10. ChargedWasSent'
  BY <1>1, <1>3, <1>5 DEF ChargedWasSent
<1>11. HandlersHold'
  <2>1. ASSUME NEW i \in Handlers, i # h, pc[i] # "idle"
        PROVE  gateway'[req[i]] = gateway[req[i]]
    BY <1>5, <1>7, <2>1
  <2>2. ASSUME NEW i \in Handlers, i # h, pc[i] # "idle"
        PROVE  /\ pc'[i] = pc[i] /\ req'[i] = req[i] /\ hold'[i] = hold[i]
               /\ gateway'[req[i]] = gateway[req[i]]
    BY <1>1, <1>4, <2>1, <2>2
  <2>3. ASSUME NEW i \in Handlers, i # h
        PROVE  /\ pc'[i] = "check" /\ billed'[req'[i]] # 0 => CurrentOpen(req[i])
               /\ pc'[i] \in {"attach", "send", "commit", "confirm"} =>
                     hold'[i] = attempt[req'[i]] /\ CurrentOpen(req[i])
               /\ pc'[i] \in {"commit", "confirm"} => gateway'[req'[i]] = "accepted"
               /\ pc'[i] = "confirm" => usage[req'[i]][attempt[req'[i]]] = "committed"
               /\ pc'[i] \in {"attach", "release"} =>
                     gateway'[req'[i]] = "unknown" \/ req'[i] \in forgotten'
    BY <1>1, <1>4, <2>2, <2>3 DEF HandlersHold
  <2>4. QED
    BY <1>1, <1>4, <1>5, <1>6, <2>3 DEF HandlersHold, CurrentOpen
<1>12. QED
  BY <1>8, <1>9, <1>10, <1>11

\* Steps after the gateway call.
LEMMA PaidAfter ==
    ASSUME Books, Paid, NEW h \in Handlers,
           Commit(h) \/ Confirm(h) \/ Release(h) \/ Fail(h)
    PROVE  Paid'
<1> USE DEF Books, TypeOK, Paid, world, outside, history
<1> DEFINE k == req[h]
<1>1. k \in Keys /\ pc[h] # "idle"
  BY DEF Commit, Confirm, Release, Fail
<1>2. \A i \in Handlers : i # h /\ pc[i] # "idle" => req[i] # k
  BY <1>1 DEF Exclusive
<1>3. CASE Commit(h)
  <2>1. /\ pc[h] = "commit"
        /\ UNCHANGED <<row, attempt, billed, lease, req, hold, gateway, forgotten>>
        /\ \/ Settle(k, hold[h], "committed") /\ pc' = [pc EXCEPT ![h] = "confirm"]
           \/ Settle(k, hold[h], "committed") /\ pc' = [pc EXCEPT ![h] = "fail"]
           \/ usage' = usage /\ pc' = [pc EXCEPT ![h] = "fail"]
    BY <1>3 DEF Commit, Throw, Goto, table
  <2>2. /\ hold[h] = attempt[k] /\ attempt[k] # 0 /\ attempt[k] \in Attempts
        /\ usage[k][attempt[k]] \in Open /\ gateway[k] = "accepted"
    BY <2>1, <1>1, SmsConstants DEF HandlersHold, CurrentOpen, Attempts
  <2>3. CASE usage' = usage
    <3>1. \/ pc' = [pc EXCEPT ![h] = "fail"]
          \/ pc' = [pc EXCEPT ![h] = "confirm"] /\ Settle(k, hold[h], "committed")
      BY <2>1
    <3>2. pc' = [pc EXCEPT ![h] = "confirm"] => usage[k][attempt[k]] = "committed"
      <4>1. pc' = [pc EXCEPT ![h] = "confirm"] => Settle(k, hold[h], "committed")
        BY <2>1, <3>1
      <4>2. Settle(k, hold[h], "committed") /\ usage[k][attempt[k]] = "reserved"
              => usage'[k][attempt[k]] = "committed"
        BY <1>1, <2>2, SettleShape
      <4>3. QED
        BY <2>2, <2>3, <4>1, <4>2 DEF Open
    <3>3. QED
      <4>1. /\ \A i \in Handlers : i # h => pc'[i] = pc[i]
            /\ pc'[h] \in {"confirm", "fail"}
            /\ pc'[h] = "confirm" => usage[k][attempt[k]] = "committed"
        BY <3>1, <3>2
      <4>2. /\ pc[h] = "commit"
            /\ UNCHANGED <<row, attempt, billed, lease, req, hold, gateway>>
            /\ forgotten' = forgotten
        BY <2>1
      <4>3. Exclusive' /\ Leased'
        BY <1>1, <4>1, <4>2 DEF Exclusive, Leased
      <4>4. KnownIsOpen' /\ ChargedWasSent' /\ StoredIsCharged'
        BY <2>3, <4>2 DEF KnownIsOpen, ChargedWasSent, StoredIsCharged,
           CurrentOpen
      <4>5. HandlersHold'
        BY <2>2, <2>3, <4>1, <4>2 DEF HandlersHold, CurrentOpen
      <4>6. QED
        BY <4>3, <4>4, <4>5
  <2>4. CASE Settle(k, hold[h], "committed")
    <3>1. /\ \A j \in Keys, m \in Attempts :
                \/ usage'[j][m] = usage[j][m]
                \/ j = k /\ m = attempt[k] /\ usage'[j][m] = "committed"
          /\ usage'[k][attempt[k]] = "committed"
      BY <1>1, <2>2, <2>4, SettleShape DEF Open
    <3>2. \E place \in {"confirm", "fail"} : pc' = [pc EXCEPT ![h] = place]
      BY <2>1
    <3>3. \A j \in Keys : CurrentOpen(j) => CurrentOpen(j)'
      BY <2>1, <2>2, <3>1, SmsConstants DEF CurrentOpen, Open, Attempts
    <3>4. Exclusive' /\ Leased'
      BY <1>1, <2>1, <3>2 DEF Exclusive, Leased
    <3>5. KnownIsOpen' /\ ChargedWasSent'
      <4>1. KnownIsOpen'
        BY <2>1, <3>3 DEF KnownIsOpen
      <4>2. ASSUME NEW i \in Keys, NEW n \in Attempts, usage'[i][n] = "committed"
            PROVE  gateway[i] = "accepted"
        <5>1. usage[i][n] = "committed" \/ i = k
          BY <3>1, <4>2
        <5>2. QED
          BY <2>2, <5>1 DEF ChargedWasSent
      <4>3. QED
        BY <2>1, <4>1, <4>2 DEF ChargedWasSent
    <3>6. StoredIsCharged'
      BY <2>1, <2>2, <3>1, SmsConstants DEF StoredIsCharged, Attempts
    <3>7. HandlersHold'
      <4>1. ASSUME NEW i \in Handlers, i # h
            PROVE  /\ pc'[i] = pc[i]
                   /\ pc[i] # "idle" =>
                        usage'[req[i]][attempt[req[i]]] = usage[req[i]][attempt[req[i]]]
        <5>1. pc'[i] = pc[i]
          BY <3>2, <4>1
        <5>2. ASSUME pc[i] # "idle"
              PROVE  usage'[req[i]] = usage[req[i]]
          BY <1>1, <1>2, <2>4, <4>1, <5>2 DEF Settle
        <5>3. QED
          BY <5>1, <5>2
      <4>2. QED
        <5>1. pc'[h] \in {"confirm", "fail"} /\ CurrentOpen(k)'
          BY <1>1, <2>1, <2>2, <3>2, <3>3 DEF CurrentOpen
        <5>2. ASSUME NEW i \in Handlers, i # h, pc[i] # "idle"
              PROVE  CurrentOpen(req[i]) => CurrentOpen(req[i])'
          <6>1. req' = req /\ req[i] \in Keys
            BY <2>1
          <6>2. QED
            BY <3>3, <6>1 DEF CurrentOpen
        <5>3. UNCHANGED <<attempt, billed, req, hold, gateway, forgotten>>
          BY <2>1
        <5>4. ASSUME NEW i \in Handlers, i # h
              PROVE  /\ pc'[i] = "check" /\ billed'[req'[i]] # 0 => CurrentOpen(req[i])'
                     /\ pc'[i] \in {"attach", "send", "commit", "confirm"} =>
                           hold'[i] = attempt'[req'[i]] /\ CurrentOpen(req[i])'
                     /\ pc'[i] \in {"commit", "confirm"} => gateway'[req'[i]] = "accepted"
                     /\ pc'[i] = "confirm" =>
                           usage'[req'[i]][attempt'[req'[i]]] = "committed"
                     /\ pc'[i] \in {"attach", "release"} =>
                           gateway'[req'[i]] = "unknown" \/ req'[i] \in forgotten'
          BY <4>1, <5>2, <5>3, <5>4 DEF HandlersHold
        <5>5. QED
          BY <2>2, <3>1, <5>1, <5>3, <5>4 DEF HandlersHold, CurrentOpen
    <3>8. QED
      BY <3>4, <3>5, <3>6, <3>7
  <2>5. QED
    BY <2>1, <2>3, <2>4
<1>4. CASE Confirm(h)
  <2>1. /\ pc[h] = "confirm"
        /\ UNCHANGED <<attempt, billed, usage, req, gateway, forgotten>>
        /\ \/ /\ pc' = [pc EXCEPT ![h] = "idle"]
              /\ row' = [row EXCEPT ![k] = "accepted"]
              /\ lease' = [lease EXCEPT ![k] = FALSE]
           \/ /\ pc' = [pc EXCEPT ![h] = "fail"]
              /\ UNCHANGED <<row, lease>>
        /\ \A i \in Handlers : i # h => hold'[i] = hold[i]
    BY <1>4 DEF Confirm, Return, Throw, Goto
  <2>2. /\ attempt[k] # 0 /\ usage[k][attempt[k]] = "committed"
        /\ gateway[k] = "accepted"
    BY <1>1, <2>1 DEF HandlersHold, CurrentOpen
  <2>3. Exclusive' /\ Leased'
    <3>1. CASE /\ pc' = [pc EXCEPT ![h] = "idle"]
               /\ row' = [row EXCEPT ![k] = "accepted"]
               /\ lease' = [lease EXCEPT ![k] = FALSE]
      BY <1>1, <1>2, <2>1, <3>1 DEF Exclusive, Leased
    <3>2. CASE pc' = [pc EXCEPT ![h] = "fail"] /\ UNCHANGED <<row, lease>>
      BY <1>1, <2>1, <3>2 DEF Exclusive, Leased
    <3>3. QED
      BY <2>1, <3>1, <3>2
  <2>4. KnownIsOpen' /\ ChargedWasSent' /\ StoredIsCharged'
    BY <1>1, <2>1, <2>2 DEF KnownIsOpen, ChargedWasSent, StoredIsCharged,
       CurrentOpen
  <2>5. HandlersHold'
    BY <2>1 DEF HandlersHold, CurrentOpen
  <2>6. QED
    BY <2>3, <2>4, <2>5
<1>5. CASE Release(h)
  <2>1. /\ pc[h] = "release"
        /\ UNCHANGED <<row, attempt, billed, lease, req, hold, gateway, forgotten>>
        /\ pc' = [pc EXCEPT ![h] = "fail"]
        /\ Settle(k, hold[h], "released") \/ usage' = usage
    BY <1>5 DEF Release, Goto, table
  <2>2. gateway[k] = "unknown" \/ k \in forgotten
    BY <1>1, <2>1 DEF HandlersHold
  <2>3. /\ \A j \in Keys : j # k => usage'[j] = usage[j]
        /\ \A n \in Attempts : \/ usage'[k][n] = usage[k][n]
                               \/ /\ usage[k][n] = "reserved"
                                  /\ usage'[k][n] = "released"
    <3>1. CASE Settle(k, hold[h], "released")
      <4>1. \A n \in Attempts : \/ usage'[k][n] = usage[k][n]
                                \/ /\ usage[k][n] = "reserved"
                                   /\ usage'[k][n] = "released"
        BY <1>1, <3>1, SettleShape
      <4>2. \A j \in Keys : j # k => usage'[j] = usage[j]
        BY <1>1, <3>1 DEF Settle
      <4>3. QED
        BY <4>1, <4>2
    <3>2. CASE usage' = usage
      BY <3>2
    <3>3. QED
      BY <2>1, <3>1, <3>2
  <2>4. Exclusive' /\ Leased'
    BY <1>1, <2>1 DEF Exclusive, Leased
  <2>5. KnownIsOpen'
    BY <2>1, <2>2, <2>3 DEF KnownIsOpen, CurrentOpen
  <2>6. ChargedWasSent'
    <3>1. ASSUME NEW j \in Keys, NEW n \in Attempts, usage'[j][n] = "committed"
          PROVE  usage[j][n] = "committed"
      BY <1>1, <2>3, <3>1
    <3>2. QED
      BY <2>1, <3>1 DEF ChargedWasSent
  <2>7. StoredIsCharged'
    <3>1. \A j \in Keys : attempt[j] # 0 => attempt[j] \in Attempts
      BY SmsConstants DEF Attempts
    <3>2. ASSUME NEW j \in Keys, row[j] = "accepted", j \notin forgotten
          PROVE  attempt[j] # 0 /\ usage'[j][attempt[j]] = "committed"
      <4>1. attempt[j] # 0 /\ usage[j][attempt[j]] = "committed"
        BY <3>2 DEF StoredIsCharged
      <4>2. QED
        BY <2>3, <3>1, <4>1
    <3>3. QED
      BY <2>1, <3>2 DEF StoredIsCharged
  <2>8. HandlersHold'
    BY <1>1, <1>2, <2>1, <2>3 DEF HandlersHold, CurrentOpen
  <2>9. QED
    BY <2>4, <2>5, <2>6, <2>7, <2>8
<1>6. CASE Fail(h)
  <2>1. /\ pc' = [pc EXCEPT ![h] = "idle"]
        /\ hold' = [hold EXCEPT ![h] = 0]
        /\ UNCHANGED <<attempt, billed, usage, req, gateway, forgotten>>
        /\ \/ /\ row' = [row EXCEPT ![k] = "failed"]
              /\ lease' = [lease EXCEPT ![k] = FALSE]
           \/ UNCHANGED <<row, lease>>
    BY <1>6 DEF Fail, FailRow, Return
  <2>2. Exclusive' /\ Leased'
    BY <1>1, <1>2, <2>1 DEF Exclusive, Leased
  <2>3. KnownIsOpen' /\ ChargedWasSent' /\ StoredIsCharged'
    BY <1>1, <2>1 DEF KnownIsOpen, ChargedWasSent, StoredIsCharged, CurrentOpen
  <2>4. HandlersHold'
    BY <2>1 DEF HandlersHold, CurrentOpen
  <2>5. QED
    BY <2>2, <2>3, <2>4
<1>7. QED
  BY <1>3, <1>4, <1>5, <1>6

\* Steps of the gateway, the clock, the reconciliation and the client.
LEMMA PaidAround ==
    ASSUME Books, Paid, MaxStalls = 0,
           \/ \E k \in Keys : \/ GatewayDecides(k) \/ LeaseExpires(k)
                             \/ Reconcile(k) \/ CutReconcile(k)
                             \/ ReadHistory(k)
           \/ \E h \in Handlers : NewKey(h)
           \/ Crash \/ CheckHealth \/ PageThrows \/ UNCHANGED vars
    PROVE  Paid'
<1> USE DEF Books, TypeOK, Paid, world, outside, history
<1>1. ASSUME NEW k \in Keys, GatewayDecides(k)
      PROVE  Paid'
  <2>1. /\ gateway[k] = "working"
        /\ gateway'[k] \in {"unknown", "accepted"}
        /\ \A j \in Keys : j # k => gateway'[j] = gateway[j]
        /\ UNCHANGED <<row, attempt, billed, lease, usage, pc, req, hold, forgotten>>
    BY <1>1 DEF GatewayDecides, table, handler
  <2>2. KnownIsOpen'
    BY <2>1 DEF KnownIsOpen, CurrentOpen
  <2>3. Exclusive' /\ Leased' /\ ChargedWasSent' /\ StoredIsCharged'
    BY <2>1 DEF Exclusive, Leased, ChargedWasSent, StoredIsCharged
  <2>4. HandlersHold'
    BY <2>1 DEF HandlersHold, CurrentOpen
  <2>5. QED
    BY <2>2, <2>3, <2>4
<1>2. ASSUME NEW k \in Keys, LeaseExpires(k)
      PROVE  Paid'
  <2>1. \A h \in Handlers : pc[h] # "idle" => req[h] # k
    BY <1>2, MaxStalls = 0 DEF LeaseExpires
  <2>2. /\ lease' = [lease EXCEPT ![k] = FALSE]
        /\ UNCHANGED <<row, attempt, billed, usage, pc, req, hold, gateway>>
        /\ forgotten' = forgotten
    BY <1>2 DEF LeaseExpires, handler
  <2>3. Exclusive' /\ Leased'
    BY <2>1, <2>2 DEF Exclusive, Leased
  <2>4. KnownIsOpen' /\ ChargedWasSent' /\ StoredIsCharged' /\ HandlersHold'
    BY <2>2 DEF KnownIsOpen, ChargedWasSent, StoredIsCharged, HandlersHold,
       CurrentOpen
  <2>5. QED
    BY <2>3, <2>4
<1>3. ASSUME NEW k \in Keys, Reconcile(k) \/ CutReconcile(k) \/ ReadHistory(k)
      PROVE  Paid'
  <2>1. /\ gateway[k] = "accepted"
        /\ UNCHANGED <<attempt, billed, pc, req, hold, gateway, forgotten>>
        /\ \/ UNCHANGED <<row, lease, usage>>
           \/ /\ Settle(k, UsageOf(k), "committed")
              /\ \/ UNCHANGED <<row, lease>>
                 \/ /\ row' = [row EXCEPT ![k] = "accepted"]
                    /\ lease' = [lease EXCEPT ![k] = FALSE]
    BY <1>3 DEF Reconcile, CutReconcile, ReadHistory, Accept, Reconcilable,
       table, handler
  <2>2. CASE UNCHANGED <<row, lease, usage>>
    BY <2>1, <2>2 DEF Exclusive, Leased, KnownIsOpen, ChargedWasSent,
       StoredIsCharged, HandlersHold, CurrentOpen
  <2>3. CASE /\ Settle(k, UsageOf(k), "committed")
             /\ \/ UNCHANGED <<row, lease>>
                \/ /\ row' = [row EXCEPT ![k] = "accepted"]
                   /\ lease' = [lease EXCEPT ![k] = FALSE]
    <3>1. UsageOf(k) \in 0..MaxAttempts
      BY DEF UsageOf
    <3>2. /\ \A j \in Keys, m \in Attempts :
                \/ usage'[j][m] = usage[j][m]
                \/ j = k /\ usage[j][m] = "reserved" /\ usage'[j][m] = "committed"
          /\ UsageOf(k) # 0 /\ usage[k][UsageOf(k)] = "reserved" =>
                usage'[k][UsageOf(k)] = "committed"
      BY <2>3, <3>1, SettleShape
    <3>3. \A j \in Keys : attempt[j] # 0 => attempt[j] \in Attempts
      BY SmsConstants DEF Attempts
    <3>4. ASSUME NEW j \in Keys, CurrentOpen(j)
          PROVE  /\ attempt'[j] # 0 /\ usage'[j][attempt'[j]] \in Open
                 /\ usage[j][attempt[j]] = "committed" =>
                       usage'[j][attempt'[j]] = "committed"
      BY <2>1, <3>2, <3>3, <3>4 DEF CurrentOpen, Open
    <3>5. \/ k \in forgotten
          \/ attempt[k] # 0 /\ usage'[k][attempt[k]] = "committed"
      <4>1. CASE k \in forgotten
        BY <4>1
      <4>2. CASE k \notin forgotten
        <5>1. CurrentOpen(k)
          BY <2>1, <4>2 DEF KnownIsOpen
        <5>2. UsageOf(k) = attempt[k]
          BY <5>1, OpenIsUsed
        <5>3. QED
          BY <2>1, <3>2, <3>4, <5>1, <5>2 DEF CurrentOpen, Open
      <4>3. QED
        BY <4>1, <4>2
    <3>6. KnownIsOpen'
      BY <2>1, <3>4 DEF KnownIsOpen, CurrentOpen
    <3>7. ChargedWasSent'
      <4>1. ASSUME NEW j \in Keys, NEW n \in Attempts, usage'[j][n] = "committed"
            PROVE  gateway[j] = "accepted"
        <5>1. usage[j][n] = "committed" \/ j = k
          BY <3>2, <4>1
        <5>2. QED
          BY <2>1, <5>1 DEF ChargedWasSent
      <4>2. QED
        BY <2>1, <4>1 DEF ChargedWasSent
    <3>8. StoredIsCharged'
      <4>1. ASSUME NEW j \in Keys, row'[j] = "accepted"
            PROVE  /\ gateway[j] = "accepted"
                   /\ \/ j \in forgotten
                      \/ attempt[j] # 0 /\ usage'[j][attempt[j]] = "committed"
        <5>1. CASE j = k
          BY <2>1, <3>5, <5>1
        <5>2. CASE j # k
          <6>1. row[j] = "accepted"
            BY <2>3, <4>1, <5>2
          <6>2. QED
            BY <2>1, <3>4, <6>1 DEF StoredIsCharged, CurrentOpen, Open
        <5>3. QED
          BY <5>1, <5>2
      <4>2. QED
        BY <2>1, <4>1 DEF StoredIsCharged
    <3>9. Exclusive' /\ Leased'
      BY <2>1, <2>3 DEF Exclusive, Leased
    <3>10. HandlersHold'
      BY <2>1, <3>4 DEF HandlersHold, CurrentOpen
    <3>11. QED
      BY <3>6, <3>7, <3>8, <3>9, <3>10
  <2>4. QED
    BY <2>1, <2>2, <2>3
<1>4. ASSUME NEW h \in Handlers, NewKey(h)
      PROVE  Paid'
  BY <1>4 DEF NewKey, Exclusive, Leased, KnownIsOpen, ChargedWasSent,
     StoredIsCharged, HandlersHold, CurrentOpen, table, handler
<1>5. CASE Crash
  <2>1. /\ pc' = [h \in Handlers |-> "idle"]
        /\ UNCHANGED <<row, attempt, billed, lease, usage, req, forgotten>>
    BY <1>5 DEF Crash, table
  <2>2. PICK S \in SUBSET {req[h] : h \in {i \in Handlers : pc[i] = "send"}} :
           gateway' = [k \in Keys |-> IF k \in S THEN "accepted" ELSE gateway[k]]
    BY <1>5 DEF Crash
  <2>3. \A k \in Keys : k \in S => CurrentOpen(k)
    BY <2>2 DEF HandlersHold
  <2>4. KnownIsOpen' /\ ChargedWasSent' /\ StoredIsCharged'
    BY <2>1, <2>2, <2>3 DEF KnownIsOpen, ChargedWasSent, StoredIsCharged,
       CurrentOpen
  <2>5. Exclusive' /\ Leased' /\ HandlersHold'
    BY <2>1 DEF Exclusive, Leased, HandlersHold
  <2>6. QED
    BY <2>4, <2>5
<1>6. CASE CheckHealth \/ PageThrows
  BY <1>6 DEF CheckHealth, PageThrows, Exclusive, Leased, KnownIsOpen,
     ChargedWasSent, StoredIsCharged, HandlersHold, CurrentOpen, table, handler
<1>7. CASE UNCHANGED vars
  BY <1>7 DEF vars, Exclusive, Leased, KnownIsOpen, ChargedWasSent,
     StoredIsCharged, HandlersHold, CurrentOpen, table, handler, world
<1>8. QED
  BY <1>1, <1>2, <1>3, <1>4, <1>5, <1>6, <1>7

\* The invariant behind the payment theorems, while leases outlive handlers.
LEMMA PaidAlways ==
    ASSUME MaxStalls = 0
    PROVE  Spec => [](Books /\ Paid)
<1>1. Init => Books /\ Paid
  BY BooksInit, PaidInit
<1>2. Books /\ Paid /\ [Next]_vars => (Books /\ Paid)'
  <2> SUFFICES ASSUME Books, Paid, [Next]_vars PROVE Books' /\ Paid'
    OBVIOUS
  <2>1. Books'
    BY BooksStep
  <2>2. Paid'
    <3>1. ASSUME NEW h \in Handlers, NEW k \in Keys,
                 \/ \E response \in Responses : Reply(h, k, response)
                 \/ Claim(h, k)
          PROVE  Paid'
      BY <3>1, PaidBefore
    <3>2. ASSUME NEW h \in Handlers,
                 AccountInactive(h) \/ UseAgain(h) \/ Reserve(h) \/ Attach(h)
          PROVE  Paid'
      <4>1. req[h] \in Keys
        BY DEF Books, TypeOK
      <4>2. QED
        BY <3>2, <4>1, PaidBefore
    <3>3. ASSUME NEW h \in Handlers, Try(h)
          PROVE  Paid'
      BY <3>3, PaidTry
    <3>4. ASSUME NEW h \in Handlers,
                 Commit(h) \/ Confirm(h) \/ Release(h) \/ Fail(h)
          PROVE  Paid'
      BY <3>4, PaidAfter
    <3>5. ASSUME \/ \E k \in Keys : \/ GatewayDecides(k) \/ LeaseExpires(k)
                                   \/ Reconcile(k) \/ CutReconcile(k)
                                   \/ ReadHistory(k)
                 \/ \E h \in Handlers : NewKey(h)
                 \/ Crash \/ CheckHealth \/ PageThrows \/ UNCHANGED vars
          PROVE  Paid'
      BY <3>5, PaidAround
    <3>6. QED
      BY <3>1, <3>2, <3>3, <3>4, <3>5, NextCases
  <2>3. QED
    BY <2>1, <2>2
<1>3. QED
  BY <1>1, <1>2, PTL DEF Spec

\* A message the gateway has, or may still take, is covered by a reservation
\* or a charge of its key, unless a send() gave it up as a certain failure.
THEOREM CreditsCoverMessages ==
    ASSUME MaxStalls = 0
    PROVE  Spec => []AcceptedIsCovered
<1>1. Books /\ Paid => AcceptedIsCovered
  BY OpenIsUsed DEF Paid, KnownIsOpen, CurrentOpen, AcceptedIsCovered
<1>2. QED
  BY <1>1, PaidAlways, PTL

\* A request with a stored success left the gateway and was paid for, with the
\* same exception.
THEOREM StoredSuccessesArePaid ==
    ASSUME MaxStalls = 0
    PROVE  Spec => []StoredSuccessIsPaid
<1>1. Books /\ Paid => StoredSuccessIsPaid
  <2> SUFFICES ASSUME Books, Paid, NEW k \in Keys, row[k] = "accepted"
               PROVE  /\ gateway[k] = "accepted"
                      /\ \/ k \in forgotten
                         \/ \E n \in Attempts : usage[k][n] = "committed"
    BY DEF StoredSuccessIsPaid
  <2>1. /\ gateway[k] = "accepted"
        /\ \/ k \in forgotten
           \/ attempt[k] # 0 /\ usage[k][attempt[k]] = "committed"
    BY DEF Paid, StoredIsCharged
  <2>2. attempt[k] # 0 /\ usage[k][attempt[k]] = "committed" =>
           attempt[k] \in Attempts
    BY OpenIsUsed DEF CurrentOpen, Open
  <2>3. QED
    BY <2>1, <2>2
<1>2. QED
  BY <1>1, PaidAlways, PTL

----------------------------------------------------------------------------
(* The API implements metered sending *)

\* How one usage may move.
Move(from, to) ==
    \/ from = "none" /\ to = "reserved"
    \/ from = "reserved" /\ to \in {"committed", "released"}

\* Some messages leave, and the books stay as they are.
Leaves ==
    /\ usage' = usage
    /\ forgotten' = forgotten
    /\ \A k \in Keys : gateway[k] = "accepted" => gateway'[k] = "accepted"

\* One message is given up as a failure; it may have left in the same call.
Forgets(k) ==
    /\ usage' = usage
    /\ forgotten' = forgotten \cup {k}
    /\ gateway[k] = "accepted" => gateway'[k] = "accepted"
    /\ \A j \in Keys : j # k => gateway'[j] = gateway[j]

\* One usage moves, and no message does.
Moves(k, n) ==
    /\ gateway' = gateway
    /\ forgotten' = forgotten
    /\ Move(usage[k][n], usage'[k][n])
    /\ \A m \in Attempts : m # n => usage'[k][m] = usage[k][m]
    /\ \A j \in Keys : j # k => usage'[j] = usage[j]

\* A settlement moves one usage or none.
LEMMA SettleMoves ==
    ASSUME TypeOK, NEW k \in Keys, NEW n \in 0..MaxAttempts,
           NEW status \in {"committed", "released"}, Settle(k, n, status),
           gateway' = gateway, forgotten' = forgotten
    PROVE  Leaves \/ \E m \in Attempts : Moves(k, m)
<1>1. CASE n # 0 /\ usage[k][n] = "reserved"
  <2>1. n \in Attempts
    BY <1>1, SmsConstants DEF Attempts
  <2>2. usage' = [usage EXCEPT ![k] = [usage[k] EXCEPT ![n] = status]]
    BY <1>1 DEF Settle
  <2>3. Moves(k, n)
    BY <1>1, <2>1, <2>2 DEF TypeOK, Moves, Move
  <2>4. QED
    BY <2>1, <2>3
<1>2. CASE ~(n # 0 /\ usage[k][n] = "reserved")
  BY <1>2 DEF Settle, Leaves
<1>3. QED
  BY <1>1, <1>2

\* A step lets messages leave, gives one up or moves one usage.
LEMMA MoneyShape ==
    ASSUME Books, Paid, [Next]_vars
    PROVE  \/ Leaves
           \/ \E k \in Keys : Forgets(k) /\ CurrentOpen(k)
           \/ \E k \in Keys, n \in Attempts : Moves(k, n)
<1> USE DEF Books, TypeOK, world, outside, history
<1>1. ASSUME NEW h \in Handlers, NEW k \in Keys,
             \/ \E response \in Responses : Reply(h, k, response)
             \/ Claim(h, k)
      PROVE  Leaves
  BY <1>1 DEF Reply, Claim, Leaves
<1>2. ASSUME NEW h \in Handlers,
             \/ AccountInactive(h) \/ UseAgain(h) \/ Attach(h) \/ Confirm(h)
             \/ Fail(h) \/ NewKey(h)
      PROVE  Leaves
  BY <1>2 DEF AccountInactive, UseAgain, Attach, Confirm, Fail, NewKey, Leaves
<1>3. ASSUME NEW h \in Handlers, Reserve(h)
      PROVE  Leaves \/ \E k \in Keys, n \in Attempts : Moves(k, n)
  <2> DEFINE k == req[h]
  <2>1. pc[h] = "check" /\ billed[k] = 0 /\ k \in Keys
    BY <1>3 DEF Reserve
  <2>2. attempt[k] \in Attempts
    BY <2>1, SmsConstants DEF ClaimIsCurrent, RowsCountAttempts, Attempts
  <2>3. usage[k][attempt[k]] = "none"
    BY <2>1 DEF ClaimIsCurrent
  <2>4. /\ gateway' = gateway /\ forgotten' = forgotten
        /\ \/ usage' = usage
           \/ usage' = [usage EXCEPT ![k] =
                           [usage[k] EXCEPT ![attempt[k]] = "reserved"]]
    BY <1>3, <2>3 DEF Reserve
  <2>5. CASE usage' = usage
    BY <2>4, <2>5 DEF Leaves
  <2>6. CASE usage' = [usage EXCEPT ![k] =
                          [usage[k] EXCEPT ![attempt[k]] = "reserved"]]
    <3>1. Moves(k, attempt[k])
      BY <2>1, <2>2, <2>3, <2>4, <2>6 DEF Moves, Move
    <3>2. QED
      BY <2>1, <2>2, <3>1
  <2>7. QED
    BY <2>4, <2>5, <2>6
<1>4. ASSUME NEW h \in Handlers, Try(h)
      PROVE  Leaves \/ \E k \in Keys : Forgets(k) /\ CurrentOpen(k)
  <2>1. usage' = usage /\ req[h] \in Keys /\ pc[h] = "send"
    BY <1>4 DEF Try
  <2>2. PICK e \in CallEffects(gateway[req[h]]) :
           /\ gateway' = [gateway EXCEPT ![req[h]] = e[1]]
           /\ forgotten' \in {forgotten, forgotten \cup {req[h]}}
    BY <1>4, TryShape
  <2>3. gateway[req[h]] = "accepted" => e[1] = "accepted"
    BY <2>1, CallEffectsShape DEF Knowledge
  <2>4. CurrentOpen(req[h])
    BY <2>1 DEF Paid, HandlersHold
  <2>5. QED
    BY <2>1, <2>2, <2>3, <2>4 DEF Leaves, Forgets
<1>5. ASSUME NEW h \in Handlers, Commit(h) \/ Release(h)
      PROVE  Leaves \/ \E k \in Keys, n \in Attempts : Moves(k, n)
  <2>1. /\ gateway' = gateway /\ forgotten' = forgotten
        /\ req[h] \in Keys /\ hold[h] \in 0..MaxAttempts
        /\ \/ usage' = usage
           \/ \E status \in {"committed", "released"} :
                 Settle(req[h], hold[h], status)
    BY <1>5 DEF Commit, Release
  <2>2. CASE usage' = usage
    BY <2>1, <2>2 DEF Leaves
  <2>3. CASE \E status \in {"committed", "released"} :
                Settle(req[h], hold[h], status)
    BY <2>1, <2>3, SettleMoves
  <2>4. QED
    BY <2>1, <2>2, <2>3
<1>6. ASSUME NEW k \in Keys, GatewayDecides(k) \/ LeaseExpires(k)
      PROVE  Leaves
  BY <1>6 DEF GatewayDecides, LeaseExpires, Leaves
<1>7. ASSUME NEW k \in Keys, Reconcile(k) \/ CutReconcile(k) \/ ReadHistory(k)
      PROVE  Leaves \/ \E j \in Keys, n \in Attempts : Moves(j, n)
  <2>1. /\ gateway' = gateway /\ forgotten' = forgotten
        /\ usage' = usage \/ Settle(k, UsageOf(k), "committed")
    BY <1>7 DEF Reconcile, CutReconcile, ReadHistory, Accept
  <2>2. UsageOf(k) \in 0..MaxAttempts
    BY DEF UsageOf
  <2>3. CASE usage' = usage
    BY <2>1, <2>3 DEF Leaves
  <2>4. CASE Settle(k, UsageOf(k), "committed")
    BY <2>1, <2>2, <2>4, SettleMoves
  <2>5. QED
    BY <2>1, <2>3, <2>4
<1>8. CASE Crash
  <2>1. usage' = usage /\ forgotten' = forgotten
    BY <1>8 DEF Crash
  <2>2. \A k \in Keys : gateway[k] = "accepted" => gateway'[k] = "accepted"
    BY <1>8 DEF Crash
  <2>3. QED
    BY <2>1, <2>2 DEF Leaves
<1>9. CASE CheckHealth \/ PageThrows \/ UNCHANGED vars
  BY <1>9 DEF CheckHealth, PageThrows, Leaves, vars
<1>10. QED
  BY <1>1, <1>2, <1>3, <1>4, <1>5, <1>6, <1>7, <1>8, <1>9, NextCases

\* What leaves, leaves on credits that are held.
LEMMA LeavesIsSend ==
    ASSUME Books, Paid, Leaves, AcceptedIsCovered'
    PROVE  Metering!Send
<1> DEFINE S == Sent' \ Sent
<1>1. Sent' = Sent \cup S
  BY DEF Sent, Leaves
<1>2. Credit' = Credit
  BY DEF Credit, Leaves
<1>3. ASSUME NEW k \in S
      PROVE  k \in Keys /\ (Credit[k] = "held" \/ k \in forgotten)
  <2>1. k \in Keys /\ gateway'[k] = "accepted" /\ gateway[k] # "accepted"
    BY <1>3 DEF Sent
  <2>2. CASE k \in forgotten
    BY <2>1, <2>2
  <2>3. CASE \E n \in Attempts : usage[k][n] \in Open
    <3>1. \A m \in Attempts : usage[k][m] # "committed"
      BY <2>1 DEF Paid, ChargedWasSent
    <3>2. QED
      BY <2>1, <2>3, <3>1 DEF Credit, Open
  <2>4. QED
    BY <2>1, <2>2, <2>3 DEF AcceptedIsCovered, Leaves
<1>4. S \in SUBSET {k \in Keys : Credit[k] = "held" \/ k \in forgotten}
  BY <1>3
<1>5. forgotten' = forgotten
  BY DEF Leaves
<1>6. QED
  BY <1>1, <1>2, <1>4, <1>5 DEF Metering!Send

\* What is given up is given up while its credits are held or charged.
LEMMA ForgetsIsForget ==
    ASSUME Books, Paid, NEW k \in Keys, Forgets(k), CurrentOpen(k)
    PROVE  Metering!Forget(k)
<1>1. Credit' = Credit
  BY DEF Credit, Forgets
<1>2. attempt[k] \in Attempts
  BY OpenIsUsed
<1>3. Credit[k] # "none"
  BY <1>2 DEF Credit, CurrentOpen, Open
<1>4. Sent' \in {Sent, Sent \cup {k}}
  BY DEF Sent, Forgets
<1>5. QED
  BY <1>1, <1>3, <1>4 DEF Metering!Forget, Forgets

\* A move of a usage holds, charges or drops credits.
LEMMA MovesIsBooking ==
    ASSUME Books, OneOpenUsage, OneOpenUsage', ChargedWasSent', AcceptedIsCovered',
           NEW k \in Keys, NEW n \in Attempts, Moves(k, n)
    PROVE  Metering!Hold(k) \/ Metering!Drop(k) \/ Metering!Charge(k)
<1>1. Sent' = Sent /\ forgotten' = forgotten
  BY DEF Moves, Sent
<1>2. \A m \in Attempts : m # n => usage'[k][m] = usage[k][m]
  BY DEF Moves
<1>3. ASSUME NEW c \in {"none", "held", "charged"}, Credit'[k] = c
      PROVE  Credit' = [Credit EXCEPT ![k] = c]
  <2>1. \A j \in Keys : j # k => Credit'[j] = Credit[j]
    BY DEF Credit, Moves
  <2>2. QED
    BY <1>3, <2>1 DEF Credit
<1>4. CASE usage[k][n] = "none" /\ usage'[k][n] = "reserved"
  <2>1. \A m \in Attempts : m # n => usage'[k][m] \notin Open
    BY <1>4 DEF OneOpenUsage, Open
  <2>2. Credit[k] = "none" /\ Credit'[k] = "held"
    BY <1>2, <1>4, <2>1 DEF Credit, Open
  <2>3. QED
    BY <1>1, <1>3, <2>2 DEF Metering!Hold
<1>5. CASE usage[k][n] = "reserved" /\ usage'[k][n] = "committed"
  <2>1. \A m \in Attempts : m # n => usage[k][m] \notin Open
    BY <1>5 DEF OneOpenUsage, Open
  <2>2. Credit[k] = "held" /\ Credit'[k] = "charged"
    BY <1>5, <2>1 DEF Credit, Open
  <2>3. k \in Sent
    BY <1>1, <1>5 DEF ChargedWasSent, Sent
  <2>4. QED
    BY <1>1, <1>3, <2>2, <2>3 DEF Metering!Charge
<1>6. CASE usage[k][n] = "reserved" /\ usage'[k][n] = "released"
  <2>1. \A m \in Attempts : m # n => usage[k][m] \notin Open
    BY <1>6 DEF OneOpenUsage, Open
  <2>2. \A m \in Attempts : usage'[k][m] \notin Open
    BY <1>2, <1>6, <2>1 DEF Open
  <2>3. Credit[k] = "held" /\ Credit'[k] = "none"
    BY <1>6, <2>1, <2>2 DEF Credit, Open
  <2>4. k \notin Sent \/ k \in forgotten
    BY <1>1, <2>2 DEF AcceptedIsCovered, Sent
  <2>5. QED
    BY <1>1, <1>3, <2>3, <2>4 DEF Metering!Drop
<1>7. QED
  BY <1>4, <1>5, <1>6 DEF Moves, Move

\* No message leaves without held credits, a hold is dropped only for a
\* message that did not leave and charged only for one that did; the exception
\* are messages a send() gave up as certain failures although the gateway knew
\* them.
THEOREM MeteringIsKept ==
    ASSUME MaxStalls = 0
    PROVE  Spec => ImplementsMetering
<1>1. Init => Metering!Init
  BY DEF Init, Metering!Init, Sent, Credit
<1>2. Books => OneOpenUsage
  BY DEF Books, OpenIsCurrent, OneOpenUsage
<1>3. /\ Books /\ Paid /\ Books' /\ Paid'
      /\ [Next]_vars
      => [Metering!Next]_Metering!vars
  <2> SUFFICES ASSUME Books, Paid, Books', Paid', [Next]_vars
               PROVE  Metering!Next
    OBVIOUS
  <2>1. AcceptedIsCovered' /\ ChargedWasSent' /\ OneOpenUsage'
    <3>1. \A k \in Keys : attempt'[k] # 0 => attempt'[k] \in Attempts
      BY SmsConstants DEF Books, TypeOK, Attempts
    <3>2. AcceptedIsCovered'
      BY <3>1 DEF Paid, KnownIsOpen, CurrentOpen, AcceptedIsCovered
    <3>3. OneOpenUsage'
      BY DEF Books, OpenIsCurrent, OneOpenUsage
    <3>4. QED
      BY <3>2, <3>3 DEF Paid
  <2>2. CASE Leaves
    BY <2>1, <2>2, LeavesIsSend DEF Metering!Next
  <2>3. CASE \E k \in Keys, n \in Attempts : Moves(k, n)
    BY <1>2, <2>1, <2>3, MovesIsBooking DEF Metering!Next
  <2>4. CASE \E k \in Keys : Forgets(k) /\ CurrentOpen(k)
    BY <2>4, ForgetsIsForget DEF Metering!Next
  <2>5. QED
    BY <2>2, <2>3, <2>4, MoneyShape
<1>4. QED
  BY <1>1, <1>3, PaidAlways, PTL DEF Spec, ImplementsMetering, Metering!Spec

=============================================================================
