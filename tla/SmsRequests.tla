---------------------------- MODULE SmsRequests ----------------------------
(***************************************************************************)
(* POST /api/v1/sms/messages (server/routes/api/v1Sms.js), the request     *)
(* store and billing reconciliation of server/services/smsApiRequests.js,  *)
(* SmsGatewayService.send() of server/services/smsGateway.js, the gateway  *)
(* behind it, and a client that follows docs/SMS_GATEWAY.md.               *)
(*                                                                         *)
(* One Node process serves all requests.  A handler runs undisturbed from  *)
(* one await to the next, so one action is one transaction, a handler in   *)
(* the middle of such a stretch excludes all others, and a crash may come  *)
(* between any two transactions.  One client wants one message sent; the   *)
(* keys 1, 2, ... are the Idempotency-Keys it uses for that one message.   *)
(***************************************************************************)
EXTENDS Naturals

CONSTANTS
    MaxKeys,        \* bound: keys the client may use
    Handlers,       \* concurrent HTTP requests
    MaxTries,       \* gateway calls of one send(): 3
    MaxAttempts,    \* bound: attempts of one request row
    MaxAccidents,   \* bound: crashes of the server and errors of the database
                    \* (those of the billing calls are not counted)
    MaxStalls,      \* bound: leases (120 s) that expire under a live handler;
                    \* 0 when send() ends in time (3 calls of 15 s)
    ForgetsKeys     \* TRUE if send() may end in a certain error although the
                    \* gateway knows the key: a rate limit, a rotated API key,
                    \* a host name that resolves to a refused address, or an
                    \* error of markError() itself

ASSUME SmsConstants ==
    /\ MaxKeys \in Nat \ {0}
    /\ MaxTries \in Nat \ {0}
    /\ MaxAttempts \in Nat \ {0}
    /\ MaxAccidents \in Nat
    /\ MaxStalls \in Nat
    /\ ForgetsKeys \in BOOLEAN

Keys == 1..MaxKeys
Attempts == 1..MaxAttempts

VARIABLES
    \* table sms_api_requests, by idempotency key
    row,       \* status; "none" before the row exists
    attempt,   \* attempt
    billed,    \* the attempt whose usage is billing_usage_id; 0 for NULL
    lease,     \* lease_expires_at > now
    \* table billing_usage_events, by idempotency key and attempt
    usage,     \* status; "none" before the row exists
    \* table sms_gateway_accounts
    healthy,   \* the account is enabled and active
    \* memory of the handlers
    pc,        \* where a handler stands in POST /sms/messages
    req,       \* the key of its request
    hold,      \* the attempt whose usage is `reservation`; 0 for null
    tries,     \* gateway calls made by this send()
    answer,    \* the response, sent once the handler is idle again
    \* the outside world
    gateway,   \* what the gateway knows of a key
    forgotten, \* history: keys a send() gave up as certain failures although
               \* the gateway knew them
    current,   \* the key the client uses now
    passed,    \* keys whose message history_cursor has passed
    stuck,     \* a page of the message history throws whenever it is read
    accidents, \* crashes and errors of the database so far
    stalls     \* leases that expired under a live handler so far

table == <<row, attempt, billed, lease>>
handler == <<pc, req, hold, tries, answer>>
history == <<passed, stuck>>
outside == <<gateway, forgotten, current, history, stalls>>
world == <<outside, accidents>>
vars == <<table, usage, healthy, handler, world>>

Open == {"reserved", "committed"}
\* A handler between two transactions, with no await in between.
Running == {"check", "attach", "commit", "release", "fail"}

TypeOK ==
    /\ row \in [Keys -> {"none", "processing", "accepted", "failed"}]
    /\ attempt \in [Keys -> 0..MaxAttempts]
    /\ billed \in [Keys -> 0..MaxAttempts]
    /\ lease \in [Keys -> BOOLEAN]
    /\ usage \in [Keys -> [Attempts ->
                     {"none", "reserved", "committed", "released"}]]
    /\ healthy \in BOOLEAN
    /\ pc \in [Handlers -> {"idle", "send", "confirm"} \cup Running]
    /\ req \in [Handlers -> Keys]
    /\ hold \in [Handlers -> 0..MaxAttempts]
    /\ tries \in [Handlers -> 0..MaxTries]
    /\ answer \in [Handlers -> {"none", "accepted", "busy", "definite", "retry"}]
    /\ gateway \in [Keys -> {"unknown", "working", "accepted"}]
    /\ forgotten \subseteq Keys
    /\ current \in Keys
    /\ passed \subseteq Keys
    /\ stuck \in BOOLEAN
    /\ accidents \in Nat
    /\ stalls \in Nat

Init ==
    /\ row = [k \in Keys |-> "none"]
    /\ attempt = [k \in Keys |-> 0]
    /\ billed = [k \in Keys |-> 0]
    /\ lease = [k \in Keys |-> FALSE]
    /\ usage = [k \in Keys |-> [n \in Attempts |-> "none"]]
    /\ healthy = TRUE
    /\ pc = [h \in Handlers |-> "idle"]
    /\ req = [h \in Handlers |-> 1]
    /\ hold = [h \in Handlers |-> 0]
    /\ tries = [h \in Handlers |-> 0]
    /\ answer = [h \in Handlers |-> "none"]
    /\ gateway = [k \in Keys |-> "unknown"]
    /\ forgotten = {}
    /\ current = 1
    /\ passed = {}
    /\ stuck = FALSE
    /\ accidents = 0
    /\ stalls = 0

\* No handler is in the middle of a stretch without await.
Yielded == \A h \in Handlers : pc[h] \notin Running

Accident == accidents < MaxAccidents /\ accidents' = accidents + 1

Goto(h, place) == pc' = [pc EXCEPT ![h] = place]

\* An error ends the try block: the catch block releases, then fails the row.
Throw(h, place, response) ==
    /\ Goto(h, place)
    /\ answer' = [answer EXCEPT ![h] = response]

\* Mutant of UsageOf: a reservation that was not linked yet is not found.
UsageOf_OnlyLinked(k) == billed[k]

\* The usage of a request row: billing_usage_id, else the one of its attempt.
UsageOf(k) == IF billed[k] # 0 THEN billed[k] ELSE attempt[k]

\* Mutant of HasOpenUsage: a charge counts as an end of the attempt.
HasOpenUsage_Reserved(k) == UsageOf(k) # 0 /\ usage[k][UsageOf(k)] = "reserved"

HasOpenUsage(k) == UsageOf(k) # 0 /\ usage[k][UsageOf(k)] \in Open

----------------------------------------------------------------------------
(* The handler, up to the gateway call *)

\* A request that does not get as far as a claim.
Reply(h, k, response) ==
    /\ Yielded
    /\ pc[h] = "idle"
    /\ req' = [req EXCEPT ![h] = k]
    /\ answer' = [answer EXCEPT ![h] = response]
    /\ UNCHANGED <<table, usage, healthy, pc, hold, tries, world>>

\* inspect(): the stored response of an accepted request.
ReplyStored(h, k) == row[k] = "accepted" /\ Reply(h, k, "accepted")

\* requireActiveAccount() before the first claim.
RefuseInactive(h, k) == row[k] = "none" /\ ~healthy /\ Reply(h, k, "definite")

\* claim(): 409 SMS_REQUEST_IN_PROGRESS.
ReplyBusy(h, k) == row[k] = "processing" /\ lease[k] /\ Reply(h, k, "busy")

\* Mutant of CanClaim: the lease is not looked at.
CanClaim_NoLease(k) ==
    \/ row[k] = "none" /\ healthy
    \/ row[k] \in {"failed", "processing"}

\* What claim() may take: a new key, a failed request, an expired lease.
CanClaim(k) ==
    \/ row[k] = "none" /\ healthy
    \/ row[k] = "failed"
    \/ row[k] = "processing" /\ ~lease[k]

\* claim(): an open usage is used again, else a new attempt begins.
Claim(h, k) ==
    /\ Yielded
    /\ pc[h] = "idle"
    /\ CanClaim(k)
    /\ row' = [row EXCEPT ![k] = "processing"]
    /\ lease' = [lease EXCEPT ![k] = TRUE]
    /\ \/ /\ HasOpenUsage(k)
          /\ billed' = [billed EXCEPT ![k] = UsageOf(k)]
          /\ UNCHANGED attempt
       \/ /\ ~HasOpenUsage(k)
          /\ attempt[k] < MaxAttempts
          /\ attempt' = [attempt EXCEPT ![k] = @ + 1]
          /\ billed' = [billed EXCEPT ![k] = 0]
    /\ Throw(h, "check", "none")
    /\ req' = [req EXCEPT ![h] = k]
    /\ UNCHANGED <<usage, healthy, hold, tries, world>>

\* requireActiveAccount() after the claim, while `reservation` is still null.
AccountInactive(h) ==
    /\ pc[h] = "check"
    /\ ~healthy
    /\ Throw(h, "fail", "definite")
    /\ UNCHANGED <<table, usage, healthy, req, hold, tries, world>>

\* The reservation that claim() returned.
UseAgain(h) ==
    /\ pc[h] = "check"
    /\ healthy
    /\ billed[req[h]] # 0
    /\ hold' = [hold EXCEPT ![h] = billed[req[h]]]
    /\ Goto(h, "send")
    /\ UNCHANGED <<table, usage, healthy, req, tries, answer, world>>

\* billing.reserve(), which may throw (not enough credits).
Reserve(h) ==
    LET k == req[h]
    IN  /\ pc[h] = "check"
        /\ healthy
        /\ billed[k] = 0
        /\ \/ /\ hold' = [hold EXCEPT ![h] = attempt[k]]
              /\ usage' = IF usage[k][attempt[k]] = "none"
                          THEN [usage EXCEPT ![k][attempt[k]] = "reserved"]
                          ELSE usage
              /\ Goto(h, "attach")
              /\ UNCHANGED answer
           \/ /\ Throw(h, "fail", "definite")
              /\ UNCHANGED <<usage, hold>>
        /\ UNCHANGED <<table, healthy, req, tries, world>>

\* attachBilling(), which may throw; the row is still the one claimed in this
\* stretch.
Attach(h) ==
    /\ pc[h] = "attach"
    /\ \/ /\ billed' = [billed EXCEPT ![req[h]] = hold[h]]
          /\ Goto(h, "send")
          /\ UNCHANGED <<answer, accidents>>
       \/ /\ Accident
          /\ Throw(h, "release", "definite")
          /\ UNCHANGED billed
    /\ UNCHANGED <<row, attempt, lease, usage, healthy>>
    /\ UNCHANGED <<req, hold, tries, outside>>

----------------------------------------------------------------------------
(* send() and the gateway *)

\* What one call does to a key the gateway knows as g, and what send() sees:
\* "ok", "lost" (delivery uncertain, tried again), "send_failed" (certain,
\* tried again) or "refused" (certain, final).  A known key is answered from
\* its record or with request_in_progress.
CallEffects(g) ==
    (CASE g = "unknown"  -> ({g} \X {"lost", "send_failed", "refused"})
                             \cup ({"working"} \X {"lost"})
                             \cup ({"accepted"} \X {"ok", "lost"})
       [] g = "working"  -> {g} \X {"lost"}
       [] g = "accepted" -> {g} \X {"ok", "lost"})
    \cup IF ForgetsKeys THEN {g} \X {"send_failed", "refused"} ELSE {}

\* Mutant of AfterSend: an uncertain delivery counts as a failure.
AfterSend_NoDoubt(h, seen) == Throw(h, "release", "definite")

\* What the catch block does about the last error of send(): an uncertain
\* delivery keeps its reservation and asks for the same request again.
AfterSend(h, seen) ==
    IF seen = "lost" THEN Throw(h, "fail", "retry")
    ELSE Throw(h, "release", "definite")

\* Mutant of TriesLeft: the loop has no end.
TriesLeft_Always(h) == TRUE

\* attempt < 3 in the loop of send().
TriesLeft(h) == tries[h] + 1 < MaxTries

\* The message counts as not sent; g is what the gateway knows of it.
GiveUp(k, g) ==
    forgotten' = IF g = "unknown" THEN forgotten ELSE forgotten \cup {k}

\* One turn of that loop.
Try(h) ==
    LET k == req[h]
    IN  /\ Yielded
        /\ pc[h] = "send"
        /\ \E effect \in CallEffects(gateway[k]) :
              LET seen == effect[2]
                  again == seen \in {"lost", "send_failed"} /\ TriesLeft(h)
              IN  /\ gateway' = [gateway EXCEPT ![k] = effect[1]]
                  /\ tries' = [tries EXCEPT ![h] = IF again THEN @ + 1 ELSE 0]
                  /\ \/ /\ again
                        /\ UNCHANGED <<pc, answer, healthy, forgotten, accidents>>
                     \/ /\ ~again
                        /\ seen = "ok"
                        /\ Goto(h, "commit")
                        /\ UNCHANGED <<answer, healthy, forgotten, accidents>>
                     \/ /\ ~again
                        /\ seen # "ok"
                        /\ AfterSend(h, seen)
                        \* markError() unless the gateway rejected the message
                        /\ healthy' \in IF seen = "lost" THEN {FALSE}
                                        ELSE IF seen = "send_failed"
                                        THEN {healthy, FALSE} ELSE {healthy}
                        /\ IF seen = "lost" THEN UNCHANGED forgotten
                           ELSE GiveUp(k, effect[1])
                        /\ UNCHANGED accidents
                     \/ \* markError() throws: its error hides the doubt
                        /\ ForgetsKeys
                        /\ Accident
                        /\ ~again
                        /\ seen = "lost"
                        /\ AfterSend(h, "send_failed")
                        /\ GiveUp(k, effect[1])
                        /\ UNCHANGED healthy
        /\ UNCHANGED <<table, usage, req, hold, current, history, stalls>>

\* The gateway ends the work on a message it had not answered for.
GatewayDecides(k) ==
    /\ Yielded
    /\ gateway[k] = "working"
    /\ \E g \in {"unknown", "accepted"} : gateway' = [gateway EXCEPT ![k] = g]
    /\ UNCHANGED <<table, usage, healthy, handler, forgotten, current, history>>
    /\ UNCHANGED <<accidents, stalls>>

----------------------------------------------------------------------------
(* The handler, after the gateway call *)

\* Mutant of Settle: the UPDATE without the check of the status.
Settle_Unchecked(k, n, status) ==
    usage' = IF n # 0 THEN [usage EXCEPT ![k][n] = status] ELSE usage

\* A usage that is still reserved becomes `status`; any other is left alone.
Settle(k, n, status) ==
    usage' = IF n # 0 /\ usage[k][n] = "reserved"
             THEN [usage EXCEPT ![k][n] = status] ELSE usage

\* gatewayAccepted: commit() and storeMessage(), either of which may throw.
Commit(h) ==
    /\ pc[h] = "commit"
    /\ \/ Settle(req[h], hold[h], "committed") /\ Goto(h, "confirm")
          /\ UNCHANGED answer
       \/ Settle(req[h], hold[h], "committed") /\ Throw(h, "fail", "retry")
       \/ UNCHANGED usage /\ Throw(h, "fail", "retry")
    /\ UNCHANGED <<table, healthy, req, hold, tries, world>>

\* The handler returns with its response.
Return(h, response) ==
    /\ pc' = [pc EXCEPT ![h] = "idle"]
    /\ hold' = [hold EXCEPT ![h] = 0]
    /\ answer' = [answer EXCEPT ![h] = response]

\* accept() after the awaited callback; it throws if the row is not in
\* processing any more, and on an error of its own.
Confirm(h) ==
    LET k == req[h]
    IN  /\ Yielded
        /\ pc[h] = "confirm"
        /\ \/ /\ row[k] = "processing"
              /\ row' = [row EXCEPT ![k] = "accepted"]
              /\ lease' = [lease EXCEPT ![k] = FALSE]
              /\ Return(h, "accepted")
              /\ UNCHANGED accidents
           \/ /\ Throw(h, "fail", "retry")
              /\ IF row[k] = "processing" THEN Accident ELSE UNCHANGED accidents
              /\ UNCHANGED <<row, lease, hold>>
        /\ UNCHANGED <<attempt, billed, usage, healthy, req, tries, outside>>

\* release() in the catch block; an error of its own is only logged.
Release(h) ==
    /\ pc[h] = "release"
    /\ Settle(req[h], hold[h], "released") \/ UNCHANGED usage
    /\ Goto(h, "fail")
    /\ UNCHANGED <<table, healthy, req, hold, tries, answer, world>>

\* Mutant of FailRow: the UPDATE without its WHERE clause on the status.
FailRow_AnyStatus(k) ==
    /\ row' = [row EXCEPT ![k] = "failed"]
    /\ lease' = [lease EXCEPT ![k] = FALSE]

\* fail(): UPDATE ... 'failed' WHERE status = 'processing'.
FailRow(k) ==
    IF row[k] = "processing"
    THEN /\ row' = [row EXCEPT ![k] = "failed"]
         /\ lease' = [lease EXCEPT ![k] = FALSE]
    ELSE UNCHANGED <<row, lease>>

\* The end of the catch block: fail(), whose error is only logged, then the
\* response.
Fail(h) ==
    /\ pc[h] = "fail"
    /\ \/ FailRow(req[h]) /\ UNCHANGED accidents
       \/ Accident /\ UNCHANGED <<row, lease>>
    /\ Return(h, answer[h])
    /\ UNCHANGED <<attempt, billed, usage, healthy, req, tries, outside>>

----------------------------------------------------------------------------
(* Reconciliation, time, accidents and the client *)

\* Mutant of Reconcilable: only pending requests are looked up.
Reconcilable_OnlyPending(k) ==
    /\ gateway[k] = "accepted"
    /\ row[k] = "processing"
    /\ UsageOf(k) # 0 => usage[k][UsageOf(k)] # "released"

\* reconcileSmsMessageBilling() finds a message it may charge for.
Reconcilable(k) ==
    /\ gateway[k] = "accepted"
    /\ row[k] # "none"
    /\ UsageOf(k) # 0 => usage[k][UsageOf(k)] # "released"

\* reconcileSmsMessageBilling(): commit(), then acceptReconciled().
Accept(k) ==
    /\ Settle(k, UsageOf(k), "committed")
    /\ row' = [row EXCEPT ![k] = "accepted"]
    /\ lease' = [lease EXCEPT ![k] = FALSE]
    /\ UNCHANGED <<attempt, billed, healthy, handler>>

\* A webhook with an accepted message, or a page of the backward history.
Reconcile(k) ==
    /\ Yielded
    /\ Reconcilable(k)
    /\ Accept(k)
    /\ UNCHANGED world

\* The same, but acceptReconciled() fails or the server dies before it.
CutReconcile(k) ==
    /\ Yielded
    /\ Accident
    /\ Reconcilable(k)
    /\ Settle(k, UsageOf(k), "committed")
    /\ UNCHANGED <<table, healthy, handler, outside>>

\* The message history comes to a message the gateway has accepted; the cursor
\* moves on when all messages of the page are handled.
ReadHistory(k) ==
    /\ Yielded
    /\ ~stuck
    /\ gateway[k] = "accepted"
    /\ k \notin passed
    /\ IF Reconcilable(k) THEN Accept(k)
       ELSE UNCHANGED <<table, usage, healthy, handler>>
    /\ passed' = passed \cup {k}
    /\ UNCHANGED <<gateway, forgotten, current, stuck, accidents, stalls>>

\* A message whose recipient is no phone number gets into the history: the
\* transaction that stores its page throws, and the cursor never moves again.
PageThrows ==
    /\ Yielded
    /\ ~stuck
    /\ stuck' = TRUE
    /\ UNCHANGED <<table, usage, healthy, handler, gateway, forgotten, current>>
    /\ UNCHANGED <<passed, accidents, stalls>>

\* The server dies.  The gateway may have received a call on the wire.
Crash ==
    /\ Accident
    /\ \E h \in Handlers : pc[h] # "idle"
    /\ pc' = [h \in Handlers |-> "idle"]
    /\ hold' = [h \in Handlers |-> 0]
    /\ tries' = [h \in Handlers |-> 0]
    /\ answer' = [h \in Handlers |-> IF pc[h] = "idle" THEN answer[h] ELSE "none"]
    /\ gateway' \in
          {[k \in Keys |-> IF k \in S THEN "accepted" ELSE gateway[k]] :
              S \in SUBSET {req[h] : h \in {i \in Handlers : pc[i] = "send"}}}
    /\ UNCHANGED <<table, usage, healthy, req, forgotten, current, history, stalls>>

LeaseExpires(k) ==
    /\ Yielded
    /\ row[k] = "processing"
    /\ lease[k]
    /\ IF \E h \in Handlers : pc[h] # "idle" /\ req[h] = k
       THEN stalls < MaxStalls /\ stalls' = stalls + 1
       ELSE UNCHANGED stalls
    /\ lease' = [lease EXCEPT ![k] = FALSE]
    /\ UNCHANGED <<row, attempt, billed, usage, healthy, handler>>
    /\ UNCHANGED <<gateway, forgotten, current, history, accidents>>

\* The health check timer sets or clears the error status of the account.
CheckHealth ==
    /\ Yielded
    /\ healthy' = ~healthy
    /\ UNCHANGED <<table, usage, handler, world>>

\* "A certain error needs a new key": the client drops its key when the
\* response to it does not carry retry_same_request.
NewKey(h) ==
    /\ Yielded
    /\ pc[h] = "idle"
    /\ answer[h] = "definite"
    /\ req[h] = current
    /\ current < MaxKeys
    /\ current' = current + 1
    /\ UNCHANGED <<table, usage, healthy, handler, gateway, forgotten, history>>
    /\ UNCHANGED <<accidents, stalls>>

----------------------------------------------------------------------------

\* The client may repeat its request at any time, also while one is pending.
Request(h, k) ==
    /\ k = current
    /\ \/ ReplyStored(h, k) \/ RefuseInactive(h, k) \/ ReplyBusy(h, k)
       \/ Claim(h, k)

Step(h) ==
    \/ AccountInactive(h) \/ UseAgain(h) \/ Reserve(h) \/ Attach(h) \/ Try(h)
    \/ Commit(h) \/ Confirm(h) \/ Release(h) \/ Fail(h)

Next ==
    \/ \E h \in Handlers, k \in Keys : Request(h, k)
    \/ \E h \in Handlers : Step(h)
    \/ \E k \in Keys : GatewayDecides(k)
    \/ \E k \in Keys : Reconcile(k)
    \/ \E k \in Keys : LeaseExpires(k)
    \/ \E k \in Keys : CutReconcile(k)
    \/ \E k \in Keys : ReadHistory(k)
    \/ PageThrows
    \/ Crash
    \/ CheckHealth
    \/ \E h \in Handlers : NewKey(h)

Spec == Init /\ [][Next]_vars

\* Calls end and timers fire: the history is read on and on from its cursor,
\* unless a page throws.  The event loop takes callbacks in turn, so a page
\* that waits while handlers run is not put off for ever (strong fairness).
\* Nothing promises a webhook, and nothing forces the client to come back.
Fairness ==
    /\ \A h \in Handlers : WF_vars(Step(h))
    /\ \A k \in Keys : SF_vars(ReadHistory(k))

FairSpec == Spec /\ Fairness

----------------------------------------------------------------------------
(* Properties *)

\* However often a request is repeated, retried, reconciled or interrupted,
\* at most one of its usages is reserved or committed: no double charge and
\* no credits held twice.
OneOpenUsage ==
    \A k \in Keys : \A m, n \in Attempts :
        usage[k][m] \in Open /\ usage[k][n] \in Open => m = n

\* Credits that are held or charged for a request are never out of reach: the
\* next repetition of the request, or its reconciliation, finds just that usage,
\* also when a crash kept it from being linked to the row.  Nothing else
\* releases a reservation: billingUsage.js has no sweep.
OpenUsageIsFound ==
    \A k \in Keys, n \in Attempts :
        usage[k][n] \in Open => row[k] # "none" /\ UsageOf(k) = n

\* A message the gateway has, or may still take, is covered by a reservation
\* or a charge, unless a send() gave it up as a certain failure.
AcceptedIsCovered ==
    \A k \in Keys : gateway[k] # "unknown" =>
        k \in forgotten \/ \E n \in Attempts : usage[k][n] \in Open

\* A stored success stands for a message that left and was paid for, with the
\* same exception.
StoredSuccessIsPaid ==
    \A k \in Keys : row[k] = "accepted" =>
        /\ gateway[k] = "accepted"
        /\ k \in forgotten \/ \E n \in Attempts : usage[k][n] = "committed"

\* The books of a usage are closed once: a late release never undoes a
\* charge, a late commit never charges for a released usage.
ClosedUsageIsFinal ==
    [][\A k \in Keys, n \in Attempts :
          usage[k][n] \in {"committed", "released"} =>
              usage'[k][n] = usage[k][n]]_vars

\* A success, once stored, is what every repetition gets: no handler of an
\* earlier claim takes it back.
StoredSuccessIsFinal ==
    [][\A k \in Keys : row[k] = "accepted" => row'[k] = "accepted"]_vars

\* Every message that left is paid for in the end, also when the server
\* crashed or lost the answer and neither the client nor a webhook ever came:
\* the history finds it, unless its pages throw or a send() gave the message up.
AcceptedIsCharged ==
    \A k \in Keys : (gateway[k] = "accepted") ~>
        (\/ \E n \in Attempts : usage[k][n] = "committed"
         \/ stuck
         \/ k \in forgotten)

\* A client that follows the documented rule for retry_same_request gets its
\* message sent at most once.
OneMessage ==
    \A j, k \in Keys :
        gateway[j] = "accepted" /\ gateway[k] = "accepted" => j = k

\* What the books say about a key.
Credit ==
    [k \in Keys |->
        IF \E n \in Attempts : usage[k][n] = "committed" THEN "charged"
        ELSE IF \E n \in Attempts : usage[k][n] = "reserved" THEN "held"
        ELSE "none"]

Sent == {k \in Keys : gateway[k] = "accepted"}

\* The promise about money, see MeteredMessages.
Metering == INSTANCE MeteredMessages WITH
    Keys <- Keys, sent <- Sent, credit <- Credit, forgotten <- forgotten

\* The API implements metered sending.
ImplementsMetering == Metering!Spec

=============================================================================
