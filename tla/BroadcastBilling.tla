-------------------------- MODULE BroadcastBilling --------------------------
(***************************************************************************)
(* One WhatsApp broadcast of a tenant and its bill: the route              *)
(* (server/routes/tenantBroadcasts.js), the processor that works in memory *)
(* (services/broadcastProcessor.js), the reservation                       *)
(* (services/billingUsage.js), the cost row of each message                *)
(* (services/billingMetaMessageCosts.js) and the settlement by delivery    *)
(* statuses (services/billingMetaStatus.js).                               *)
(*                                                                         *)
(* One process and one event loop: at a place of Running the processor is  *)
(* between two awaits, so no webhook is handled until it has yielded; a    *)
(* crash may fall between any two SQL statements.  Amounts are counted in  *)
(* messages: a message Meta bills costs one credit on top of the base      *)
(* charge.  A tenant whose broadcasts are free has no reservation, and     *)
(* nothing of this module happens to it.                                   *)
(***************************************************************************)
EXTENDS Naturals, FiniteSets

CONSTANTS
    Recipients,  \* positions in the recipient list: 1..n
    BatchSize,   \* batchSize: messages posted together
    BaseUnit,    \* credits per recipient on top of the Meta cost
    Models,      \* pricing models of a tenant that are considered
    Estimates,   \* what a local estimate may make of a message
    Verdicts,    \* what pricing a billable status may give: rates may be missing
    MaxFaults    \* bound: crashes, and billing errors in webhooks

AllModels == {"fixed", "meta_like", "meta_cost_plus_credits"}

ASSUME BroadcastConstants ==
    /\ Recipients \subseteq Nat
    /\ IsFiniteSet(Recipients)
    /\ BatchSize \in Nat \ {0}
    /\ BaseUnit \in Nat
    /\ Models \subseteq AllModels
    /\ Estimates \subseteq {"pending", "not_charged", "rate_missing"}
    /\ Verdicts \subseteq {"final", "rate_missing"}
    /\ MaxFaults \in Nat

VARIABLES
    model,     \* pricing_model of the broadcast operation
    \* tables
    job,       \* broadcast_jobs.status; "none" before the INSERT
    sentCount, \* broadcast_jobs.sent_count
    usage,     \* billing_usage_events.status of the reservation
    attached,  \* its reference_id is the job
    charge,    \* its final_credits
    cost,      \* billing_meta_message_costs.status; "none": no row
    linked,    \* the row's broadcast_job_id is the job
    amount,    \* the row's final_amount is positive
    \* memory of the processor
    pc,        \* where the route handler or the processor stands
    send,      \* what the processor knows of each message
    \* Meta
    fate,      \* "none" until Meta takes the message, then what becomes of it
    told,      \* the last delivery report on the message was handled to the end
    unheard,   \* it was not, and was acknowledged all the same
    \* history
    presumed,  \* messages that a local estimate made free
    faults     \* crashes and billing errors so far

tables == <<job, sentCount, usage, attached, charge, cost, linked, amount>>
meta == <<fate, told, unheard>>
vars == <<model, tables, pc, send, meta, presumed, faults>>

Fates == {"paid", "free", "failed"}
Costs == {"none", "pending", "final", "not_charged", "rate_missing"}
Terminal == {"final", "not_charged", "rate_missing"}
Settled == {"committed", "released"}
Running == {"reserved", "counting", "settling", "finalizing", "completing",
            "catching", "failing"}
Places == Running \cup {"idle", "scheduled", "posting", "waiting", "done"}

Yielded == pc \notin Running

Todo == {m \in Recipients : send[m] = "todo"}
Posting == {m \in Recipients : send[m] = "posting"}
Sent == {m \in Recipients : send[m] = "sent"}

\* recipients.slice(index, index + batchSize)
NextBatch == {m \in Todo : Cardinality({k \in Todo : k < m}) < BatchSize}

TypeOK ==
    /\ model \in AllModels
    /\ job \in {"none", "pending", "running", "completed", "failed"}
    /\ sentCount \in Nat
    /\ usage \in {"none", "reserved"} \cup Settled
    /\ attached \in BOOLEAN
    /\ charge \in Nat
    /\ cost \in [Recipients -> Costs]
    /\ linked \in [Recipients -> BOOLEAN]
    /\ amount \in [Recipients -> BOOLEAN]
    /\ pc \in Places
    /\ send \in [Recipients -> {"todo", "posting", "sent", "failed"}]
    /\ fate \in [Recipients -> {"none"} \cup Fates]
    /\ told \in [Recipients -> BOOLEAN]
    /\ unheard \subseteq Recipients
    /\ presumed \subseteq Recipients
    /\ faults \in Nat

Init ==
    /\ model \in Models
    /\ job = "none"
    /\ sentCount = 0
    /\ usage = "none"
    /\ attached = FALSE
    /\ charge = 0
    /\ cost = [m \in Recipients |-> "none"]
    /\ linked = [m \in Recipients |-> FALSE]
    /\ amount = [m \in Recipients |-> FALSE]
    /\ pc = "idle"
    /\ send = [m \in Recipients |-> "todo"]
    /\ fate = [m \in Recipients |-> "none"]
    /\ told = [m \in Recipients |-> FALSE]
    /\ unheard = {}
    /\ presumed = {}
    /\ faults = 0

-----------------------------------------------------------------------------
(* The reservation: each outcome is one transaction.                       *)

\* Mutant of Release: the status of the usage is not read again.
Release_Unchecked == /\ usage' = "released"
                     /\ UNCHANGED charge

\* release(): only a reserved usage changes.
Release == /\ usage' = IF usage = "reserved" THEN "released" ELSE usage
           /\ UNCHANGED charge

\* commit() with an amount; nothing to charge releases.
Commit(credits) ==
    IF usage = "reserved" /\ credits > 0
    THEN /\ usage' = "committed"
         /\ charge' = credits
    ELSE Release

\* Mutants of Due: not every sent message has a cost row that is settled; the
\* reservation need not have been handed over yet.
Due_OneIsEnough(c, l) ==
    /\ sentCount > 0
    /\ usage = "reserved"
    /\ attached
    /\ \E m \in Recipients : l[m] /\ c[m] \in Terminal
    /\ \A m \in Recipients : l[m] => c[m] # "rate_missing"
Due_NotHandedOver(c, l) ==
    /\ sentCount > 0
    /\ usage = "reserved"
    /\ Cardinality({m \in Recipients : l[m] /\ c[m] \in Terminal}) >= sentCount
    /\ \A m \in Recipients : l[m] => c[m] # "rate_missing"

\* The conditions of tryFinalizeBroadcastReservationFromStatus() for cost
\* rows c, of which l belong to the job.
Due(c, l) ==
    /\ sentCount > 0
    /\ usage = "reserved"
    /\ attached
    /\ Cardinality({m \in Recipients : l[m] /\ c[m] \in Terminal}) >= sentCount
    /\ \A m \in Recipients : l[m] => c[m] # "rate_missing"

\* baseChargeCredits, taken from the reservation, and the cost of the messages.
Price(a) ==
    BaseUnit * Cardinality(Recipients)
        + Cardinality({m \in Recipients : linked[m] /\ a[m]})

\* Mutant of TryFinalize: only the defer call finalizes, statuses do not.
TryFinalize_AtDeferOnly(c, a) ==
    IF pc = "finalizing" /\ Due(c, linked)
    THEN Commit(Price(a))
    ELSE UNCHANGED <<usage, charge>>

TryFinalize(c, a) ==
    IF Due(c, linked) THEN Commit(Price(a)) ELSE UNCHANGED <<usage, charge>>

-----------------------------------------------------------------------------
(* POST /broadcast, then the processor.                                    *)

Reserve ==
    /\ pc = "idle"
    /\ usage = "none"
    /\ usage' = "reserved"
    /\ pc' = "reserved"
    /\ UNCHANGED <<model, job, sentCount, attached, charge, cost, linked,
                   amount, send, meta, presumed, faults>>

\* The INSERT of the job and the response; a failure releases, and a failure
\* of that is logged.
CreateJob ==
    /\ pc = "reserved"
    /\ \/ /\ job' = "pending"
          /\ pc' = "scheduled"
          /\ UNCHANGED <<usage, charge>>
       \/ /\ Release \/ UNCHANGED <<usage, charge>>
          /\ pc' = "done"
          /\ UNCHANGED job
    /\ UNCHANGED <<model, sentCount, attached, cost, linked, amount, send,
                   meta, presumed, faults>>

\* A statement of the processor throws: on to the catch block.
Throw == /\ pc' = "catching"
         /\ UNCHANGED <<tables, send>>

\* The next batch is posted, all messages at once.
Post == send' = [m \in Recipients |-> IF m \in NextBatch THEN "posting"
                                                         ELSE send[m]]

Start ==
    /\ pc = "scheduled"
    /\ \/ /\ job' = "running"
          /\ Post
          /\ pc' = "posting"
          /\ UNCHANGED <<sentCount, usage, attached, charge, cost, linked, amount>>
       \/ Throw
    /\ UNCHANGED <<model, meta, presumed, faults>>

\* The 200 ms between two batches have passed.
Resume ==
    /\ pc = "waiting"
    /\ Post
    /\ pc' = "posting"
    /\ UNCHANGED <<model, tables, meta, presumed, faults>>

\* Meta takes a message that is on its way and decides what becomes of it.
MetaTakes(m) ==
    /\ Yielded
    /\ send[m] = "posting"
    /\ fate[m] = "none"
    /\ \E f \in Fates : fate' = [fate EXCEPT ![m] = f]
    /\ UNCHANGED <<model, tables, pc, send, told, unheard, presumed, faults>>

\* After the last answer of the batch the processor runs on.
AfterAnswer(m) == pc' = IF Posting = {m} THEN "counting" ELSE pc

\* Mutant of Recorded: an estimate is stored under the name it has in pricing.
Recorded_Estimated(m, estimate) ==
    IF cost[m] \in {"final", "not_charged"} THEN cost[m]
    ELSE IF estimate = "pending" THEN "estimated" ELSE estimate

\* recordMetaMessageCost(), ON CONFLICT: a final row keeps its status.
Recorded(m, estimate) ==
    IF cost[m] \in {"final", "not_charged"} THEN cost[m] ELSE estimate

\* requestMeta() returns a message id.  The cost row may fail to be stored,
\* or there is no id: a warning, and the message counts as sent.
SentOk(m) ==
    /\ Yielded
    /\ send[m] = "posting"
    /\ fate[m] # "none"
    /\ send' = [send EXCEPT ![m] = "sent"]
    /\ AfterAnswer(m)
    /\ \/ \E e \in Estimates :
             /\ cost' = [cost EXCEPT ![m] = Recorded(m, e)]
             /\ amount' = [amount EXCEPT ![m] = @ /\ e # "not_charged"]
             /\ presumed' = IF e = "not_charged" THEN presumed \cup {m}
                                                 ELSE presumed
             /\ linked' = [linked EXCEPT ![m] = TRUE]
       \/ UNCHANGED <<cost, amount, presumed, linked>>
    /\ UNCHANGED <<model, job, sentCount, usage, attached, charge, meta, faults>>

\* Meta refuses, or its answer is lost: the message counts as failed.
SendFailed(m) ==
    /\ Yielded
    /\ send[m] = "posting"
    /\ send' = [send EXCEPT ![m] = "failed"]
    /\ AfterAnswer(m)
    /\ UNCHANGED <<model, tables, meta, presumed, faults>>

\* The progress UPDATE after a batch.
Count ==
    /\ pc = "counting"
    /\ \/ /\ sentCount' = Cardinality(Sent)
          /\ pc' = IF Todo = {} THEN "settling" ELSE "waiting"
          /\ UNCHANGED <<job, usage, attached, charge, cost, linked, amount, send>>
       \/ Throw
    /\ UNCHANGED <<model, meta, presumed, faults>>

-----------------------------------------------------------------------------
(* Settlement after the last batch.                                        *)

\* Nothing was sent.
ReleaseAll ==
    /\ pc = "settling"
    /\ Sent = {}
    /\ Release
    /\ pc' = "completing"
    /\ UNCHANGED <<model, job, sentCount, attached, cost, linked, amount, send,
                   meta, presumed, faults>>

\* Credits of a broadcast that is charged at once: one per sent message, or
\* per sent message that the local rules of Meta's windows find billable.
Billable == IF model = "fixed" THEN {Cardinality(Sent)} ELSE 0..Cardinality(Sent)

\* resolveLocalQuantity() and commit().
ChargeNow ==
    /\ pc = "settling"
    /\ Sent # {}
    /\ model # "meta_cost_plus_credits"
    /\ \E q \in Billable : Commit(q)
    /\ pc' = "completing"
    /\ UNCHANGED <<model, job, sentCount, attached, cost, linked, amount, send,
                   meta, presumed, faults>>

\* deferUntilStatuses(): the reservation is handed over to the statuses ...
Defer ==
    /\ pc = "settling"
    /\ Sent # {}
    /\ model = "meta_cost_plus_credits"
    /\ attached' = TRUE
    /\ pc' = "finalizing"
    /\ UNCHANGED <<model, job, sentCount, usage, charge, cost, linked, amount,
                   send, meta, presumed, faults>>

\* Mutant of Finalize: the settlement is left to the next status.
Finalize_LeftToStatuses ==
    /\ pc = "finalizing"
    /\ pc' = "completing"
    /\ UNCHANGED <<model, tables, send, meta, presumed, faults>>

\* ... some of which may have come before.
Finalize ==
    /\ pc = "finalizing"
    /\ TryFinalize(cost, amount)
    /\ pc' = "completing"
    /\ UNCHANGED <<model, job, sentCount, attached, cost, linked, amount, send,
                   meta, presumed, faults>>

\* The activity log and the result of the job, one transaction.
Complete ==
    /\ pc = "completing"
    /\ job' = "completed"
    /\ sentCount' = Cardinality(Sent)
    /\ pc' = "done"
    /\ UNCHANGED <<model, usage, attached, charge, cost, linked, amount, send,
                   meta, presumed, faults>>

SettleFails ==
    /\ pc \in {"settling", "finalizing", "completing"}
    /\ Throw
    /\ UNCHANGED <<model, meta, presumed, faults>>

\* The catch block: whatever was sent, the whole reservation is released; a
\* failure of release() is logged.
Catch ==
    /\ pc = "catching"
    /\ \/ Release
       \/ UNCHANGED <<usage, charge>>
    /\ pc' = "failing"
    /\ UNCHANGED <<model, job, sentCount, attached, cost, linked, amount, send,
                   meta, presumed, faults>>

FailJob ==
    /\ pc = "failing"
    /\ job' = "failed"
    /\ pc' = "done"
    /\ UNCHANGED <<model, sentCount, usage, attached, charge, cost, linked,
                   amount, send, meta, presumed, faults>>

-----------------------------------------------------------------------------
(* Delivery reports: webhooks.js, updateMetaChargeFromStatus().            *)

\* The row a report finds or makes.  A message that is not stored yet looks
\* like free-form text, which is free; a stored one has no known category.
RowFor(m) ==
    IF cost[m] # "none" THEN {cost[m]}
    ELSE IF send[m] = "sent" THEN {"not_charged", "rate_missing"}
    ELSE {"not_charged"}

\* The report "sent" only makes sure that there is a row.
ReportSent(m) ==
    /\ Yielded
    /\ fate[m] # "none"
    /\ \E row \in RowFor(m) :
          LET c == [cost EXCEPT ![m] = row] IN
          /\ cost' = c
          /\ presumed' = IF cost[m] = "none" /\ row = "not_charged"
                         THEN presumed \cup {m} ELSE presumed
          /\ IF linked[m] THEN TryFinalize(c, amount)
                          ELSE UNCHANGED <<usage, charge>>
    /\ UNCHANGED <<model, job, sentCount, attached, linked, amount, pc, send,
                   meta, faults>>

\* The status a final report gives to a row that is not final.
Priced(m) == IF fate[m] = "paid" THEN Verdicts ELSE {"not_charged"}

\* delivered or read, with pricing, or failed: the row, and the settlement of
\* the job if the row belongs to it.
Report(m) ==
    /\ Yielded
    /\ fate[m] # "none"
    /\ \E v \in Priced(m) :
          LET final == cost[m] = "final"
              c == [cost EXCEPT ![m] = IF final THEN @ ELSE v]
              a == [amount EXCEPT ![m] = IF final THEN @ ELSE v = "final"]
          IN  /\ cost' = c
              /\ amount' = a
              /\ IF linked[m] THEN TryFinalize(c, a)
                              ELSE UNCHANGED <<usage, charge>>
    /\ told' = [told EXCEPT ![m] = TRUE]
    /\ UNCHANGED <<model, job, sentCount, attached, linked, pc, send, fate,
                   unheard, presumed, faults>>

-----------------------------------------------------------------------------
(* Crashes and billing errors.  Nothing resumes the job.                   *)

\* The processor and its memory are gone; what was on its way is not counted.
Stop ==
    /\ pc' = "done"
    /\ send' = [m \in Recipients |-> IF send[m] = "posting" THEN "failed"
                                                            ELSE send[m]]

\* Between any two statements of the route or the processor.
Crash ==
    /\ faults < MaxFaults
    /\ pc \notin {"idle", "done"}
    /\ Stop
    /\ faults' = faults + 1
    /\ UNCHANGED <<model, tables, meta, presumed>>

\* The handling of a report breaks off before the settlement, before or after
\* the cost row is written: by a crash, so that Meta, which has no answer,
\* repeats the report; or by a billing error, which is logged and acknowledged.
BreakReport(m) ==
    /\ Yielded
    /\ faults < MaxFaults
    /\ fate[m] # "none"
    /\ \/ UNCHANGED <<cost, amount>>
       \/ /\ cost[m] # "final"
          /\ \E v \in Priced(m) :
                /\ cost' = [cost EXCEPT ![m] = v]
                /\ amount' = [amount EXCEPT ![m] = v = "final"]
    /\ told' = [told EXCEPT ![m] = FALSE]
    /\ \/ /\ Stop
          /\ UNCHANGED unheard
       \/ /\ unheard' = unheard \cup {m}
          /\ UNCHANGED <<pc, send>>
    /\ faults' = faults + 1
    /\ UNCHANGED <<model, job, sentCount, usage, attached, charge, linked, fate,
                   presumed>>

-----------------------------------------------------------------------------
Processor ==
    \/ Start \/ Resume \/ Count
    \/ ReleaseAll \/ ChargeNow \/ Defer \/ Finalize \/ Complete \/ SettleFails
    \/ Catch \/ FailJob

Next ==
    \/ Reserve \/ CreateJob \/ Processor \/ Crash
    \/ \E m \in Recipients :
          \/ MetaTakes(m) \/ SentOk(m) \/ SendFailed(m)
          \/ ReportSent(m) \/ Report(m) \/ BreakReport(m)

Spec == Init /\ [][Next]_vars

\* Meta repeats a final report until it is acknowledged.
Fairness ==
    \A m \in Recipients : WF_vars(Report(m) /\ ~told[m] /\ m \notin unheard)

FairSpec == Spec /\ Fairness

-----------------------------------------------------------------------------
(* Properties *)

\* A message is on its way only while the reservation is held: the statuses of
\* an earlier batch must not settle a job that still sends, whatever is lost,
\* reordered or crashes (billingMetaStatus.js:50-61 against
\* broadcastProcessor.js:107-240).
SendingIsCovered == Posting # {} => usage = "reserved"

\* A reservation is settled once: the processor, its catch block, repeated and
\* late statuses never settle it again or change what was charged.
SettledIsFinal ==
    [][(usage \in Settled) => usage' = usage /\ charge' = charge]_vars

\* What Meta really bills of the messages that were sent.
Billed == {m \in Sent : fate[m] = "paid"}

\* The statuses decide the bill: the tenant never pays for a message that Meta
\* did not bill, and pays for every message that Meta billed unless a local
\* estimate had called it free before Meta said otherwise; a plain price is
\* paid per sent message.
ChargeFollowsStatuses ==
    usage = "committed" =>
        CASE model = "fixed" -> charge = Cardinality(Sent)
          [] model = "meta_like" -> charge <= Cardinality(Sent)
          [] OTHER ->
               LET base == BaseUnit * Cardinality(Recipients) IN
               /\ charge <= base + Cardinality(Billed)
               /\ charge >= base + Cardinality(Billed \ presumed)

\* Every sent message has a row of the job with a known price.
Accountable == \A m \in Sent : linked[m] /\ cost[m] \in {"final", "not_charged"}

\* The report on a sent message found no rate, and its price is unknown.
RateMissed == \E m \in Sent : told[m] /\ cost[m] \in {"pending", "rate_missing"}

\* No completed job is forgotten: once every sent message is accounted for and
\* its last report was handled, the reservation is settled, in whatever order
\* the reports, the records and the handing over came.
NothingForgotten ==
    job = "completed" /\ Accountable /\ (\A m \in Sent : told[m])
        => usage \in Settled

\* A completed job whose messages have their rows is settled in the end, unless a
\* report came while a rate was missing or its billing error was acknowledged.
EveryJobSettles ==
    (job = "completed" /\ \A m \in Sent : linked[m])
        ~> (usage \in Settled \/ RateMissed \/ unheard # {})

\* Stated by local_pricing_deferred_until = 'all_broadcast_statuses'
\* (billingMetaStatus.js:40): a deferred job is charged or released by its
\* statuses only after the last of them.
SettledAfterStatuses ==
    attached /\ usage = "committed" => \A m \in Sent : told[m]

\* The promise about the credits of the broadcast, see PrepaidBroadcast.
Bill == INSTANCE PrepaidBroadcast WITH credit <- usage

\* The broadcast implements prepaid sending: the processor, its catch block and
\* the reports of Meta settle the bill once, as the pricing model asks.
ImplementsBill == Bill!Spec

=============================================================================
