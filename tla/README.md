# Formal models of the Savana messaging platform

The repository is a Node.js service (`server/`) with a React client (`client/`).
It gives tenants WhatsApp, Messenger, Facebook and SMS messaging behind one API,
charges them in credits, and hands events on to their systems. All state is in
one SQLite database; a production deployment runs one server container
(`docker-compose.production.yml`). Paths below are relative to `src/`.

This directory holds TLA+ models of the parts in which order, retries, money and
crashes meet, the TLC configurations that check them, and TLAPS proofs.

    tlc -workers 2 -config outbox_two.cfg MCOutbox    # one run
    tlapm CallbackOutboxProofs.tla                    # one proof module

## 1. What is modelled, and by which module

| Module | Models | Kind |
|---|---|---|
| `OrderedDelivery` | what the callback outbox promises a tenant | abstract specification |
| `CallbackOutbox` | `services/tenantCallbackOutbox.js`, its timer in `server.js`, retention in `services/maintenance.js` | component |
| `CallbackOutboxProofs` | theorems about `CallbackOutbox` | proofs |
| `MeteredMessages` | what the SMS API promises about credits | abstract specification |
| `SmsRequests` | `POST /api/v1/sms/messages`, the request store and reconciliation of `services/smsApiRequests.js`, `send()` of `services/smsGateway.js`, reserve/commit/release of one usage of `services/billingUsage.js`, the gateway and a client | composition of four components |
| `SmsRequestsProofs` | theorems about `SmsRequests` | proofs |
| `BroadcastBilling` | one WhatsApp broadcast and its bill: `routes/tenantBroadcasts.js`, `services/broadcastProcessor.js`, the reservation in `services/billingUsage.js`, cost rows in `services/billingMetaMessageCosts.js`, settlement by delivery reports in `services/billingMetaStatus.js`, and Meta | composition of five components |
| `PrepaidBroadcast` | what a broadcast promises about credits | abstract specification |
| `BroadcastBillingProofs` | theorems about `BroadcastBilling` | proofs |
| `BillingLedger` | one billing account: `services/billingAccount.js`, `billingUsage.js`, `billingMath.js`, `billingLedgerMutations.js` | component |
| `BillingLedgerProofs` | theorems about `BillingLedger` | proofs |
| `ContentScheduler` | `services/facebookContentScheduler.js`, `facebookContentPublisher.js`, the routes that change publications and campaigns, the usage of a publication, and Meta | composition of four components |
| `Publications` | what the content scheduler promises about a post | abstract specification |
| `ContentSchedulerProofs` | theorems about `ContentScheduler` | proofs |
| `PushDeliveries` | `services/webPush.js` and its part of `services/maintenance.js` | component |
| `Notifications` | what the notification outbox promises to users | abstract specification |
| `PushDeliveriesProofs` | theorems about `PushDeliveries` | proofs |
| `ProductSnapshots` | the product snapshots and lifecycle callbacks of `services/savanaIntegration.js`, and the owner's edits in `routes/messengerBotProducts.js` | component |
| `Storefront` | what platforms and the owner may rely on | abstract specification |
| `ProductSnapshotsProofs` | theorems about `ProductSnapshots` | proofs |
| `MCOutbox`, `MCSms`, `MCBroadcast`, `MCBilling`, `MCContent`, `MCPush`, `MCSnapshots` | sets, functions and symmetries of the small instances | model checking |

Conventions: one SQL statement or `db.transaction` is one action; a guard is a
`WHERE` clause or an early return; mutants stand next to the definition they
change and are named `Definition_WhatIsWrong`. `PROJECT.json` maps each
definition to the lines it translates and each property to a mutant that breaks
it.

### 1.1 The tenant callback outbox

State in the code: table `tenant_api_callback_outbox`; in `dispatch()` the locals
`results`, `blockedTenants`, `claimed`, the slice being posted, and
`record.attempts` as `claim()` read it back. In the model: `status`, `attempts`,
`tenant`, `key` (dedupe key), `due` (`available_at <= now`), `expired`
(`locked_at <= now - leaseMs`), `kept` (not purged), and per worker `pc`,
`picked`, `claims`, `open`, `attemptOf`, `blocked`, `results`. `received`,
`crashes`, `stalls` belong to the outside world and are read by no guard of the
program (the last two only bound the instance).

| Code | Action |
|---|---|
| `enqueue()` with `ON CONFLICT(dedupe_key) DO NOTHING` | `Enqueue` |
| `reclaimExpiredLeases()` at the start of `dispatch()` | `StartDispatch` |
| the ranked `SELECT` (head of line per tenant) | `Select` |
| the guarded `UPDATE` of `claim()`, in the loop over candidates | `Claim` |
| `claimed.slice(offset, offset + concurrency)` | `StartBatch` |
| 2xx answer | `Accepted` |
| other answer, timeout, lost connection | `Rejected` |
| `retryDelayMs()` passed; `leaseMs` passed | `BecomeDue`; `LeaseExpires` |
| retention | `Purge` |
| process exit in the middle of a dispatch | `Crash` |

`StartDispatch` carries the guard `callbackOutboxRunning` of the timer: a process
never runs two dispatches. Several `Workers` are several processes on one
database, as when an old and a new server overlap during a restart.

A request either reaches the tenant's endpoint or not, and its answer may be
lost; so `Rejected` and `Crash` leave open what was received.

`OrderedDelivery` knows an owner, an outcome and the events received; every active
row is `open` there. Its constant `ComesLate` is `MaxStalls > 0`: if a lease may
expire under a live delivery, an event that was given up may still arrive, behind
later ones. Everything else it promises whether leases are outlived or not.

### 1.2 The SMS API

State in the code: tables `sms_api_requests`, `billing_usage_events`,
`sms_gateway_accounts`; per HTTP request the locals of the route handler. In the
model: `row`, `attempt`, `billed`, `lease`; `usage`; `healthy`; per handler `pc`,
`req`, `hold`, `tries`, `answer`; and outside `gateway` (what the gateway knows
of a key), `current` (the key the client uses), `passed` (messages that
`history_cursor` has passed) and `stuck` (a page of the history throws whenever
it is read). `forgotten` is history: keys that a `send()` gave up as certain
failures although the gateway knew them.

JavaScript runs a handler undisturbed from one `await` to the next. A handler at
a place of `Running` is inside such a stretch: every other action that needs the
event loop has the guard `Yielded`, while a crash may fall between any two
transactions. Any database statement may throw: for the billing calls and
`storeMessage()` without limit, for `attachBilling()`, `accept()`, `fail()`,
`markError()` and `acceptReconciled()` as one of `MaxAccidents`, which also counts
crashes.

| Code | Action |
|---|---|
| `inspect()` finds a stored response / 409 in progress / inactive account before the first claim | `ReplyStored` / `ReplyBusy` / `RefuseInactive` |
| `claim()` | `Claim` |
| `requireActiveAccount()` after the claim | `AccountInactive` |
| `claim.reservation` is used again | `UseAgain` |
| `billing.reserve()`; `attachBilling()` | `Reserve`; `Attach` |
| one turn of the retry loop of `send()`, with `markError()` | `Try` |
| the gateway ends a request it had not answered | `GatewayDecides` |
| `commit()`, `storeMessage()` | `Commit` |
| `accept()` and the response | `Confirm` |
| the catch block: `release()`; `fail()` and the response | `Release`; `Fail` |
| webhook or page of the backward history with an accepted message | `Reconcile` |
| a message of the forward history, and the cursor after it | `ReadHistory` |
| a message that `storeMessage()` refuses is in the next page | `PageThrows` |
| `acceptReconciled()` throws, or a crash before it | `CutReconcile` |
| process exit | `Crash` |
| 120 s passed | `LeaseExpires` |
| health timer | `CheckHealth` |
| a client takes a new key after an answer without `retry_same_request` | `NewKey` |

The gateway deduplicates by idempotency key; that is how the code uses it
(`services/smsGateway.js:1010-1051` sends the same key in every try and treats
`request_in_progress` as uncertain). It is marked external.

### 1.3 The bill of a broadcast

State in the code: tables `broadcast_jobs`, `billing_usage_events`,
`billing_meta_message_costs`; in `processBroadcastJob()` the loop index, the
results and the open requests. In the model: `job`, `sentCount`; `usage`,
`attached` (`reference_id` is the job), `charge` (`final_credits`); per message
`cost` (status of its row), `linked` (`broadcast_job_id`), `amount` (a positive
`final_amount`); `pc` and, per message, `send`. Meta keeps `fate` (what becomes
of a message it took), `told` (its last final report was handled to the end) and
`unheard` (it was not, and was acknowledged all the same). `presumed` is history:
the messages that a local estimate made free. Amounts are counted in messages: a
message that Meta bills costs one credit, on top of `BaseUnit`.

| Code | Action |
|---|---|
| `billing.reserve()`; `INSERT INTO broadcast_jobs` and the response | `Reserve`; `CreateJob` |
| `status = 'running'` and the first batch; the next one after `wait(200)` | `Start`; `Resume` |
| Meta takes a message | `MetaTakes` |
| an answer with an id, and `recordMessageCost()`; a refusal or a lost answer | `SentOk`; `SendFailed` |
| the progress `UPDATE` after `Promise.all` | `Count` |
| nothing sent: `release()`; `commit()` by price; `deferUntilStatuses()` | `ReleaseAll`; `ChargeNow`; `Defer`, then `Finalize` |
| the job is completed | `Complete` |
| a statement throws; the catch block | `Throw` within the action, `SettleFails`; `Catch`, `FailJob` |
| webhook status `sent`; `delivered`, `read` or `failed` | `ReportSent`; `Report` |
| a status whose billing throws, or a crash in the middle of one | `BreakReport` |
| process exit | `Crash` |

A report may come before Meta's answer to the send, because the processor waits
for every answer of a batch, and it may come again. One model step is one
statement or transaction. While the processor stands at a place of `Running` it
has not yielded, and no webhook is handled.

`PrepaidBroadcast` has the usage, the charge, the messages and what Meta made of
them, and neither job nor rows, batches or reports. It says when credits may be
charged or given back, and with how much for each pricing model.

### 1.4 The billing account

State in the code: `tenant_billing_accounts`, `billing_usage_events`,
`billing_ledger`, and `tenants.credits`, which caches what the tenant can spend.
In the model: `plan`, `active`, `cycle`, `amount` (`plan_balance`,
`wallet_balance`, `credit_limit`, `credit_used`); `status` and `credits` of each
usage; `ledger` (the sum of `credits_delta`); `cached`.

| Code | Action |
|---|---|
| `reserveBillingUsage()` | `Reserve` |
| `commitBillingUsage()`: a charge; a charge that waits for a delivery; nothing to charge | `Charge`; `Defer`; `Release` |
| `releaseBillingUsage()` | `Release` |
| `recordPayment()`; `recordAdjustment()` | `Pay`; `Adjust` |
| `applyMonthlyAllowance()` | `Renew` |
| `updateTenantBillingAccount()` | `Edit` |
| the end of a billing cycle passes | `CycleEnds` |

Every operation is one transaction of one process, and each ends with
`syncTenantCredits()`, which is part of its action. What can go wrong is the
sequence, so the model is about sequences: debts in either balance, a limit below
the used credit, plans changed in the middle of a cycle, charges that differ from
what was reserved. `Total`, the `SUM` of held credits, is a constant operator with
the assumption `TotalIsASum`, so that no recursion stands in the way of proofs.

### 1.5 The content scheduler

State in the code: `facebook_content_publications`, `facebook_content_campaigns`,
the usage with the key `facebook-publication:<id>`; in a tick `dueIds` and
`claim`. In the model: `status`, `origin`, `due`, `attempts`, `owner`
(`claimed_by`), `stale` (`claimed_at` older than 15 minutes), `stored`
(`meta_post_id`), `warned` (billing warning); `usage`; `campaign` (`stopped` is
paused, completed or a draft: the scheduler treats them alike), `failures`,
`slotDue`; per process `pc`, `todo`, `late` (its tick began more than 15 minutes
ago), `cur`, `tried`, `outcome`; and outside `posts` (what Meta made). What
accidents did is history: `doubts` (how often the server did not learn of a post,
forgot it, or took the row from a live worker), `overtaken` (the latter
happened) and `stranded` (credits were held when a worker died or a statement
threw). `origin` tells posts of a campaign, by slot or by hand, from direct ones.
The status `skipped` is in the schema and written by no code.

| Code | Action |
|---|---|
| `runFacebookContentSchedulerTick()`, `materializeDueCampaigns()` | `StartTick`, `Materialize` |
| `recoverStaleClaims()` and the `SELECT` of due rows | `Select` |
| the guarded `UPDATE` of a claim | `Claim` |
| posting policy; `attempts + 1` | `DeferByPolicy`; `Begin` |
| `publishFacebookContent()`: reserve, refusal before Meta | `Reserve`, `Refuse` |
| Meta makes the post; refuses; answers; the answer is lost | `MetaPosts`; `MetaRefuses`; `Answer`; `LoseAnswer` |
| commit; commit throws; release; release throws | `Commit`; `CommitFails`; `Release`; `ReleaseFails` |
| the outcome `UPDATE`s by id; the campaign's count; the pause | `Store`, `GiveUp`; `ResetFailures`, `CountFailure`; `Pause` |
| the outcome `UPDATE` or the campaign's throws inside the `try`: the catch gives the row up | `OutcomeFails`, then `GiveUp` |
| a statement throws outside of the `try` | `Crash`; `RecoveryFails` |
| routes of publications | `Schedule`, `Retry`, `PublishNow`, `Cancel` |
| routes of campaigns and pages | `RunNow`, `EditCampaign`, `CompleteCampaign`, `UnlinkPage` |
| times come; 15 minutes pass for a claim nobody has, for a tick; process exit | `SlotComes`, `BecomeDue`; `ClaimAges`, `TickAges`; `Crash` |

Two `Workers` are an old and a new process; within one process a tick is not
started beside another. `claimed_at` is the time at which the tick began, and a
tick may publish 50 posts one after the other, so that a claim late in a batch may
be old when it is made. Whether a tick may take 15 minutes depends on the
configured timeouts; the workers in `Slow` may, each time as one of `MaxAccidents`.

`Publications` has one state per publication instead of a status, claim, attempt
and worker: `pending` and `processing` are `open` there. A post needs
a hold on credits and a server that knows of no post; outcomes follow what it
knows, and what it did not learn or has forgotten is counted. A row that was taken
from a live worker is promised less: outcomes may then be overwritten.

### 1.6 Browser notifications

State in the code: `web_push_subscriptions`, `web_push_events`,
`web_push_deliveries`; in `dispatchDelivery()` the row it read. In the model:
`holder` and `entitled` of an endpoint (its user; session, user, tenant and
preferences allow notifications); `event`; `status`, `attempts`, `due`, `expired`
of a delivery; per dispatcher `pc`, `job`, `seen`; `meant` (the user an event was
for) and `reopened` (how often an error took the outcome of a delivery back) are
history.

| Code | Action |
|---|---|
| `insertEvent()` and `seedDeliveries()` | `Enqueue` |
| `registerSubscription()`; `removeSubscription()`; expiry | `Register`; `Remove`; `Expire` |
| a session, user, tenant or preference changes | `ChangeEntitlement` |
| `claimDelivery()`, also of an expired lease | `Claim` |
| the re-check after the endpoint was validated | `Recheck` |
| `markSkipped()`, `markPermanentFailure()` | `SettleUnsent` |
| delivered; permanent failure; retry; endpoint gone | `Deliver`; `GiveUp`; `Retry`; `Gone` |
| `finalizePushEvent()`, a transaction of its own | `Finalize`, or part of the action |
| maintenance closes what was left open | `Maintain` |
| the subscription's `UPDATE` or `finalizeEvent()` throws inside the `try`: the catch writes over the outcome | `Overwrite` |
| a statement throws outside of the `try` or in its catch | `Abandon` |
| times come; a lease passes; process exit | `BecomeDue`; `LeaseExpires`; `Crash` |

`Notifications` has copies of an event instead of rows with attempts and leases:
`pending`, `processing` and `failed` are `open` there. A dispatcher at the
provider call is a copy in `asked`. Outcomes are final but for two cases: `Reopen`
counts each time that an error took one back, and `late` becomes true with the
first outlived lease, after which an outcome may be overwritten and a call
repeated.

### 1.7 Product snapshots

State in the code: `savana_integrations.status`, the event inbox
`savana_integration_events`, the tables of migration 051 (streams, pages,
memberships), and `bot_products.is_active`. In the model: `status` of a connection
(active; connected, which is paused or degraded; off), `log` (what was received
as a page), `latest`, `applied`, `stored`, `member`, `shown`. History: `early`
(pages from before the migration), `astray` (products that an owner's edit or a
crash left as they are), `lost` (products of an applied snapshot whose memberships
a crash kept from being read back), `accidents`.

| Code | Action |
|---|---|
| `receiveEvent()` with a product snapshot: `applyProductSnapshot()`, `recordSnapshotPage()`, `replaceSnapshotMembership()`, one transaction | `ReceivePage` |
| `receiveEvent()` with a sale, stock or shelf event: `upsertProduct()` | `Mention` |
| `applyLifecycle()`, `transition()`, `refreshStatus()` | `Report` |
| `provisionConnection()`; `requestOneClickConnection()` | `Provision`; `RequestConnection` |
| each of these followed by `reconcileIntegrationMembershipVisibility()`, statement by statement | `ChangeStatus` within them; `CutOff` if a crash comes between |
| `ensureSnapshotMembershipBackfill()` | `Backfill` within the actions |
| the owner edits or deletes a product | `Edit` |

The initial states are those that migration 051 may find: any events of the first
snapshots, in part or complete, products in any visibility, empty new tables.

`Storefront` has the pages that came, the version of each stream that counts and
what it offers, and the products. It has no tables and no backfill; a callback
and all its statements are one step, and a callback that is cut off is an
`Accident`. Within a callback the reading back is not a transaction: each stream
and each membership is a statement. A crash there leaves the first snapshot of one
stream applied in part, which is what `Accident` allows (`cut`) and nothing else.

## 2. What the runs check

| Run | Instance | Question | States |
|---|---|---|---|
| `outbox_two` | 2 workers, 2 tenants, 2 rows, dedupe key, purge, 1 crash | the worker that claimed a row writes its outcome; the outbox implements `OrderedDelivery` over both processes | 244 k |
| `outbox_stall` | 2 workers, 1 tenant, 3 rows, 1 crash, 1 stall | with a lease that expires under a live delivery: order, budget, `OrderedDelivery` with late arrivals (among it that outcomes are final and that delivered means received), every event settles (liveness) | 270 k |
| `sms_single` | 1 key, 2 handlers, 3 tries, 3 attempts, 2 crashes or errors, keys may be refused although known | the API implements `MeteredMessages`: what left or may leave is covered by credits unless a send gave it up; stored successes are paid; messages are charged in the end unless a page of the history throws (liveness) | 146 k |
| `sms_stall` | 2 keys, 2 handlers, 2 tries, 2 attempts, 1 crash or error, 1 stall, keys may be refused although known | one open usage per key; credits that are held or charged are found by the next repetition or reconciliation; closed usages are final | 1 707 k |
| `sms_client` | 2 keys, 1 handler, no crash | **violated**: a client that follows the documented retry rule gets one message | |
| `broadcast_faults` | 2 messages in 2 batches, 3 pricing models, any estimate, missing rates, 1 crash or billing error | the bill follows the statuses; the bill implements `PrepaidBroadcast` (no message goes out without a reservation; it is settled once, when nothing is on its way, with a fair price); no completed job is forgotten (safety and liveness) | 684 k |
| `broadcast_early` | 2 messages in 1 batch, no fault | **violated**: a deferred job is settled after the last of its statuses | |
| `billing` | 2 usages, 1 plan beside none and legacy, prices and columns up to 2 | ledger and balances, the cached credits, no overdraft by metering | 137 k |
| `content` | 2 workers, one of them slow, 1 publication, 2 attempts, at most 2 posts, threshold 1, 1 user's retry, 1 crash, error or slow tick | each further post has a doubt of its own; credits follow posts; a campaign at its limit does not stay active; the scheduler implements `Publications` (when a published row may change, a post is prepaid); every publication settles (liveness) | 634 k |
| `content_unbilled` | 1 worker, 1 publication, 2 attempts | **violated**: a published row without a warning was charged | |
| `push` | 1 event, 2 endpoints, 2 users, 2 dispatchers, 2 attempts, 1 change, 1 crash, error or stall | nobody but the entitled user is notified; budget; closed events have no work; the outbox implements `Notifications`; every event closes (liveness) | 481 k |
| `products` | 2 platforms: one stream of 2 snapshots with 2 pages, the first perhaps from before the migration, one legacy stream; 1 product; 1 callback cut off | visibility follows the applied snapshots; the newest complete one is applied; the shop implements `Storefront` (streams never go back, products are put right in the step in which a platform changes its mind) | 295 k |

Why the bounds are enough. *Outbox*: order needs two rows of one tenant; three let a
failed head, its successor and a row behind it meet; the budget boundary needs one
failed attempt before the last (2 attempts); every race needs two workers; a stale
claim needs one stall. The limit of 2 makes a round end both because nothing is left
and because the limit is reached. *SMS*: double charging needs two attempts and two
handlers; three tries are the constant of the code; a third attempt shows that a
released attempt can be followed by a fresh one and that one again by a crash; two
keys let a handler of an old key live beside a new one. `sms_stall` compares states
under the `VIEW` `BooksAndHandlers`, which leaves out `forgotten`, `passed` and
`stuck`: no property of that run mentions them, no guard reads the first, and what
reading the history does to the books a webhook may do at the same moment. (Each
step of the full model therefore has a step with the same view from any state with
that view.) Without it the instance would be several times as large. *Broadcasts*:
with one message per batch the reports of the first batch meet the sending of the
second, which is the race between the processor and the webhooks; two messages let
one be free, failed or unrecorded while the other is billed; one fault splits every
pair of transactions once. *Billing*: two usages let one be charged while the other
is held; amounts up to 2 reach every case of a deduction (plan, wallet, limit,
beyond the limit, negative balances), because its cases depend on signs and on which
of two numbers is smaller. *Content*: publications share nothing but their campaign,
whose count one publication with two attempts, a retry and edits brings to its
threshold (of 1: the count and the pause are apart whatever the limit); two workers
and one accident split every pair of statements, let any one of them throw, or let a
claim expire under its worker. Two posts are one more than should be; that each of
many has a doubt of its own is proved. *Push*: deliveries meet in their event, for
which two endpoints are enough; an endpoint changes hands once between any two
steps. *Products*: two pages may come in four orders around those of another
snapshot, and a product may be on either, on both platforms or on none; products
share no state but the pages that name them, so one is enough. That both streams
have a past, and a crash cuts their reading back in two, is left to the proofs; with
it the instance has twice as many states.

Deadlock is not checked in any run: all bounds may be used up, an outbox without
rows is meant to rest, and a broadcast ends.

### Fairness

`CallbackOutbox!Fairness`: weak fairness of each worker's dispatch (the timer is
a `setInterval`, a request has a timeout), of the retry delay and of the lease
(clocks advance). Nothing forces producers, purges or crashes.
`SmsRequests!Fairness`: weak fairness of each handler's steps; strong fairness of
`ReadHistory`, because the history timer of `server.js:332-371` goes on reading
from its cursor and the event loop serves its callback in turn, while a handler
inside a stretch disables it for an instant. It moves forward only: a message is
read once, and if a page throws, nothing after it is ever read (`stuck`).
`AcceptedIsCharged` holds with that exception and does not rest on webhooks,
which nothing forces. Nothing forces the client to return, the gateway to decide,
or the account to become healthy either.

`BroadcastBilling!Fairness`: Meta repeats a final report until it is acknowledged;
the route relies on that when it answers 500 (`routes/webhooks.js:1266`) or not at
all. This is an assumption about Meta, not about the code. A report whose billing
error was swallowed counts as acknowledged and is not repeated. The processor needs
no fairness, because `EveryJobSettles` speaks of completed jobs.

`ContentScheduler!Fairness`: weak fairness of each scheduler (a timer, and calls
with a timeout) and of the passing of time (`BecomeDue`, `ClaimAges`), but not of
`TickAges`. `BeginRow` is strongly fair: the posting policy defers a publication to
an allowed time and not for ever. That is an assumption about the policy's rules,
which the model reduces to allow or defer. Nothing forces users, campaign slots or
crashes.

`PushDeliveries!Fairness`: weak fairness of each dispatcher, of retry delays and
leases, and of maintenance (timers in `server.js`); strong fairness of a delivery
being claimed, because due rows are taken in the order of their due time, so that
each comes first in the end. `BillingLedger` and `ProductSnapshots` state no
liveness: each of their operations is a call from outside.

## 3. What is proved

All theorems hold for every value of the constants that satisfies the named
assumptions `OutboxConstants`, `SmsConstants`, `BroadcastConstants`,
`ContentConstants`, `PushConstants`, `SnapshotConstants`, and `BillingConstants`
with `TotalIsASum` (what a sum over a finite set of usages is). Those marked *
assume that leases outlive live work (`MaxStalls = 0`). The others hold with any
number of outlived leases, crashes and repeated answers.

Six of the seven components are proved to implement an abstract specification.
Each of these proofs goes the same way: lemmas say what the mapped variables are
and that the initial states agree, one lemma per group of actions shows that a
step maps to a step of the abstract specification or to none, and the theorem
joins them with the invariants that the lemmas use.

`CallbackOutboxProofs`: `TypeCorrect`, `OutcomesAreFinal`, `OrderIsKept`,
`DeliveredMeansReceived`, `NeverGivenUpEarly`, `AttemptsAreBounded`,
`OutcomeIsOwned`*, `AtMostOneInFlight`*, `PromiseIsKept`.

- `Shape` = `TypeOK` and four facts about rows and memory: rows are used in
  order and have a tenant, a worker holds only rows that exist, and it remembers
  no later attempt than the row has had. It is inductive alone.
- `Ordered`: whatever was selected, claimed, received or has left `pending` is
  preceded, within its tenant, by settled rows only. `InOrder` alone is not
  inductive, because it says nothing of rows that a worker has selected and not
  yet claimed; the `SELECT` and the `UPDATE` are two statements.
- `Outcomes` = `DeliveredWasReceived` and `GivenUpAfterBudget`; the second needs
  `AttemptsRemembered` from `Shape`, since the code compares the attempts it read
  back, not the row's.
- `Owned`: a held row is in `processing`, is not expired, carries the attempt the
  worker remembers, and is held by one worker. With `Ordered` it gives
  `OneInFlightPerTenant`.
- The refinement uses `Timely`, which is `MaxStalls = 0 => Owned`: a request that
  arrives belongs to the head of its tenant (`ReachedIsHead`) or, if leases may be
  outlived, to an event that was given up (`OpenMayArrive`). Outcomes are guarded
  by `processing`, so that `Ordered` alone makes the row that gets one the head;
  no ownership is needed for it.
- `Budget` is what `AttemptsAreBounded` needs, since `attempts` alone says nothing
  of workers that will still come back with an old answer. A worker is stale when
  the row has moved on to another attempt; each can put the row back once
  (outcomes are guarded by the status only) and so let one more claim
  happen. Attempts over the maximum, plus stale workers, plus one if the next claim
  would exceed the maximum or make another worker stale, are at most the crashes
  and stalls there were. Claims and answers keep the sum; only a fault raises it.

`SmsRequestsProofs`: `TypeCorrect`, `NeverTwoOpenUsages`, `HeldCreditsAreFound`,
`ClosedUsagesAreFinal`, `StoredSuccessesAreFinal`, `CreditsCoverMessages`*,
`StoredSuccessesArePaid`*, `MeteringIsKept`*.

- `Books` = `TypeOK`, one handler between transactions (`OneRunning`),
  `billing_usage_id` is NULL or the current attempt (`RowsCountAttempts`), only
  the current attempt's usage is open (`OpenIsCurrent`), and between `claim()` and
  `attachBilling()` a handler works on the current attempt (`ClaimIsCurrent`).
  `OneOpenUsage` is not inductive without the last two: the second reservation
  would be made by a handler that believes the attempt to be fresh. The same facts
  give `OpenUsageIsFound`: no reservation falls out of reach, whatever step failed.
- `Paid`: one live handler per key (`Exclusive`, kept by `Leased`), a known
  message has an open usage or is forgotten (`KnownIsOpen`), charges and stored
  successes stand for messages that left, and what a handler may assume at each
  place (`HandlersHold`): one that is about to release knows that the message did
  not leave, or has forgotten it.
- `MeteringIsKept` maps the steps that give a message up to `Forget`
  (`ForgetsIsForget`); a message is given up while its credits are held or charged,
  and nothing else lets one go uncovered.

`BroadcastBillingProofs`: `TypeCorrect`, `SettlementsAreFinal`,
`SendingIsAlwaysCovered`, `BillFollowsStatuses`, `NoJobIsForgotten`, `BillIsKept`.

- `Phase` says what holds at each place of the processor: until the last batch is
  counted the reservation is held and not attached to the job, and afterwards
  nothing is on its way and `sentCount` is the number of sent messages.
  `SendingIsCovered` alone is not inductive: that an early report cannot settle
  the job rests on `attached`, which it does not mention.
- `Rows` relates each cost row to what Meta made of the message: a positive
  amount belongs to a billed one, a linked row to a sent one, and a row that is
  `not_charged` although Meta bills the message is in `presumed`.
- `ChargeFollowsStatuses` follows from both. `Due` counts at least `sentCount`
  settled rows of the job; linked rows belong to sent messages; so every sent
  message has a settled row, and the price counts exactly the billed ones.
- `Remembered`: if a job that was handed over meets the conditions of `Due` and is
  not settled, a report on one of its messages is still to be handled.
  `NothingForgotten` speaks of the end only; the invariant is what each report
  keeps, because a report on a linked message tries the settlement again and one
  on an unlinked message cannot complete the conditions (`DueIsComplete`).
- `BillIsKept` adds `Tried` (a message is to be sent only before the job is handed
  over, and a linked row has a status) to `Phase` and `Rows`. `FairPrice` bounds
  what the settlement asks for on both sides by the billed messages and the
  presumed ones. Settlement by the processor and by a report are the same step of
  `PrepaidBroadcast` (`CommitIsCharge`, `TryIsCharge`).

`BillingLedgerProofs`: `TypeCorrect`, `LedgerNeverPromisesMore`,
`EntriesAreExact`, `CacheFollowsAccount`, `MeteringNeverOverdraws`. The bound
`MaxCredits` is not used: the theorems hold for columns of any size.

- `Shape` = `TypeOK` without the cached credits, which every operation derives
  from the rest. It is inductive alone.
- `DeductIsFair` is the arithmetic that the others rest on: what a charge takes
  from plan, wallet and limit together is never more than the charge, and equals
  it when the account is worth it and no balance is negative. The order of the
  three columns and the negative cases are dealt with here once.
- `EntryOfCharge` and `EntryOfOthers` compare the entry with the change of the
  columns, for a charge and for every other operation. `LedgerBelowBalance` is
  their sum over a behaviour, `EntriesMatchBalance` is the exact case of one step.
- `ReservedIsSum` says how one usage changes the credits held, from
  `TotalIsASum`; with it `MeteringStaysCovered` follows for a reservation, a
  charge and a release, each by a lemma of its own.

`ContentSchedulerProofs`: `TypeCorrect`, `PublishedStaysPublished`,
`SecondPostsNeedDoubt`, `CreditsFollowPosts`, `FailuresPause`, `PublicationsAreKept`.

- Every step is read as what it does to one row (`RowStep`: nothing, a user's move,
  a recovery, a claim, a worker's step), and each invariant below is a statement
  about one row.
- `Claims` adds `Owned`, `Alone`, `Left` and `Marked` to the types: unless the row was
  taken from a live worker, whoever has it in hands has its claim, or has just
  published it for a campaign and may yet write 'failed' over it; nobody else has it
  in hands. `PublishedIsFinal` rests on it, since the code writes outcomes by id only.
- `Accounted`: of the posts of such a row all are in doubt but the known one, if
  there is one. Rows that were taken from live workers are excepted, which
  `SecondPostNeedsDoubt` is not: two workers may then make posts side by side.
- `Counted` is the argument for all rows: posts, plus workers that may still go on to
  a post, plus one if a worker may take the row, are at most one more than the
  doubts. Losing a post, or the row, raises both sides at once.
- `Billed` says why credits are held at each place of the publisher (`Backed`), and
  `Metered` how far the usage is there. The case that needs care is the stored
  outcome, which overwrites an earlier warning; `Marked` shows that there is none.
- `PublicationsAreKept` joins all of these (`Kept`). That only a known post is charged,
  and only an unknown one given up, is the count of `Accounted` read at the places of
  the publisher.
- `ActiveBelowThreshold` is inductive.

`PushDeliveriesProofs`: `TypeCorrect`, `OnlyTheEntitledAreNotified`,
`ClosedEventsStayQuiet`, `AttemptsAreBounded`, `NotificationsAreKept`.

- `Addressed`: a delivery row belongs to a subscription that still has the holder
  the row was made for. The re-check before the provider call asks for rights only
  and not for the holder; that it is enough rests on the rows of a subscription
  going away (`ON DELETE CASCADE`) whenever the endpoint changes hands.
- `Quiet` adds `Owned` to `ClosedEventHasNoWork`: as long as no lease has been
  outlived, a row somebody works on is `processing` or deleted, is not expired and
  carries the attempt its dispatcher remembers; and a row whose outcome is written and
  whose dispatcher is still in the `try` (`Noted`) is nobody else's. Without it a late
  answer could put a row of a closed event back to `failed`; with it only the error
  that `reopened` counts can.
- `Budget` is the argument of the callback outbox for the same shape of code: a
  lease, attempts, and answers written without asking who holds the row.
- `NotificationsAreKept` uses `Kempt` = `Quiet`, `Addressed` and `Begun` (who is
  about to finalise an event has one). `WriteIsSettle`: an outcome written by id
  settles an open copy, or a lease has been outlived and it overwrites one; a
  deleted row gets none. `OverwriteIsReopen`: an error after an outcome is a `Reopen`,
  or finds no row. `RecheckIsAsk`: the rights that the re-check reads are
  those of the user the copy was meant for. `FinalizedIsClose`: whoever finalises
  an event, the result is that of all its copies at that moment.

`ProductSnapshotsProofs`: `TypeCorrect`, `VisibilityFollowsSnapshots`,
`NewestCounts`, `StreamsMoveForward`, `StorefrontIsKept`.

- `StreamOK` says what the row of a stream, its recorded pages and its memberships
  are worth given the log: the applied snapshot is complete and the memberships are
  what it merges to, but for the products in `lost`; the recorded pages are the
  pages of the latest snapshot that came after the migration; and once all of those
  are there, latest and applied agree. Neither property about the order of snapshots
  is inductive without the recorded pages.
- `StreamOK` has a set of pages of which nothing is asked. A page is followed
  through one event with it: when it is stored in the log it is in that set
  (`ArrivalKeepsTheRows`), the rows are read back with it there
  (`BackfillMakesTheRow`), and working it into its stream takes it out again
  (`PageMakesTheRow`). In the first state the set is what came before the migration.
- A snapshot names a product once (`LogOK`), so that what a snapshot merges to is
  what the product's page says, and does not change when pages of other snapshots
  come (`MergedDependsOnItsPages`).
- `ShownRight` relates the shop to the memberships. What is to be proved for each
  action is that a product outside its keys is listed by the same connected
  platforms as before (`ReconciledIsRight`).
- That a nonempty set of snapshot numbers has a largest one (`LargestExists`) comes
  from the well-foundedness of strict inclusion among finite sets.
- `StorefrontIsKept`: the log only grows (`Grows`) and streams go forward
  (`Forward`, part of what each action is proved to keep), so that every change of
  what a stream offers is an `Advance` to a snapshot that is whole, and what was
  merged is what its pages list (`CompleteIsWhole`); a page never loses anything
  (`NothingLost`), and a crash only of a stream that had nothing applied
  (`WholeOrCut`). `PutRight` is what an action has to show
  of the products it names; page and status lemmas (`PagePutsRight`,
  `StatusPutsRight`) serve `ShownFollowsSnapshots` and the refinement alike.

Only model-checked: `EveryEventSettles`, `AcceptedIsCharged`, `EveryJobSettles`,
`EveryPublicationSettles` and `EveryEventCloses` (liveness under fairness is out of
the prover's reach). The violated properties are refuted by TLC.
`AcceptedIsCovered`, `OneInFlightPerTenant`, `GivenUpAfterBudget`,
`StoredSuccessIsFinal`, `SendingIsCovered`, `DeliveredWasReceived`, `SettledIsFinal`
(of rows and of bills), `PublishedIsFinal` and `AppliedMovesForward` are proved and
in no run: they follow from, or stand beside, properties that the runs do check.

## 4. Findings

1. *A documented retry can send twice* (`sms_client`, `OneMessage`).
   `docs/SMS_GATEWAY.md:108-110` tells a client to repeat an uncertain request
   with the same key and to take a new key after a certain error. After three
   lost calls `send()` also marks the account as failed
   (`services/smsGateway.js:1058`), so the repetition is refused with
   `SMS_ACCOUNT_INACTIVE` and without `retry_same_request`; the client drops its
   key while the first message is undecided.
2. *A status that overtakes its send makes the message free* (`broadcast_early`,
   `SettledAfterStatuses`). The cost row made for an unknown message id is
   guessed to be a free text (`services/billingMetaMessageCosts.js:165-174`) and
   keeps `not_charged` when the broadcast records the message (91-94); the job is
   settled without, and before, the delivery status that
   `local_pricing_deferred_until: 'all_broadcast_statuses'` waits for.
   `ChargeFollowsStatuses` says precisely what remains true: only messages in
   `presumed` can be missing from the bill.
3. *A publication that succeeds at its second attempt is free*
   (`content_unbilled`, `PublishedIsCharged`). Every attempt reserves under the
   same key (`services/facebookContentPublisher.js:79`); the usage that the first
   attempt released is returned by `reserve()` whatever its status, and `commit()`
   leaves it as it is. `docs/FACEBOOK_CONTENT_STUDIO.md:268-270` says that a
   successful response commits billing.

Observed while modelling; facts about the code without a run of their own:

- *A certain refusal hides an uncertain try.* `send()` judges by the error of its
  last try (`services/smsGateway.js:1046`). If an earlier try was lost after the
  gateway took the message, and the last one is refused for another reason (a rate
  limit, a rotated key, an address that is refused, 221-237 and 288), or
  `markError()` throws (1058), the reservation is released, and the message goes
  out unpaid. If a repetition then begins an attempt and cannot reserve for it, the
  next webhook finds a row without a usage and stores a success without a charge
  (`services/smsApiRequests.js:263-270`). `forgotten` names these messages;
  `ImplementsMetering` and `StoredSuccessIsPaid` show that there are no others.
- *A published row can become failed, and be posted again.* The `try` around
  `publish()` also covers the statement for the campaign
  (`services/facebookContentScheduler.js:471-493`). If that throws, the catch
  writes 'failed' over the row by id, leaves `meta_post_id`, and a user's retry
  posts again; likewise if the outcome `UPDATE` itself throws.
- *A claim may be born old.* `claimed_at` is the start of the tick (392, 424, 533).
  In a batch that takes longer than 15 minutes (50 posts, each with its timeout) a
  second process recovers rows that the first is working on. Both then write by id,
  while the count of attempts asks for the claim (466-470): two workers may take
  the row from each other again and again without an attempt being counted, which
  is why `EveryPublicationSettles` excepts such a row.
- *A release that throws leaves the credits held* under a failed row without a
  warning (`services/facebookContentPublisher.js:111`, 119), and makes a transport
  error final.
- *A delivered notification can be sent again without an outlived lease.* The `try`
  of `dispatchDelivery()` covers the statements after `status = 'delivered'`
  (`services/webPush.js:941-946`); if one throws, the catch writes 'failed' over it.
  If another process has finalised the event in between, it is closed although its
  delivery is due.
- *A backfill can be cut in the middle.* In lifecycle callbacks each stream and each
  membership is a statement of its own (`services/savanaIntegration.js:2022-2048`), and
  the rows are not read back again once a stream exists (1912). After a crash
  between them an applied snapshot misses memberships until the stream's next
  snapshot, and a later fragment hides a product that the snapshot lists.
- *The base charge of a deferred broadcast* is that of all recipients, failed ones
  included (`services/billingMetaStatus.js:82-86`), while a broadcast that is
  charged at once pays for the successful ones
  (`server/test/tenantBroadcasts.test.js:184`).
- *A finished campaign may become active again.* The auto-pause is written by id
  only (`services/facebookContentScheduler.js:383-387`), so a completed campaign
  whose last publications fail is 'paused', and toggling it makes it active,
  although the route refuses completed campaigns
  (`routes/facebookContentCampaigns.js:333`).
- *A page fragment may hide a product.* The comment at
  `services/savanaIntegration.js:2347-2349` says that fragments cannot activate or
  hide products before their membership is durable; a product that a sale has
  made, and that no membership lists yet, is shown before a fragment names it and
  hidden after. `ShownFollowsSnapshots` states the rule that does hold.
- *A snapshot cut in two by migration 051* stays unapplied: the backfill restores
  the stream and not its pages. The next snapshot repairs it.
- *A legacy snapshot is applied whatever its date*, so `AppliedMovesForward`
  speaks of paged streams.
- *The message history cannot restore every missed webhook*, as
  `docs/SMS_GATEWAY.md:80-81` has it. The incremental pages ask for ids after the
  cursor (`services/smsGateway.js:1847-1870`), so the status of a message that was
  already read is not read again; and one outgoing message whose recipient is no
  phone number makes `storeMessage()` throw (1264), which rolls back its page and leaves
  the cursor before it at every attempt. `AcceptedIsCharged` names the second case
  (`stuck`): a message behind such a page whose answer was lost is never charged.
- *A push delivery whose lease expired is claimed again whatever its attempts*:
  the budget holds but for one more attempt per crash, error or expired lease
  (`AttemptsWithinBudget` says how many).

## 5. Inventory

What the program consists of, what each part keeps, how the parts meet, what is
hard about them and what makes them correct.

**Tenant callback outbox** (`services/tenantCallbackOutbox.js`). Keeps
`tenant_api_callback_outbox`. `enqueue` is called by the webhook intake, the SMS
gateway service and message routes; `dispatch` by a timer; `diagnostics` by the
operations page. Hard: two processes on one table, leases, lost answers,
crashes. Correct: per tenant in order, at least once, within a budget. *Modelled.*

**SMS API requests** (`routes/api/v1Sms.js`, `services/smsApiRequests.js`). Keeps
`sms_api_requests`. Calls the gateway service and the billing service; is
reconciled from webhooks and history pages. Hard: idempotent retries of an
uncertain send, crashes between five transactions, a second charge. Correct: one
open reservation per key, what left is charged, a stored success is final.
*Modelled.*

**SMS gateway service** (`services/smsGateway.js`). Keeps `sms_gateway_accounts`,
`sms_messages`, `sms_ussd_sessions`, history cursors. Operations: provisioning,
`send`, `acceptWebhook`, `syncHistory`, `health`, `markError`. Hard: messages
arrive by three paths in any order (`mergeSmsStatus`), cursors and crashes,
credentials rotated under a running request. Correct: a status never moves back,
no message is skipped. *Partly: send, account status and the forward cursor.*

**Billing** (`services/billing*.js`). Keeps `tenant_billing_accounts`,
`billing_usage_events`, `billing_ledger`, and `tenants.credits` as a
cache. Operations: `reserve`, `commit`, `release`, `recordPayment`,
`recordAdjustment`, `applyMonthlyAllowance`, account updates; called by every
route that costs credits. Each is one transaction; hard are the sequences:
charges after a cycle change, a limit lowered below what is used, negative
adjustments. Correct: no spending beyond balance and limit, ledger and balances
agree, a settled usage is final. *Modelled.*

**Deferred Meta costs** (`services/billingMeta*.js`). Keeps
`billing_meta_message_costs`. A message is priced by what Meta's status webhooks say, so
a charge waits for events that come late, twice, out of order or never. Correct:
a job is settled once, after all its messages, with the sum of their prices.
*Partly: the rows and the settlement of a broadcast; the deferred charge of a
single message is a step of `BillingLedger`.*

**WhatsApp broadcasts** (`routes/tenantBroadcasts.js`,
`services/broadcastProcessor.js`). Keep `broadcast_jobs`; one reservation covers
many recipients; the job runs in memory after the response. Hard: partial
success, an exception or a crash in the middle. Correct: sent messages are
charged, unsent ones are not, a completed job is settled in the end. *Modelled.*

**Facebook content scheduler** (`services/facebookContentScheduler.js`). Keeps
campaigns and publications with a claim. Hard: a claim is recovered by age while
its publisher may still run; a post may exist although its id was not stored; any
of a handful of statements around the post may throw.
Correct: a second post only in doubt, credits for posts alone, campaigns pause
after repeated failures. *Partly: everything but the posting policy's rules, the
content library and AI texts.*

**Browser push** (`services/webPush.js`). Keeps subscriptions, events,
deliveries with leases, and alert edges. Hard: lease expiry, subscriptions that
change between validation and use, crash loops. Correct: bounded attempts, no
delivery to anybody but the entitled user, every event closes. *Partly: alert
states, the device limit and retention of closed events are left out.*

**Savana integration** (`services/savanaIntegration.js`). Keeps connections, an
outbox, an event inbox, product snapshots and their memberships, and shows or
hides the shop's products. Hard: pages of snapshots in any order, several
platforms that list one product, a migration among old events, callbacks that are
not one transaction; in the outbox, a manual retry beside the timer. Correct:
products are shown as the newest complete snapshots say, no event is applied
twice. *Partly: snapshots, visibility and connection status.*

**Messaging routes, webhook intake, auto responder, Messenger bot.** Keep
contacts, messages, rules, bot sessions. Each request is handled on its own with
the reserve/commit/release pattern; the intake stores and forwards.

**Authentication and tenants; outbound HTTP and encryption; migrations, backup
and retention; server-sent events, metrics and health; web client.** Supporting
parts; state is per request, or rebuilt at start, or best effort by design.

How they interact. All parts share one SQLite database and one event loop:
a statement or a transaction is atomic, and code between two `await`s runs
undisturbed, so what interleaves are handlers and timers at their `await`s, old
and new processes during a restart, and the outside world. Calls go from routes
to services to billing; events come back by webhook; the two outboxes carry
events out. `SmsRequests` composes route, store, gateway service and billing for
that reason, and `BroadcastBilling` processor, billing and webhooks; `CallbackOutbox`
needs only its producers' `enqueue`.

## 6. Plan

In order of importance; 1 to 7 are done.

1. `CallbackOutbox` implements `OrderedDelivery`, with outlived leases as well;
   proofs of order, finality, ownership and refinement.
2. `SmsRequests` implements `MeteredMessages`; proofs of coverage, one open usage
   and refinement.
3. `BroadcastBilling` implements `PrepaidBroadcast`: one job and its bill; proofs
   of finality, coverage, the bill and refinement.
4. `BillingLedger`: the account with plan, wallet, limit and cycle; proofs of
   ledger, cache and coverage.
5. `ContentScheduler` implements `Publications`: claims, recovery, publisher, routes
   and auto-pause; proofs of finality, posts, credits, pauses and refinement.
6. `PushDeliveries` implements `Notifications`: leases, the re-check, closing of
   events; proofs of recipients, closing, attempts and refinement.
7. `ProductSnapshots` implements `Storefront`: pages, streams, memberships and
   visibility; proofs of order, visibility and refinement.
8. `SmsHistory` and `SmsStatus`: pages, both cursors, and the merge order of
   message states.
9. `IntegrationOutbox`: attempts and manual retry.

## 7. What is not modelled, and why

- *Liveness and `ENABLED`* are checked by TLC only: the prover has no rule for
  fairness. *Induction over data* and `RECURSIVE` operators are out of its reach
  as well; no module here declares one.
- *Retention of `sms_api_requests`* (90 days): it deletes finished rows only, long
  after every lease, but a key used again after it is a new key.
- *Provisioning, credential rotation, USSD*: sequences of calls to one remote
  service made by an administrator; planned where they touch message state.
- *A tenant whose broadcasts are free* has no reservation: every billing step of
  `BroadcastBilling` is skipped (`billingUsage.js:123-132`).
- *Recovery of broadcasts*: after a crash or an error in the only report that
  would settle it, a job keeps its credits reserved; the code has no sweep.
- *Invoice reconciliation* (`invoice_reconciled`): an administrator's import long
  after settlement.
- *Central billing* (`services/savanaIntegration.js:784-932`): where the central
  platform owns a subscription it writes balances itself; `BillingLedger` is about
  accounts that this service owns. Invoices have no effect on balances.
- *Rules of the posting policy* (quiet hours, daily limits, repetition): reduced
  to allow or defer.
- *Push*: operational alert states, the device limit and the retention of closed
  events. Removing a subscription finalises its closed events again; the verdict
  of such an event may change, which `ClosedEventHasNoWork` does not mind. That
  property is about leases that outlive their dispatch (`stalls = 0`).
- *Savana*: the outbox with manual retry (attempts are written from the value its
  `SELECT` read, so two overlapping dispatches can lose a count; nothing promises
  an exact one), service requests, entitlements, undated snapshots, details of
  products (a sale or stock event overwrites newer details, since
  `source_updated_at` is not compared) and two projection keys that share a SKU.
- *SMS message states* (`services/smsGateway.js:1322`) and the history's backward
  cursor: in the plan. The forward cursor is modelled one message at a time.
- *Prices and rate cards*: data transformation; a model would restate the tables.
- *Message and contact storage, flow interpretation, HTML and CSV*: text.
- *DNS pinning, redirects, encryption, password and token checks*: only the
  outcomes that the modelled code tells apart are kept.
- *Migrations and backup*: they run alone at start-up or on a copy.
- *Server-sent events and metrics*: best effort; nothing is promised about loss.
- *Clock values*: reduced to the comparisons the code makes, as the module
  comments say; a clock that moves backwards is not considered.
