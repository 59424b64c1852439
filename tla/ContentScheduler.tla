-------------------------- MODULE ContentScheduler --------------------------
(***************************************************************************)
(* Scheduled Facebook posts: server/services/facebookContentScheduler.js   *)
(* and facebookContentPublisher.js, the routes that edit publications and  *)
(* campaigns, and Meta behind them.                                        *)
(*                                                                         *)
(* A worker is the scheduler of one server process; there are two while an *)
(* old and a new process overlap.  One action is one SQLite transaction or *)
(* the answer of Meta; a crash may come between any two, any statement may *)
(* throw, and a tick may take longer than a claim lasts.  There is one     *)
(* campaign of one page.  Texts, time zones and the rules of the posting   *)
(* policy are left out: the policy allows a post or defers it.             *)
(***************************************************************************)
EXTENDS Naturals, FiniteSets

CONSTANTS
    Workers,        \* scheduler processes
    Slow,           \* those whose tick may take longer than a claim lasts
    None,           \* claimed_by of a row nobody works on
    MaxRows,        \* bound: publications
    MaxAttempts,    \* max_attempts of a publication: 3
    Threshold,      \* auto_pause_failures: 1..20
    MaxRetries,     \* bound: publications sent back by a user
    MaxPosts,       \* bound: posts Meta makes of a publication
    MaxAccidents    \* bound: crashes, failing statements and slow ticks

ASSUME ContentConstants ==
    /\ IsFiniteSet(Workers)
    /\ Slow \subseteq Workers
    /\ None \notin Workers
    /\ {MaxRows, MaxAttempts, Threshold} \subseteq Nat \ {0}
    /\ {MaxRetries, MaxPosts, MaxAccidents} \subseteq Nat

Rows == 1..MaxRows

VARIABLES
    \* table facebook_content_publications
    status,    \* status; "none" before the row exists
    origin,    \* made by a user ("direct"), or for the campaign: campaign_id
    due,       \* scheduled_for and next_attempt_at have come
    attempts,  \* attempts
    owner,     \* claimed_by
    stale,     \* claimed_at is older than 15 minutes
    stored,    \* meta_post_id is set
    warned,    \* error_message holds a billing warning
    \* table billing_usage_events: key facebook-publication:<id>
    usage,
    \* table facebook_content_campaigns
    campaign,  \* status: "active", or "stopped" for paused and completed
    failures,  \* consecutive_failures, counted up to the threshold
    slotDue,   \* next_run_at of the active campaign has come
    \* memory of the workers
    pc,        \* where a worker stands in its tick
    todo,      \* dueIds that are left
    late,      \* the tick, and with it `now`, is older than 15 minutes
    cur,       \* claim.id
    tried,     \* claim.attempts
    outcome,   \* how publish() ends: error.retryable, or billing_warning
    \* the outside world
    posts,     \* posts Meta made of a publication
    retries, accidents,
    \* what accidents did to a publication
    doubts,    \* times the server did not learn of a post, forgot it, or took
               \* the row from a worker that was still at it
    overtaken, \* the row was taken from such a worker
    stranded   \* credits were left held by an accident

table == <<status, origin, due, attempts, owner, stale, stored, warned>>
claim == <<cur, tried, outcome>>
memory == <<pc, todo, late, claim>>
campaigns == <<campaign, failures, slotDue>>
history == <<doubts, overtaken, stranded>>
world == <<posts, retries, accidents, history>>
vars == <<table, usage, campaigns, memory, world>>

Places == {"idle", "materialize", "select", "next", "check", "reserve", "call",
           "taken", "commit", "store", "reset", "release", "giveup", "count",
           "pause"}

TypeOK ==
    /\ status \in [Rows -> {"none", "pending", "processing", "published",
                            "failed", "cancelled"}]
    /\ origin \in [Rows -> {"direct", "campaign"}]
    /\ due \in [Rows -> BOOLEAN]
    /\ attempts \in [Rows -> Nat]
    /\ owner \in [Rows -> Workers \cup {None}]
    /\ stale \in [Rows -> BOOLEAN]
    /\ stored \in [Rows -> BOOLEAN]
    /\ warned \in [Rows -> BOOLEAN]
    /\ usage \in [Rows -> {"none", "reserved", "committed", "released"}]
    /\ campaign \in {"active", "stopped"}
    /\ failures \in 0..Threshold
    /\ slotDue \in BOOLEAN
    /\ pc \in [Workers -> Places]
    /\ todo \in [Workers -> SUBSET Rows]
    /\ late \in [Workers -> BOOLEAN]
    /\ cur \in [Workers -> Rows]
    /\ tried \in [Workers -> Nat]
    /\ outcome \in [Workers -> {"none", "retry", "final", "warned"}]
    /\ posts \in [Rows -> Nat]
    /\ retries \in 0..MaxRetries
    /\ accidents \in 0..MaxAccidents
    /\ doubts \in [Rows -> Nat]
    /\ overtaken \in [Rows -> BOOLEAN]
    /\ stranded \in [Rows -> BOOLEAN]

Init ==
    /\ status = [i \in Rows |-> "none"]
    /\ origin = [i \in Rows |-> "direct"]
    /\ due = [i \in Rows |-> FALSE]
    /\ attempts = [i \in Rows |-> 0]
    /\ owner = [i \in Rows |-> None]
    /\ stale = [i \in Rows |-> FALSE]
    /\ stored = [i \in Rows |-> FALSE]
    /\ warned = [i \in Rows |-> FALSE]
    /\ usage = [i \in Rows |-> "none"]
    /\ campaign = "active"
    /\ failures = 0
    /\ slotDue = FALSE
    /\ pc = [w \in Workers |-> "idle"]
    /\ todo = [w \in Workers |-> {}]
    /\ late = [w \in Workers |-> FALSE]
    /\ cur = [w \in Workers |-> 1]
    /\ tried = [w \in Workers |-> 0]
    /\ outcome = [w \in Workers |-> "none"]
    /\ posts = [i \in Rows |-> 0]
    /\ retries = 0
    /\ accidents = 0
    /\ doubts = [i \in Rows |-> 0]
    /\ overtaken = [i \in Rows |-> FALSE]
    /\ stranded = [i \in Rows |-> FALSE]

Goto(w, place) == pc' = [pc EXCEPT ![w] = place]

\* On with the next row: `claim` belongs to one turn of the loop.
NextRow(w) ==
    /\ Goto(w, "next")
    /\ cur' = [cur EXCEPT ![w] = 1]
    /\ tried' = [tried EXCEPT ![w] = 0]
    /\ outcome' = [outcome EXCEPT ![w] = "none"]

\* A process that waits for its timer or for Meta can run a route.
Yielded == \E w \in Workers : pc[w] \in {"idle", "call", "taken"}

\* A publication is in the hands of a worker.
Busy == Places \ {"idle", "materialize", "select", "next"}
At(w, i) == pc[w] \in Busy /\ cur[w] = i
Working(i) == \E w \in Workers : At(w, i)

\* A worker has the claim of a row in its hands.
Claimed(i) == \E w \in Workers : owner[i] = w /\ At(w, i)

\* The accidents of a publication.
Doubt(i) == doubts' = [doubts EXCEPT ![i] = @ + 1]
Strand(i) == stranded' = [stranded EXCEPT ![i] = @ \/ usage[i] = "reserved"]

Accident ==
    /\ accidents < MaxAccidents
    /\ accidents' = accidents + 1

\* Rows are used in order of their ids.
Free(i) == status[i] = "none" /\ \A j \in Rows : j < i => status[j] # "none"

Insert(i, from, isDue) ==
    /\ Free(i)
    /\ status' = [status EXCEPT ![i] = "pending"]
    /\ origin' = [origin EXCEPT ![i] = from]
    /\ due' = [due EXCEPT ![i] = isDue]
    /\ UNCHANGED <<attempts, owner, stale, stored, warned>>

----------------------------------------------------------------------------
(* A tick: due campaigns, stale claims, due publications *)

CampaignDue == slotDue

StartTick(w) ==
    /\ pc[w] = "idle"
    /\ Goto(w, IF CampaignDue THEN "materialize" ELSE "select")
    /\ UNCHANGED <<table, usage, campaigns, todo, late, claim, world>>

\* The transaction looks at the campaign again.
StillDue == CampaignDue

\* A slot makes a publication, or passes for lack of content, for the daily
\* limit or by the posting policy.
Materialize(w) ==
    /\ pc[w] = "materialize"
    /\ \/ /\ StillDue
          /\ slotDue' = FALSE
          /\ \/ \E i \in Rows : Insert(i, "campaign", TRUE)
             \/ UNCHANGED table
       \/ /\ ~StillDue
          /\ UNCHANGED <<table, slotDue>>
    /\ Goto(w, "select")
    /\ UNCHANGED <<usage, campaign, failures, todo, late, claim, world>>

\* Mutant of Recoverable: claims of dead workers stay.
Recoverable_Never(i) == FALSE

Recoverable(i) == status[i] = "processing" /\ stale[i]

\* recoverStaleClaims(): a row with a post is published, any other waits again.
\* The age of a claim tells nothing of its worker.
RecoverRows(S) ==
    /\ status' = [i \in Rows |-> IF i \notin S THEN status[i]
                                ELSE IF stored[i] THEN "published"
                                ELSE "pending"]
    /\ owner' = [i \in Rows |-> IF i \in S THEN None ELSE owner[i]]
    /\ stale' = [i \in Rows |-> stale[i] /\ i \notin S]
    /\ due' = [i \in Rows |-> due[i] \/ (i \in S /\ ~stored[i])]
    /\ doubts' = [i \in Rows |-> IF i \in S /\ Claimed(i) THEN doubts[i] + 1
                                ELSE doubts[i]]
    /\ overtaken' = [i \in Rows |-> overtaken[i] \/ (i \in S /\ Claimed(i))]

\* The recovery and the SELECT of due publications: one stretch of statements,
\* each about rows of its own.
Select(w) ==
    /\ pc[w] = "select"
    /\ RecoverRows({i \in Rows : Recoverable(i)})
    /\ todo' = [todo EXCEPT ![w] =
                   {i \in Rows : status'[i] = "pending" /\ due'[i]}]
    /\ Goto(w, "next")
    /\ UNCHANGED <<origin, attempts, stored, warned, usage, campaigns, late,
                   claim, posts, retries, accidents, stranded>>

EndTick(w) ==
    /\ pc[w] = "next"
    /\ todo[w] = {}
    /\ Goto(w, "idle")
    /\ late' = [late EXCEPT ![w] = FALSE]
    /\ UNCHANGED <<table, usage, campaigns, todo, claim, world>>

\* Mutant of Claimable: the ids selected at the start of the tick are trusted.
Claimable_Trusted(i) == TRUE

Claimable(i) == status[i] = "pending" /\ due[i]

\* The rows of a tick are taken by scheduled_for, in an order not modelled.
\* claimed_at is the time at which the tick began.
Claim(w) ==
    /\ pc[w] = "next"
    /\ \E i \in todo[w] :
        /\ todo' = [todo EXCEPT ![w] = @ \ {i}]
        /\ \/ /\ Claimable(i)
              /\ status' = [status EXCEPT ![i] = "processing"]
              /\ owner' = [owner EXCEPT ![i] = w]
              /\ stale' = [stale EXCEPT ![i] = late[w]]
              /\ cur' = [cur EXCEPT ![w] = i]
              /\ tried' = [tried EXCEPT ![w] = attempts[i]]
              /\ Goto(w, "check")
           \/ /\ ~Claimable(i)
              /\ UNCHANGED <<status, owner, stale, cur, tried, pc>>
    /\ UNCHANGED <<origin, due, attempts, stored, warned, usage, campaigns,
                   late, outcome, world>>

Owns(w) == status[cur[w]] = "processing" /\ owner[cur[w]] = w

\* The posting policy defers the publication; no attempt is counted.
DeferByPolicy(w) ==
    LET i == cur[w]
    IN  /\ pc[w] = "check"
        /\ \/ /\ Owns(w)
              /\ status' = [status EXCEPT ![i] = "pending"]
              /\ due' = [due EXCEPT ![i] = FALSE]
              /\ owner' = [owner EXCEPT ![i] = None]
              /\ stale' = [stale EXCEPT ![i] = FALSE]
              /\ warned' = [warned EXCEPT ![i] = FALSE]
           \/ /\ ~Owns(w)
              /\ UNCHANGED <<status, due, owner, stale, warned>>
        /\ NextRow(w)
        /\ UNCHANGED <<origin, attempts, stored, usage, campaigns, todo, late,
                       world>>

\* The policy allows the post and the attempt is counted.
Begin(w) ==
    /\ pc[w] = "check"
    /\ attempts' = [attempts EXCEPT
                       ![cur[w]] = IF Owns(w) THEN @ + 1 ELSE @]
    /\ warned' = [warned EXCEPT ![cur[w]] = @ /\ ~Owns(w)]
    /\ tried' = [tried EXCEPT ![w] = @ + 1]
    /\ Goto(w, "reserve")
    /\ UNCHANGED <<status, origin, due, owner, stale, stored, usage,
                   campaigns, todo, late, cur, outcome, world>>

----------------------------------------------------------------------------
(* publishFacebookContent() *)

\* A usage with the key of the publication is used again, whatever its status.
Reserve(w) ==
    /\ pc[w] = "reserve"
    /\ usage' = [usage EXCEPT ![cur[w]] = IF @ = "none" THEN "reserved" ELSE @]
    /\ Goto(w, "call")
    /\ UNCHANGED <<table, campaigns, todo, late, claim, world>>

\* No page, no token, or no credits: an error without `retryable`.
Refuse(w) ==
    /\ pc[w] = "reserve"
    /\ outcome' = [outcome EXCEPT ![w] = "final"]
    /\ Goto(w, "giveup")
    /\ UNCHANGED <<table, usage, campaigns, todo, late, cur, tried, world>>

\* Meta makes the post; the answer is still to come.
MetaPosts(w) ==
    /\ pc[w] = "call"
    /\ posts[cur[w]] < MaxPosts
    /\ posts' = [posts EXCEPT ![cur[w]] = @ + 1]
    /\ Goto(w, "taken")
    /\ UNCHANGED <<table, usage, campaigns, todo, late, claim, retries,
                   accidents, history>>

\* Mutant of AfterError: the reservation of a failed call is kept.
AfterError_Kept == "giveup"

AfterError == "release"

\* The call does not reach Meta, or Meta answers with an error.
MetaRefuses(w) ==
    /\ pc[w] = "call"
    /\ \E kind \in {"retry", "final"} :
        outcome' = [outcome EXCEPT ![w] = kind]
    /\ Goto(w, AfterError)
    /\ UNCHANGED <<table, usage, campaigns, todo, late, cur, tried, world>>

Answer(w) ==
    /\ pc[w] = "taken"
    /\ Goto(w, "commit")
    /\ UNCHANGED <<table, usage, campaigns, todo, late, claim, world>>

\* The answer is lost or cut off: a transport error like any other.
LoseAnswer(w) ==
    /\ pc[w] = "taken"
    /\ Doubt(cur[w])
    /\ outcome' = [outcome EXCEPT ![w] = "retry"]
    /\ Goto(w, AfterError)
    /\ UNCHANGED <<table, usage, campaigns, todo, late, cur, tried, posts,
                   retries, accidents, overtaken, stranded>>

\* Only a reservation is committed.
Commit(w) ==
    /\ pc[w] = "commit"
    /\ usage' = [usage EXCEPT
                    ![cur[w]] = IF @ = "reserved" THEN "committed" ELSE @]
    /\ outcome' = [outcome EXCEPT ![w] = "none"]
    /\ Goto(w, "store")
    /\ UNCHANGED <<table, campaigns, todo, late, cur, tried, world>>

\* Mutant of AfterBillingError: the publisher fails although the post exists.
AfterBillingError_Throws == "giveup"

AfterBillingError == "store"

CommitFails(w) ==
    /\ pc[w] = "commit"
    /\ outcome' = [outcome EXCEPT ![w] = "warned"]
    /\ Goto(w, AfterBillingError)
    /\ UNCHANGED <<table, usage, campaigns, todo, late, cur, tried, world>>

Release(w) ==
    /\ pc[w] = "release"
    /\ usage' = [usage EXCEPT
                    ![cur[w]] = IF @ = "reserved" THEN "released" ELSE @]
    /\ Goto(w, "giveup")
    /\ UNCHANGED <<table, campaigns, todo, late, claim, world>>

\* The release throws: an error without `retryable`, and the credits stay.
ReleaseFails(w) ==
    /\ pc[w] = "release"
    /\ Accident
    /\ Strand(cur[w])
    /\ outcome' = [outcome EXCEPT ![w] = "final"]
    /\ Goto(w, "giveup")
    /\ UNCHANGED <<table, usage, campaigns, todo, late, cur, tried, posts,
                   retries, doubts, overtaken>>

----------------------------------------------------------------------------
(* The outcome; rows and campaign are written by id only *)

\* Direct publications have no campaign.
CampaignStep(w, place) ==
    \/ /\ origin[cur[w]] = "direct"
       /\ NextRow(w)
    \/ /\ origin[cur[w]] # "direct"
       /\ Goto(w, place)
       /\ UNCHANGED <<claim>>

Store(w) ==
    LET i == cur[w]
    IN  /\ pc[w] = "store"
        /\ status' = [status EXCEPT ![i] = "published"]
        /\ stored' = [stored EXCEPT ![i] = TRUE]
        /\ warned' = [warned EXCEPT ![i] = outcome[w] = "warned"]
        /\ owner' = [owner EXCEPT ![i] = None]
        /\ stale' = [stale EXCEPT ![i] = FALSE]
        /\ CampaignStep(w, "reset")
        /\ UNCHANGED <<origin, due, attempts, usage, campaigns, todo, late,
                       world>>

ResetFailures(w) ==
    /\ pc[w] = "reset"
    /\ failures' = 0
    /\ NextRow(w)
    /\ UNCHANGED <<table, usage, campaign, slotDue, todo, late, world>>

\* The statement for the outcome or the one for the campaign throws.  Both are
\* in the try, so the row is given up although its post exists.
OutcomeFails(w) ==
    /\ pc[w] \in {"store", "reset"}
    /\ Accident
    /\ Doubt(cur[w])
    /\ Strand(cur[w])
    /\ outcome' = [outcome EXCEPT ![w] = "final"]
    /\ Goto(w, "giveup")
    /\ UNCHANGED <<table, usage, campaigns, todo, late, cur, tried, posts,
                   retries, overtaken>>

CanRetry(w) == outcome[w] = "retry" /\ tried[w] < MaxAttempts

\* Mutant of AfterFailure: a status the table does not know.
AfterFailure_UnknownStatus(w) == IF CanRetry(w) THEN "retrying" ELSE "failed"

AfterFailure(w) == IF CanRetry(w) THEN "pending" ELSE "failed"

GiveUp(w) ==
    LET i == cur[w]
    IN  /\ pc[w] = "giveup"
        /\ status' = [status EXCEPT ![i] = AfterFailure(w)]
        /\ due' = [due EXCEPT ![i] = @ /\ ~CanRetry(w)]
        /\ owner' = [owner EXCEPT ![i] = None]
        /\ stale' = [stale EXCEPT ![i] = FALSE]
        /\ warned' = [warned EXCEPT ![i] = FALSE]
        /\ CampaignStep(w, "count")
        /\ UNCHANGED <<origin, attempts, stored, usage, campaigns, todo, late,
                       world>>

CountFailure(w) ==
    /\ pc[w] = "count"
    /\ failures' = IF failures < Threshold THEN failures + 1 ELSE failures
    /\ Goto(w, "pause")
    /\ UNCHANGED <<table, usage, campaign, slotDue, todo, late, claim, world>>

\* The campaign is read again and paused, whatever its status is.
Pause(w) ==
    /\ pc[w] = "pause"
    /\ IF failures >= Threshold
       THEN campaign' = "stopped" /\ slotDue' = FALSE
       ELSE UNCHANGED <<campaign, slotDue>>
    /\ NextRow(w)
    /\ UNCHANGED <<table, usage, failures, todo, late, world>>

Step(w) ==
    \/ StartTick(w) \/ Materialize(w) \/ Select(w) \/ Claim(w) \/ EndTick(w)
    \/ DeferByPolicy(w) \/ Begin(w)
    \/ Reserve(w) \/ Refuse(w)
    \/ MetaPosts(w) \/ MetaRefuses(w) \/ Answer(w) \/ LoseAnswer(w)
    \/ Commit(w) \/ CommitFails(w) \/ Release(w)
    \/ Store(w) \/ ResetFailures(w)
    \/ GiveUp(w) \/ CountFailure(w) \/ Pause(w)

----------------------------------------------------------------------------
(* Users: routes/facebookContentPublications.js and ...Campaigns.js *)

UserOnly == UNCHANGED <<usage, memory, posts, accidents, history>>

\* A user schedules a post, for now or for later.
Schedule(i) ==
    /\ Yielded
    /\ \E isDue \in BOOLEAN : Insert(i, "direct", isDue)
    /\ UserOnly
    /\ UNCHANGED <<campaigns, retries>>

\* A campaign makes a post at once, whatever its status.
RunNow(i) ==
    /\ Yielded
    /\ Insert(i, "campaign", TRUE)
    /\ UserOnly
    /\ UNCHANGED <<campaigns, retries>>

Retry(i) ==
    /\ Yielded
    /\ status[i] = "failed"
    /\ retries < MaxRetries
    /\ retries' = retries + 1
    /\ status' = [status EXCEPT ![i] = "pending"]
    /\ due' = [due EXCEPT ![i] = TRUE]
    /\ attempts' = [attempts EXCEPT ![i] = 0]
    /\ owner' = [owner EXCEPT ![i] = None]
    /\ stale' = [stale EXCEPT ![i] = FALSE]
    /\ warned' = [warned EXCEPT ![i] = FALSE]
    /\ UserOnly
    /\ UNCHANGED <<origin, stored, campaigns>>

PublishNow(i) ==
    /\ Yielded
    /\ status[i] = "pending"
    /\ due' = [due EXCEPT ![i] = TRUE]
    /\ UserOnly
    /\ UNCHANGED <<status, origin, attempts, owner, stale, stored, warned,
                   campaigns, retries>>

Cancel(i) ==
    /\ Yielded
    /\ status[i] \in {"pending", "failed"}
    /\ status' = [status EXCEPT ![i] = "cancelled"]
    /\ UserOnly
    /\ UNCHANGED <<origin, due, attempts, owner, stale, stored, warned,
                   campaigns, retries>>

\* Mutant of ResumedFailures: the count survives a pause.
ResumedFailures_Kept == failures

ResumedFailures == 0

\* An edit may set any status; a toggle leaves a completed campaign alone and
\* is else such an edit.  Both compute the next slot from now on.
EditCampaign ==
    /\ Yielded
    /\ campaign' \in {"active", "stopped"}
    /\ failures' = ResumedFailures
    /\ slotDue' = FALSE
    /\ UserOnly
    /\ UNCHANGED <<table, retries>>

CompleteCampaign ==
    /\ Yielded
    /\ campaign' = "stopped"
    /\ slotDue' = FALSE
    /\ UserOnly
    /\ UNCHANGED <<table, failures, retries>>

\* The page is unlinked: posts in the hands of a worker are left alone.
UnlinkPage ==
    /\ Yielded
    /\ status' = [i \in Rows |->
                     IF status[i] = "pending" THEN "cancelled" ELSE status[i]]
    /\ campaign' = "stopped"
    /\ slotDue' = FALSE
    /\ UserOnly
    /\ UNCHANGED <<origin, due, attempts, owner, stale, stored, warned,
                   failures, retries>>

User ==
    \/ \E i \in Rows :
        Schedule(i) \/ RunNow(i) \/ Retry(i) \/ PublishNow(i) \/ Cancel(i)
    \/ EditCampaign
    \/ CompleteCampaign
    \/ UnlinkPage

----------------------------------------------------------------------------
(* Time and crashes *)

\* Bound: while there is room for another row.
SlotComes ==
    /\ campaign = "active"
    /\ ~slotDue
    /\ \E i \in Rows : Free(i)
    /\ slotDue' = TRUE
    /\ UNCHANGED <<table, usage, campaign, failures, memory, world>>

BecomeDue(i) ==
    /\ status[i] = "pending"
    /\ ~due[i]
    /\ due' = [due EXCEPT ![i] = TRUE]
    /\ UNCHANGED <<status, origin, attempts, owner, stale, stored, warned,
                   usage, campaigns, memory, world>>

\* 15 minutes pass for a claim that its worker has left.
ClaimAges(i) ==
    /\ status[i] = "processing"
    /\ ~stale[i]
    /\ ~Claimed(i)
    /\ stale' = [stale EXCEPT ![i] = TRUE]
    /\ UNCHANGED <<status, origin, due, attempts, owner, stored, warned,
                   usage, campaigns, memory, world>>

\* 15 minutes pass for a tick: many rows, slow answers, a suspended process.
TickAges(w) ==
    /\ w \in Slow
    /\ pc[w] # "idle"
    /\ ~late[w]
    /\ Accident
    /\ late' = [late EXCEPT ![w] = TRUE]
    /\ stale' = [i \in Rows |-> stale[i] \/ (owner[i] = w /\ At(w, i))]
    /\ UNCHANGED <<status, origin, due, attempts, owner, stored, warned, usage,
                   campaigns, pc, todo, claim, posts, retries, history>>

\* The tick ends where it is, and what the worker had in memory is gone.
Abandon(w) ==
    /\ Accident
    /\ Goto(w, "idle")
    /\ todo' = [todo EXCEPT ![w] = {}]
    /\ late' = [late EXCEPT ![w] = FALSE]
    /\ cur' = [cur EXCEPT ![w] = 1]
    /\ tried' = [tried EXCEPT ![w] = 0]
    /\ outcome' = [outcome EXCEPT ![w] = "none"]
    /\ UNCHANGED <<origin, attempts, stored, warned, usage, campaigns, posts,
                   retries>>

\* The process dies, or a statement outside of the try throws and ends the
\* tick; a post that Meta made and the table does not know is forgotten.
Crash(w) ==
    /\ pc[w] # "idle"
    /\ doubts' = [doubts EXCEPT
                     ![cur[w]] = IF pc[w] \in {"taken", "commit", "store"}
                                 THEN @ + 1 ELSE @]
    /\ stranded' = [stranded EXCEPT
                       ![cur[w]] = @ \/ (pc[w] \in Busy /\ usage[cur[w]] = "reserved")]
    /\ Abandon(w)
    /\ UNCHANGED <<status, due, owner, stale, overtaken>>

\* The recovery stops between its two statements.
RecoveryFails(w) ==
    /\ pc[w] = "select"
    /\ RecoverRows({i \in Rows : Recoverable(i) /\ stored[i]})
    /\ Abandon(w)
    /\ UNCHANGED stranded

Accidents(w) ==
    \/ ReleaseFails(w) \/ OutcomeFails(w)
    \/ TickAges(w) \/ Crash(w) \/ RecoveryFails(w)

Next ==
    \/ \E w \in Workers : Step(w) \/ Accidents(w)
    \/ User
    \/ SlotComes
    \/ \E i \in Rows : BecomeDue(i) \/ ClaimAges(i)

Spec == Init /\ [][Next]_vars

BeginRow(i) == \E w \in Workers : cur[w] = i /\ Begin(w)

\* Workers keep ticking, time passes, and the policy does not defer a
\* publication for ever: windows open, days end, repetitions age.
Fairness ==
    /\ \A w \in Workers : WF_vars(Step(w))
    /\ \A i \in Rows :
        /\ WF_vars(BecomeDue(i))
        /\ WF_vars(ClaimAges(i))
        /\ SF_vars(BeginRow(i))

FairSpec == Spec /\ Fairness

----------------------------------------------------------------------------
(* Properties *)

\* A published row keeps its post and is opened again only in one of two ways:
\* by the worker that published it for a campaign, at once, when the statement
\* for the campaign threw; or by a worker from which the row had been taken.
PublishedIsFinal ==
    [][\A i \in Rows : status[i] = "published" =>
           /\ stored'[i]
           /\ \/ status'[i] = "published"
              \/ overtaken[i]
              \/ /\ status'[i] = "failed"
                 /\ origin[i] = "campaign"
                 /\ \E w \in Workers : pc[w] = "giveup" /\ cur[w] = i]_vars

\* Each post of a publication after its first answers to a doubt of its own:
\* an answer that was lost, a worker that died with it, a statement that threw
\* before or after the outcome was stored, or a row taken from a live worker.
SecondPostNeedsDoubt == \A i \in Rows : posts[i] <= 1 + doubts[i]

\* Credits are charged only for a post that was made, and held for as long as
\* a worker is at the publication.  They stay held only with a warning on the
\* row, or if a worker died or a statement threw while they were held, or if
\* two workers were at the row.
CreditsFollowPost ==
    \A i \in Rows :
        /\ usage[i] = "committed" => posts[i] > 0
        /\ usage[i] = "reserved" =>
               Working(i) \/ warned[i] \/ stranded[i] \/ overtaken[i]

\* A campaign that failed as often as its limit does not stay active, also if
\* it was paused and resumed; a worker that counted the last failure and has
\* yet to pause it, or was cut off there, is the exception.
ActiveBelowThreshold ==
    campaign = "active" /\ failures >= Threshold =>
        accidents > 0 \/ \E w \in Workers : pc[w] = "pause"

\* Every publication is published, given up or cancelled in the end, unless two
\* workers are at it: these may overwrite each other's outcomes and attempts.
EveryPublicationSettles ==
    \A i \in Rows : status[i] \in {"pending", "processing"} ~>
        status[i] \in {"published", "failed", "cancelled"} \/ overtaken[i]

\* A published row without a billing warning has been charged.  The code does
\* not keep this: a usage released by a failed attempt is not reserved again.
PublishedIsCharged ==
    \A i \in Rows : status[i] = "published" /\ ~warned[i] =>
                        usage[i] = "committed"

\* What a user sees of a row: waiting and being worked on are one.
State ==
    [i \in Rows |-> IF status[i] \in {"pending", "processing"} THEN "open"
                    ELSE status[i]]

\* The promise about posts and credits, see Publications.
Promise == INSTANCE Publications WITH
    Rows <- Rows, state <- State, posts <- posts, doubts <- doubts,
    overtaken <- overtaken, stored <- stored, credit <- usage,
    warned <- warned

\* The scheduler, with its claims, recoveries and retries, keeps the promise.
ImplementsPublications == Promise!Spec

=============================================================================
