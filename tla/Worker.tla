------------------------------- MODULE Worker -------------------------------
(***************************************************************************)
(* The worker processes (worker.py, worker_cycle.py, worker_finalization.py,*)
(* worker_feed_handler.py, catalog_source_runner.py) over the job queue,    *)
(* against the API: users create, stop and retry jobs and change what the   *)
(* jobs depend on at any moment.                                            *)
(*                                                                         *)
(* All processes share one SQLite database.  writer is the worker that has  *)
(* a transaction of several steps open (its publication, or the evaluation  *)
(* of the due schedules); while it has, nobody else can write, the lease    *)
(* heartbeat of the same worker included.  Time goes on during the          *)
(* publication, which waits for other resources.                            *)
(*                                                                         *)
(* pc of a worker process:                                                  *)
(*   idle        between two cycles (or restarted)                          *)
(*   feeds       stale leases recovered, evaluating due feed schedules      *)
(*   sources     evaluating due source schedules                            *)
(*   ready       about to claim                                             *)
(*   again       nothing was claimable, about to try again after            *)
(*               housekeeping                                               *)
(*   claimed     a job claimed, the lease heartbeat not yet started         *)
(*   checking    about to evaluate eligibility before running the job       *)
(*   fetching    in run_job: network and AI calls, no transaction           *)
(*   staged      publication written in the open transaction                *)
(*   finishing   a job without publication returned its result              *)
(*   completing  ... and was found eligible                                 *)
(*   failing     run_job raised, the transaction was rolled back            *)
(*   recording   ... and the job was found eligible                         *)
(*   stopping    found stopped by its user, about to cancel the claim       *)
(*   cancelling  found ineligible, about to cancel the claim                *)
(***************************************************************************)
EXTENDS Schedules

CONSTANT Inputs     \* bound: the kinds of API call this instance makes

ASSUME InputsAssumption ==
    Inputs \subseteq {"refresh", "fetch", "plain", "cancel", "retry", "user",
                     "delete_user", "source", "subscription", "schedule"}

\* The schedules create automatic jobs, the users of the API manual ones.
ASSUME ReasonsAssumption == Reasons = BOOLEAN

VARIABLES
    pc,       \* control state of each worker process
    writer,   \* worker with an open transaction, or NoWorker
    api,      \* the creation request the API process is in, if any
    commits   \* publications committed since the job was created, retried, recovered

workerVars == <<pc, writer, api, quota, commits>>
vars == <<queueVars, entityVars, workerVars>>

PCs == {"idle", "feeds", "sources", "ready", "again", "claimed", "checking",
        "fetching", "staged", "finishing", "completing", "failing", "recording", "stopping",
        "cancelling"}

FeedKinds == {"user_feed_refresh", "source_fetch"}
Published == {"succeeded", "partial"}
NoRequest == [step |-> "none", kind |-> "source_test", user |-> NoUser,
              source |-> NoSource]

WorkerTypeOK ==
    /\ QueueTypeOK
    /\ LifecycleTypeOK
    /\ pc \in [Workers -> PCs]
    /\ writer \in Workers \cup {NoWorker}
    /\ ScheduleTypeOK
    /\ api \in [step : {"none", "admitted", "created"}, kind : Kinds,
               user : Users \cup {NoUser}, source : Sources \cup {NoSource}]
    /\ commits \in [JobIds -> Nat]

DatabaseFree == writer = NoWorker
MyJob(w)     == held[w].job
Scheduling(w) == writer = w /\ pc[w] \in {"feeds", "sources"}
Goto(w, p)   == pc' = [pc EXCEPT ![w] = p]

\* Where the eligibility of the worker's job sends it: the reason decides the
\* error code of the cancellation.
AfterCheck(w, allowed) ==
    IF EligibleNow(MyJob(w)) THEN allowed
    ELSE IF jobs[MyJob(w)].status = "running" /\ jobs[MyJob(w)].stop
    THEN "stopping" ELSE "cancelling"

-----------------------------------------------------------------------------
(* Requests of the API, one process that serves them one after another.     *)
(* The caller's role was tested before the transaction began and may have   *)
(* changed since.                                                           *)

ApiFree(input) == input \in Inputs /\ api = NoRequest /\ DatabaseFree

\* The subscriptions are looked at only when no active refresh was found.
RequestRefresh(u) ==
    /\ ApiFree("refresh")
    /\ users[u] # "deleted"
    /\ ManualSubs(u) # {}
    /\ JobAllowed(u)
    /\ \E p \in Priorities, m \in AttemptLimits :
          create_user_feed_refresh_if_absent(u, FALSE, p, m)
    /\ Spend(u)
    /\ UNCHANGED <<entityVars, pc, writer, api, commits>>

RequestFetch(s) ==
    /\ ApiFree("fetch")
    /\ Live(s)
    /\ JobAllowed(SubUser[s])
    /\ \E p \in Priorities, m \in AttemptLimits :
          create_source_fetch_if_absent(s, FALSE, p, m)
    /\ Spend(SubUser[s])
    /\ UNCHANGED <<entityVars, pc, writer, api, commits>>

\* A source_test, or a source_fetch that names no subscription: the quota is
\* checked, the job created and its usage recorded in three transactions.
AdmitPlain(kind, u, x) ==
    /\ ApiFree("plain")
    /\ kind # "user_feed_refresh"
    /\ users[u] # "deleted"
    /\ JobAllowed(u)
    /\ api' = [step |-> "admitted", kind |-> kind, user |-> u, source |-> x]
    /\ UNCHANGED <<queueVars, entityVars, pc, writer, quota, commits>>

CreatePlain ==
    /\ api.step = "admitted"
    /\ DatabaseFree
    /\ \E p \in Priorities, m \in AttemptLimits :
          create_job(api.kind, api.user, api.source, p, m)
    /\ api' = [api EXCEPT !.step = "created"]
    /\ UNCHANGED <<entityVars, pc, writer, quota, commits>>

RecordPlain ==
    /\ api.step = "created"
    /\ DatabaseFree
    /\ Spend(api.user)
    /\ api' = NoRequest
    /\ UNCHANGED <<queueVars, entityVars, pc, writer, commits>>

jobs_cancel(j) ==
    /\ ApiFree("cancel")
    /\ cancel_job(j)
    /\ UNCHANGED <<entityVars, workerVars>>

\* Eligibility, quota and retry in one transaction.
jobs_retry(j) ==
    /\ ApiFree("retry")
    /\ jobs[j].status \in Terminal
    /\ Eligible(jobs[j])
    /\ quota[jobs[j].user] > 0
    /\ retry_job(j)
    /\ Spend(jobs[j].user)
    /\ commits' = [commits EXCEPT ![j] = 0]
    /\ UNCHANGED <<entityVars, pc, writer, api>>

UserChange ==
    \/ ApiFree("user") /\ \E u \in Users, state \in UserStates \ {"deleted"} :
          users[u] # state /\ update_user(u, state)
    \/ ApiFree("delete_user") /\ \E u \in Users : delete_user(u)

SourceChange ==
    /\ ApiFree("source")
    /\ \E x \in Sources, on \in BOOLEAN :
          sources[x] # on /\ update_source(x, on)

SubscriptionChange ==
    /\ ApiFree("subscription")
    /\ \E s \in Subscriptions :
          \/ create_subscription(s)
          \/ \E on \in BOOLEAN : /\ (subs[s] = "enabled") # on
                                 /\ update_subscription(s, on)
          \/ delete_subscription(s)

ScheduleChange ==
    /\ ApiFree("schedule")
    /\ \E on \in BOOLEAN :
          \/ \E u \in Users, every \in FeedIntervals :
                update_user_schedule(u, on, every)
          \/ \E s \in Subscriptions, every \in SourceIntervals :
                update_subscription_schedule(s, on, every)

Mutate ==
    /\ UserChange \/ SourceChange \/ SubscriptionChange \/ ScheduleChange
    /\ UNCHANGED workerVars

-----------------------------------------------------------------------------
(* The worker cycle.                                                        *)

\* Fault: the cycle does not recover expired leases.
StartWithoutRecovery(w, stage) ==
    /\ pc[w] = "idle"
    /\ DatabaseFree
    /\ Goto(w, stage)
    /\ UNCHANGED <<queueVars, entityVars, writer, api, quota, commits>>

\* Expired leases are recovered in every cycle; the schedules are evaluated
\* ("feeds") only when schedule_poll_seconds have passed since the last time.
StartCycle(w, stage) ==
    /\ pc[w] = "idle"
    /\ DatabaseFree
    /\ IF \E j \in JobIds : Expired(j)
       THEN recover_stale_running_jobs
       ELSE UNCHANGED queueVars
    /\ Goto(w, stage)
    /\ UNCHANGED <<entityVars, writer, api, quota, commits>>

\* One due row of the transaction a stage of the cycle runs over the rows of
\* its schedule table, and the end of the stage when none is due.
InTransaction(w, stage, due, row, next) ==
    /\ pc[w] = stage
    /\ writer \in {w, NoWorker}
    /\ writer' = IF due = {row} THEN NoWorker ELSE w
    /\ Goto(w, IF due = {row} THEN next ELSE stage)
    /\ UNCHANGED <<api, commits>>

EnqueueDueFeeds(w) ==
    \/ \E u \in DueFeeds : /\ InTransaction(w, "feeds", DueFeeds, u, "sources")
                           /\ EvaluateFeed(u)
    \/ /\ pc[w] = "feeds" /\ DatabaseFree /\ DueFeeds = {}
       /\ Goto(w, "sources")
       /\ UNCHANGED <<queueVars, entityVars, writer, api, quota, commits>>

EnqueueDueSources(w) ==
    \/ \E s \in DueSources : /\ InTransaction(w, "sources", DueSources, s, "ready")
                             /\ EvaluateSource(s)
    \/ /\ pc[w] = "sources" /\ DatabaseFree /\ DueSources = {}
       /\ Goto(w, "ready")
       /\ UNCHANGED <<queueVars, entityVars, writer, api, quota, commits>>

Claim(w) ==
    /\ pc[w] \in {"ready", "again"}
    /\ DatabaseFree
    /\ claim_next_job(w)
    /\ Goto(w, "claimed")
    /\ UNCHANGED <<entityVars, writer, api, quota, commits>>

\* No job to claim: housekeeping, which may prune expired terminal jobs.
NothingToClaim(w) ==
    /\ pc[w] = "ready"
    /\ DatabaseFree
    /\ ~\E j \in JobIds : Claimable(j)
    /\ \/ UNCHANGED jobs
       \/ \E S \in SUBSET JobIds : prune_terminal_jobs(S)
    /\ Goto(w, "again")
    /\ UNCHANGED <<held, entityVars, writer, api, quota, commits>>

\* Still none: the cycle is over.
EndCycle(w) ==
    /\ pc[w] = "again"
    /\ DatabaseFree
    /\ ~\E j \in JobIds : Claimable(j)
    /\ Goto(w, "idle")
    /\ UNCHANGED <<queueVars, entityVars, writer, api, quota, commits>>

\* ActorOps reconciliation, in the housekeeping of an idle worker or after a
\* job: what the recovered job published before is not counted again.
RecoverResult(w) ==
    /\ pc[w] \in {"idle", "again"}
    /\ DatabaseFree
    /\ \E j \in JobIds :
          /\ jobs[j].source \in ActorSources
          /\ recover_observed_result_after_terminal_job(j)
          /\ commits' = [commits EXCEPT ![j] = 0]
    /\ UNCHANGED <<entityVars, pc, writer, api, quota>>

HeartbeatStarts(w) ==
    /\ pc[w] = "claimed"
    /\ DatabaseFree
    /\ Goto(w, "checking")
    /\ UNCHANGED <<queueVars, entityVars, writer, api, quota, commits>>

\* Fault: the claim is put back without the claim guard.
HeartbeatFailsUnguarded(w) ==
    /\ pc[w] = "claimed"
    /\ DatabaseFree
    /\ jobs' = [jobs EXCEPT ![MyJob(w)] = PutBack(@, "not_started", 0, @.attempts - 1)]
    /\ LetGo(w)
    /\ Goto(w, "idle")
    /\ UNCHANGED <<entityVars, writer, api, quota, commits>>

\* LeaseHeartbeat.__enter__ raised: the claim goes back unless it was lost.
HeartbeatFails(w) ==
    /\ pc[w] = "claimed"
    /\ DatabaseFree
    /\ IF ClaimGuard(w) THEN requeue_unstarted_claim(w) ELSE Abandon(w)
    /\ Goto(w, "idle")
    /\ UNCHANGED <<entityVars, writer, api, quota, commits>>

\* The heartbeat thread; it needs the write lock like everyone.
Heartbeat(w) ==
    /\ pc[w] \notin {"idle", "feeds", "sources", "ready", "again", "claimed"}
    /\ DatabaseFree
    /\ extend_job_lease(w)
    /\ UNCHANGED <<entityVars, workerVars>>

-----------------------------------------------------------------------------
(* Execution of a claimed job.                                              *)

CheckEligibility(w) ==
    /\ pc[w] = "checking"
    /\ Goto(w, AfterCheck(w, "fetching"))
    /\ UNCHANGED <<queueVars, entityVars, writer, api, quota, commits>>

\* run_job raises: an upstream error, JobIneligibleError from one of its own
\* checks, or an error while the publication was written, which rolls it back.
RunFails(w) ==
    /\ pc[w] \in {"fetching", "staged"}
    /\ writer' = IF writer = w THEN NoWorker ELSE writer
    /\ Goto(w, "failing")
    /\ UNCHANGED <<queueVars, entityVars, api, quota, commits>>

\* BEGIN IMMEDIATE of the publication of a full refresh, which is checked once
\* more inside the transaction and raises when it is not eligible.
StageRefresh(w) ==
    /\ pc[w] = "fetching"
    /\ jobs[MyJob(w)].kind = "user_feed_refresh"
    /\ DatabaseFree
    /\ IF EligibleNow(MyJob(w)) THEN writer' = w /\ Goto(w, "staged")
                                ELSE UNCHANGED writer /\ Goto(w, "failing")
    /\ UNCHANGED <<queueVars, entityVars, api, quota, commits>>

\* The publication of a single source is staged without that check.
StageFetch(w) ==
    /\ pc[w] = "fetching"
    /\ jobs[MyJob(w)].kind = "source_fetch"
    /\ DatabaseFree
    /\ writer' = w
    /\ Goto(w, "staged")
    /\ UNCHANGED <<queueVars, entityVars, api, quota, commits>>

ReturnResult(w) ==
    /\ pc[w] = "fetching"
    /\ jobs[MyJob(w)].kind \notin FeedKinds
    /\ Goto(w, "finishing")
    /\ UNCHANGED <<queueVars, entityVars, writer, api, quota, commits>>

\* Subscriptions that a full refresh may report an outcome for.
Covered(r) ==
    IF r.kind # "user_feed_refresh" THEN {}
    ELSE IF r.auto THEN EnabledSubs(r.user) ELSE ManualSubs(r.user)

\* Fault: the publication commits although complete_job matched no row.
CommitStale(w) ==
    /\ pc[w] = "staged"
    /\ EligibleNow(MyJob(w))
    /\ IF LeaseGuard(w) THEN complete_job(w, "succeeded", {}) ELSE Abandon(w)
    /\ commits' = [commits EXCEPT ![MyJob(w)] = @ + 1]
    /\ writer' = NoWorker
    /\ Goto(w, "idle")
    /\ UNCHANGED <<entityVars, api, quota>>

\* Fault: eligibility is not tested again before the commit.
CommitUnchecked(w) ==
    /\ pc[w] = "staged"
    /\ complete_job(w, "succeeded", {})
    /\ commits' = [commits EXCEPT ![MyJob(w)] = @ + 1]
    /\ writer' = NoWorker
    /\ Goto(w, "idle")
    /\ UNCHANGED <<entityVars, api, quota>>

\* _finalize_successful_job inside the open transaction: eligible and the
\* lease live, so publication, schedules and status commit together.
CommitPublication(w) ==
    /\ pc[w] = "staged"
    /\ EligibleNow(MyJob(w))
    /\ \E status \in Published, P \in SUBSET Covered(jobs[MyJob(w)]) :
          /\ complete_job(w, status, AdvancedJobs(P))
          /\ srcSched' = AdvancedSchedules(P)
    /\ commits' = [commits EXCEPT ![MyJob(w)] = @ + 1]
    /\ writer' = NoWorker
    /\ Goto(w, "idle")
    /\ UNCHANGED <<users, sources, subs, feedSched, api, quota>>

\* Not eligible any more: rollback, then cancel.
RollBackIneligible(w) ==
    /\ pc[w] = "staged"
    /\ ~EligibleNow(MyJob(w))
    /\ writer' = NoWorker
    /\ Goto(w, AfterCheck(w, "staged"))
    /\ UNCHANGED <<queueVars, entityVars, api, quota, commits>>

\* complete_job matched no row: rollback, PermissionError, the process ends.
RollBackStale(w) ==
    /\ pc[w] = "staged"
    /\ EligibleNow(MyJob(w))
    /\ ~LeaseGuard(w)
    /\ Abandon(w)
    /\ writer' = NoWorker
    /\ Goto(w, "idle")
    /\ UNCHANGED <<entityVars, api, quota, commits>>

\* A job without publication: the eligibility test and complete_job are two
\* transactions.
CheckResult(w) ==
    /\ pc[w] = "finishing"
    /\ Goto(w, AfterCheck(w, "completing"))
    /\ UNCHANGED <<queueVars, entityVars, writer, api, quota, commits>>

CompleteResult(w) ==
    /\ pc[w] = "completing"
    /\ DatabaseFree
    /\ IF LeaseGuard(w)
       THEN \E status \in {"succeeded", "failed"} : complete_job(w, status, {})
       ELSE Abandon(w)
    /\ Goto(w, "idle")
    /\ UNCHANGED <<entityVars, writer, api, quota, commits>>

\* _finalize_failed_job: the test comes before the transaction that records
\* the failure.
CheckFailure(w) ==
    /\ pc[w] = "failing"
    /\ Goto(w, AfterCheck(w, "recording"))
    /\ UNCHANGED <<queueVars, entityVars, writer, api, quota, commits>>

RecordFailure(w) ==
    /\ pc[w] = "recording"
    /\ DatabaseFree
    /\ IF LeaseGuard(w)
       THEN \E retryable \in BOOLEAN : fail_or_retry_job(w, retryable)
       ELSE Abandon(w)
    /\ Goto(w, "idle")
    /\ UNCHANGED <<entityVars, writer, api, quota, commits>>

CancelIneligible(w) ==
    /\ pc[w] \in {"stopping", "cancelling"}
    /\ DatabaseFree
    /\ IF ClaimGuard(w)
       THEN cancel_claimed_job(w, IF pc[w] = "stopping" THEN "job_cancelled"
                                                       ELSE "job_invalidated")
       ELSE Abandon(w)
    /\ Goto(w, "idle")
    /\ UNCHANGED <<entityVars, writer, api, quota, commits>>

\* The process dies with a claim and is started again; an open transaction
\* rolls back.  A death between two claims only begins the cycle anew.
Crash(w) ==
    /\ Abandon(w)
    /\ writer' = IF writer = w THEN NoWorker ELSE writer
    /\ Goto(w, "idle")
    /\ UNCHANGED <<entityVars, api, quota, commits>>

-----------------------------------------------------------------------------
TimersRunning ==
    \/ \E j \in JobIds : \/ jobs[j].status = "running" /\ jobs[j].lock >= 0
                         \/ jobs[j].delay > 0
    \/ \E u \in Users : feedSched[u].next > 0
    \/ \E s \in Subscriptions : srcSched[s].next > 0

\* now is read once at the start of the evaluation of the schedules.
Time ==
    /\ TimersRunning
    /\ ~\E w \in Workers : Scheduling(w)
    /\ Tick
    /\ TickSchedules
    /\ UNCHANGED <<users, sources, subs, workerVars>>

Init ==
    /\ QueueInit
    /\ LifecycleInit
    /\ pc = [w \in Workers |-> "idle"]
    /\ writer = NoWorker
    /\ api = NoRequest
    /\ quota = [u \in Users |-> Quota]
    /\ commits = [j \in JobIds |-> 0]

Request ==
    \/ \E u \in Users : RequestRefresh(u)
    \/ \E s \in Subscriptions : RequestFetch(s)
    \/ \E kind \in Kinds, u \in Users, x \in Sources : AdmitPlain(kind, u, x)
    \/ CreatePlain \/ RecordPlain
    \/ \E j \in JobIds : jobs_cancel(j)
    \/ \E j \in JobIds : jobs_retry(j)

Finish(w) ==
    \/ CheckEligibility(w)
    \/ RunFails(w) \/ StageRefresh(w) \/ StageFetch(w) \/ ReturnResult(w)
    \/ CommitPublication(w) \/ RollBackIneligible(w) \/ RollBackStale(w)
    \/ CheckResult(w) \/ CompleteResult(w)
    \/ CheckFailure(w) \/ RecordFailure(w)
    \/ CancelIneligible(w)

Next ==
    \/ Request
    \/ Mutate
    \/ \E w \in Workers :
          \/ \E stage \in {"feeds", "ready"} : StartCycle(w, stage)
          \/ EnqueueDueFeeds(w) \/ EnqueueDueSources(w)
          \/ Claim(w) \/ NothingToClaim(w) \/ EndCycle(w) \/ RecoverResult(w)
          \/ HeartbeatStarts(w) \/ HeartbeatFails(w) \/ Heartbeat(w)
          \/ Finish(w)
          \/ Crash(w)
    \/ Time

Spec == Init /\ [][Next]_vars

\* The main loop of a worker process goes on and is started again when it
\* dies (docker-compose: restart unless-stopped); schedule_poll_seconds pass,
\* so cycle after cycle one evaluates the schedules; run_job returns or raises
\* (its calls have timeouts); the heartbeat thread can be started again and
\* again until it starts; time passes.
\* Nothing is assumed of users, of the heartbeat or of crashes.
Fairness ==
    /\ \A w \in Workers :
          /\ WF_vars(\E stage \in {"feeds", "ready"} : StartCycle(w, stage))
          /\ SF_vars(StartCycle(w, "feeds"))
          /\ WF_vars(EnqueueDueFeeds(w))
          /\ WF_vars(EnqueueDueSources(w))
          /\ WF_vars(Claim(w) \/ NothingToClaim(w) \/ EndCycle(w))
          /\ SF_vars(HeartbeatStarts(w))
          /\ WF_vars(Finish(w))
    /\ WF_vars(CreatePlain) /\ WF_vars(RecordPlain)
    /\ WF_vars(Time)

FairSpec == Spec /\ Fairness

-----------------------------------------------------------------------------
(* Properties.                                                              *)

\* Feed publication and terminal status are one: a feed job that ended
\* succeeded or partial has published exactly once since it was created,
\* retried or recovered, and one in any other state (queued again, failed, cancelled,
\* running under a second worker) has published nothing.
AtomicPublication ==
    \A j \in JobIds :
        jobs[j].kind \in FeedKinds /\ jobs[j].status # "deleted"
          => commits[j] = IF jobs[j].status \in Published THEN 1 ELSE 0

\* A stop request that was accepted is never overtaken by the publication:
\* the job does not end succeeded or partial.
StopHonoured ==
    \A j \in JobIds : jobs[j].stop => jobs[j].status \notin Published

\* A step that publishes finds, at that moment, user, source and subscription
\* fit to run the job, no stop request, and the live lease of the publisher,
\* although all of them were read before the network calls.
PublishOnlyEligible ==
    [][\A j \in JobIds :
          commits'[j] > commits[j]
            => /\ Runnable(jobs[j]) /\ ~jobs[j].stop
               /\ \E w \in Workers : LeaseGuard(w) /\ MyJob(w) = j]_vars

\* A source schedule that is switched on belongs to an enabled subscription
\* to an enabled source of a user that is neither disabled nor deleted: every
\* lifecycle transaction closes what it invalidates, and no request that was
\* on its way can open it again.
LiveSchedules ==
    \A s \in Subscriptions :
        srcSched[s].on => /\ subs[s] = "enabled"
                          /\ sources[SubSource[s]]
                          /\ users[SubUser[s]] \in {"active", "viewer"}

\* Quota check, creation and metering of a plain job are not atomic and the
\* schedules spend the same quota: at most one job goes over it.
QuotaOvershoot == \A u \in Users : quota[u] >= -1

\* The tests of the schedules agree with those of the eligibility service: a
\* job a schedule creates may run, it is the user's only active refresh or
\* comes when none is active, and a refresh is not put beside a fetch.
ScheduledEnqueue ==
    [][\A j \in JobIds :
          jobs[j].status = "absent" /\ jobs'[j].status = "queued" /\ jobs'[j].auto
            => /\ Runnable(jobs'[j])
               /\ ActiveRefresh(jobs'[j].user) = {}
               /\ jobs'[j].kind = "user_feed_refresh"
                     => ActiveFetchesOf(jobs'[j].user) = {}]_vars

\* A job that is queued or running ends: it succeeds, fails or is cancelled,
\* whatever crashes, lost leases and failed heartbeats it meets.
EveryJobSettles ==
    \A j \in JobIds :
        jobs[j].status \in Active ~> jobs[j].status \in Terminal \cup {"deleted"}

\* A schedule that is due is evaluated (or switched off), and one that was
\* opened for a viewer by a request under way does not stay open.
SchedulesEvaluated ==
    \A u \in Users :
        /\ u \in DueFeeds ~> u \notin DueFeeds
        /\ feedSched[u].on /\ users[u] = "viewer"
              ~> ~(feedSched[u].on /\ users[u] = "viewer")

\* The worker and the API use the queue only through its operations.
ImplementsQueue == QueueSpec

-----------------------------------------------------------------------------
(* The inductive invariants behind them.                                    *)

\* The types, and the user and the source a request under way is for.
WorkerInv ==
    /\ QueueInv
    /\ WorkerTypeOK
    /\ api.step # "none" => api.user \in Users /\ api.source \in Sources

\* A request that was admitted has a job of the quota left to spend, however
\* much the schedules spend meanwhile.
QuotaInv ==
    /\ QuotaOvershoot
    /\ api.step # "none" => quota[api.user] >= 0

\* No subscription outlives its user, whose deletion takes the schedules along.
ScheduleInv ==
    /\ LiveSchedules
    /\ \A s \in Subscriptions : Live(s) => users[SubUser[s]] # "deleted"

\* Nothing is published before creation, and what a worker holds was created.
\* Only jobs without publication reach the two-step completion, and among the
\* jobs not ended only a full refresh carries a stop request.
PublicationInv ==
    /\ AtomicPublication
    /\ StopHonoured
    /\ \A j \in JobIds :
          /\ jobs[j].status = "absent" => commits[j] = 0
          /\ jobs[j].stop /\ jobs[j].status \in Active
                => jobs[j].kind = "user_feed_refresh"
    /\ \A w \in Workers :
          MyJob(w) \in JobIds =>
             /\ jobs[MyJob(w)].status # "absent"
             /\ pc[w] \in {"finishing", "completing"}
                   => jobs[MyJob(w)].kind \notin FeedKinds

-----------------------------------------------------------------------------
(* Statements of the repository's contracts that the code does not keep.    *)

\* docs/contracts/api/service-secrets-source-jobs.md:58: a running refresh
\* whose stop request was accepted ends as cancelled.  Lease recovery after
\* the last attempt, and a failure recorded after the request, end it failed.
StopEndsCancelled ==
    \A j \in JobIds :
        jobs[j].stop /\ jobs[j].status \in Terminal
          => jobs[j].status = "cancelled"

\* docs/contracts/api/schedules-jobs-notifications.md:15: a subscription has at
\* most one queued or running source_fetch.  A job detached from a deleted
\* subscription runs for the one the user made next, beside that one's own.
OneFetchPerSubscription ==
    \A i, j \in JobIds :
        /\ {jobs[i].kind, jobs[j].kind} = {"source_fetch"}
        /\ {jobs[i].status, jobs[j].status} \subseteq Active
        /\ SubscriptionOf(jobs[i]) \cap SubscriptionOf(jobs[j]) # {}
        => i = j

=============================================================================
