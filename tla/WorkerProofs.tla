---------------------------- MODULE WorkerProofs ----------------------------
(***************************************************************************)
(* Proofs about the worker processes and the API over the job queue, for   *)
(* any number of users, sources, subscriptions, jobs and workers.          *)
(*                                                                         *)
(* Every step of the composed system is a step of the queue (Simulates),   *)
(* so the invariant of the queue holds here too.  Most steps are calm: no  *)
(* job is created, revived or completed.  The others are looked at one by  *)
(* one: only they matter to publication, quota and automatic jobs.         *)
(***************************************************************************)
EXTENDS Worker, JobQueueProofs

\* Steps of the queue that neither create, revive nor complete a job.
CalmStep ==
    \/ \E j \in JobIds : cancel_job(j)
    \/ \E w \in Workers :
          \/ claim_next_job(w)
          \/ \E retryable \in BOOLEAN : fail_or_retry_job(w, retryable)
          \/ \E error \in {"job_cancelled", "job_invalidated"} :
                cancel_claimed_job(w, error)
          \/ extend_job_lease(w)
          \/ requeue_unstarted_claim(w)
          \/ Abandon(w)
    \/ recover_stale_running_jobs
    \/ \E S \in SUBSET JobIds : \/ CancelQueued(S, "keep")
                                \/ CancelQueued(S, "job_invalidated")
                                \/ prune_terminal_jobs(S)
    \/ \E s \in Subscriptions : DetachSubscription(s)
    \/ \E u \in Users : DeleteUserRows(u)
    \/ Tick

Calm == CalmStep \/ UNCHANGED queueVars

\* A job created for a request of the API, and for a due schedule.
Manual ==
    \E p \in Priorities, m \in AttemptLimits :
        \/ \E u \in Users : create_user_feed_refresh_if_absent(u, FALSE, p, m)
        \/ \E s \in Subscriptions : create_source_fetch_if_absent(s, FALSE, p, m)
        \/ \E kind \in Kinds, u \in Users, x \in Sources : create_job(kind, u, x, p, m)

Automatic ==
    \/ \E u \in Users : /\ FeedReady(u) /\ ActiveFetchesOf(u) = {}
                        /\ EnqueueFeed(u)
    \/ \E s \in Subscriptions : /\ SourceReady(s) /\ ActiveRefresh(SubUser[s]) = {}
                                /\ EnqueueSource(s)

-----------------------------------------------------------------------------
(* The steps of the worker and of the API are steps of the queue.           *)

\* Cancelling the queued rows of a set, possibly empty, is calm.
LEMMA CalmCancel ==
    ASSUME jobs \in [JobIds -> Row], NEW error \in {"keep", "job_invalidated"},
           NEW S \in SUBSET JobIds, \A j \in S : jobs[j].status = "queued",
           jobs' = CancelRows(S, error), UNCHANGED held
    PROVE  Calm
<1>1. CASE S = {}
  <2>1. jobs' = jobs
    BY <1>1 DEF CancelRows
  <2> QED BY <2>1 DEF Calm, queueVars
<1>2. CASE S # {}
  <2>1. CancelQueued(S, error)
    BY <1>2 DEF CancelQueued
  <2> QED BY <2>1 DEF Calm, CalmStep
<1> QED BY <1>1, <1>2

\* The transactions on users, sources, subscriptions and schedules.
LEMMA MutateCalm ==
    ASSUME jobs \in [JobIds -> Row], Mutate
    PROVE  Calm
<1>1. ASSUME NEW u \in Users, NEW state, update_user(u, state)
      PROVE  Calm
  <2> DEFINE S == {j \in JobIds : jobs[j].status = "queued" /\ jobs[j].user = u}
  <2>1. UNCHANGED queueVars \/ (jobs' = CancelRows(S, "job_invalidated") /\ UNCHANGED held)
    BY <1>1 DEF update_user, Queued, queueVars
  <2> QED BY <2>1, CalmCancel DEF Calm
<1>2. ASSUME NEW u \in Users, delete_user(u)
      PROVE  Calm
  BY <1>2 DEF delete_user, Calm, CalmStep
<1>3. ASSUME NEW x \in Sources, NEW on \in BOOLEAN, update_source(x, on)
      PROVE  Calm
  <2> DEFINE S == {j \in JobIds : jobs[j].status = "queued"
                                  /\ jobs[j].kind = "source_fetch" /\ jobs[j].source = x}
  <2>1. UNCHANGED queueVars \/ (jobs' = CancelRows(S, "job_invalidated") /\ UNCHANGED held)
    BY <1>3 DEF update_source, Queued, queueVars
  <2> QED BY <2>1, CalmCancel DEF Calm
<1>4. ASSUME NEW s \in Subscriptions, create_subscription(s)
      PROVE  Calm
  BY <1>4 DEF create_subscription, Calm, queueVars
<1>5. ASSUME NEW s \in Subscriptions, NEW on \in BOOLEAN, update_subscription(s, on)
      PROVE  Calm
  <2> DEFINE S == {j \in JobIds : jobs[j].status = "queued"
                                  /\ jobs[j].kind = "source_fetch" /\ jobs[j].sub = s}
  <2>1. UNCHANGED queueVars \/ (jobs' = CancelRows(S, "job_invalidated") /\ UNCHANGED held)
    BY <1>5 DEF update_subscription, Queued, queueVars
  <2> QED BY <2>1, CalmCancel DEF Calm
<1>6. ASSUME NEW s \in Subscriptions, delete_subscription(s)
      PROVE  Calm
  BY <1>6 DEF delete_subscription, Calm, CalmStep
<1>7. ASSUME NEW u \in Users, NEW on \in BOOLEAN, NEW every, update_user_schedule(u, on, every)
      PROVE  Calm
  <2> DEFINE S == {j \in JobIds : jobs[j].status = "queued"
                                  /\ (/\ jobs[j].user = u /\ jobs[j].auto
                                      /\ jobs[j].kind = "user_feed_refresh")}
  <2>1. UNCHANGED queueVars \/ (jobs' = CancelRows(S, "keep") /\ UNCHANGED held)
    BY <1>7 DEF update_user_schedule, Queued, queueVars
  <2> QED BY <2>1, CalmCancel DEF Calm
<1>8. ASSUME NEW s \in Subscriptions, NEW on \in BOOLEAN, NEW every,
             update_subscription_schedule(s, on, every)
      PROVE  Calm
  <2> DEFINE S == {j \in JobIds : jobs[j].status = "queued"
                                  /\ (jobs[j].kind = "source_fetch" /\ jobs[j].sub = s /\ jobs[j].auto)}
  <2>1. UNCHANGED queueVars \/ (jobs' = CancelRows(S, "keep") /\ UNCHANGED held)
    BY <1>8 DEF update_subscription_schedule, Queued, queueVars
  <2> QED BY <2>1, CalmCancel DEF Calm
<1> QED
  BY <1>1, <1>2, <1>3, <1>4, <1>5, <1>6, <1>7, <1>8
     DEF Mutate, UserChange, SourceChange, SubscriptionChange, ScheduleChange

\* The evaluation of one due schedule creates an automatic job or is calm.
LEMMA EvaluateSim ==
    ASSUME jobs \in [JobIds -> Row],
           \/ \E u \in Users : EvaluateFeed(u)
           \/ \E s \in Subscriptions : EvaluateSource(s)
    PROVE  Calm \/ Automatic
<1>1. ASSUME NEW u \in Users, EvaluateFeed(u)
      PROVE  Calm \/ Automatic
  <2>1. CASE _disable_read_only_schedule(u)
    <3> DEFINE S == {j \in JobIds : jobs[j].status = "queued"
                                    /\ (/\ jobs[j].user = u /\ jobs[j].auto
                                        /\ jobs[j].kind = "user_feed_refresh")}
    <3>1. jobs' = CancelRows(S, "keep") /\ UNCHANGED held
      BY <2>1 DEF _disable_read_only_schedule, Queued
    <3> QED BY <3>1, CalmCancel
  <2>2. CASE \E n : SkipFeed(u, n)
    BY <2>2 DEF SkipFeed, Calm, queueVars
  <2>3. CASE FeedReady(u) /\ ActiveFetchesOf(u) = {} /\ EnqueueFeed(u)
    BY <2>3 DEF Automatic
  <2> QED
    BY <1>1, <2>1, <2>2, <2>3 DEF EvaluateFeed
<1>2. ASSUME NEW s \in Subscriptions, EvaluateSource(s)
      PROVE  Calm \/ Automatic
  <2>1. CASE \E n : SkipSource(s, n)
    BY <2>1 DEF SkipSource, Calm, queueVars
  <2>2. CASE SourceReady(s) /\ ActiveRefresh(SubUser[s]) = {} /\ EnqueueSource(s)
    BY <2>2 DEF Automatic
  <2> QED
    BY <1>2, <2>1, <2>2 DEF EvaluateSource, ActorBlocked
<1> QED
  BY <1>1, <1>2

\* The worker's calls other than completion and recovered results.
LEMMA CycleSim ==
    ASSUME jobs \in [JobIds -> Row], NEW w \in Workers,
           \/ \E stage \in {"feeds", "ready"} : StartCycle(w, stage)
           \/ EnqueueDueFeeds(w) \/ EnqueueDueSources(w)
           \/ Claim(w) \/ NothingToClaim(w) \/ EndCycle(w)
           \/ HeartbeatStarts(w) \/ HeartbeatFails(w) \/ Heartbeat(w)
           \/ Crash(w)
    PROVE  (Calm \/ Automatic) /\ UNCHANGED commits
<1>1. ASSUME NEW stage, StartCycle(w, stage)
      PROVE  Calm /\ UNCHANGED commits
  BY <1>1 DEF StartCycle, Calm, CalmStep
<1>2. CASE EnqueueDueFeeds(w)
  <2>1. \/ UNCHANGED queueVars
        \/ \E u \in Users : EvaluateFeed(u)
    BY <1>2 DEF EnqueueDueFeeds, DueFeeds
  <2>2. UNCHANGED commits
    BY <1>2 DEF EnqueueDueFeeds, InTransaction
  <2> QED BY <2>1, <2>2, EvaluateSim DEF Calm
<1>3. CASE EnqueueDueSources(w)
  <2>1. \/ UNCHANGED queueVars
        \/ \E s \in Subscriptions : EvaluateSource(s)
    BY <1>3 DEF EnqueueDueSources, DueSources
  <2>2. UNCHANGED commits
    BY <1>3 DEF EnqueueDueSources, InTransaction
  <2> QED BY <2>1, <2>2, EvaluateSim DEF Calm
<1>4. CASE Claim(w)
  BY <1>4 DEF Claim, Calm, CalmStep
<1>5. CASE NothingToClaim(w)
  BY <1>5 DEF NothingToClaim, Calm, CalmStep, queueVars, prune_terminal_jobs
<1>6. CASE EndCycle(w) \/ HeartbeatStarts(w)
  BY <1>6 DEF EndCycle, HeartbeatStarts, Calm
<1>7. CASE HeartbeatFails(w) \/ Heartbeat(w)
  BY <1>7 DEF HeartbeatFails, Heartbeat, workerVars, Calm, CalmStep
<1>8. CASE Crash(w)
  BY <1>8 DEF Crash, Calm, CalmStep
<1> QED
  BY <1>1, <1>2, <1>3, <1>4, <1>5, <1>6, <1>7, <1>8

\* The execution of a claimed job, but for its completion.
LEMMA FinishSim ==
    ASSUME NEW w \in Workers, Finish(w)
    PROVE  \/ Calm /\ UNCHANGED commits
           \/ CommitPublication(w)
           \/ CompleteResult(w)
<1>1. CASE CheckEligibility(w) \/ RunFails(w) \/ StageRefresh(w) \/ StageFetch(w)
           \/ ReturnResult(w) \/ RollBackIneligible(w) \/ CheckResult(w) \/ CheckFailure(w)
  BY <1>1 DEF CheckEligibility, RunFails, StageRefresh, StageFetch, ReturnResult,
              RollBackIneligible, CheckResult, CheckFailure, Calm
<1>2. CASE RollBackStale(w)
  BY <1>2 DEF RollBackStale, Calm, CalmStep
<1>3. CASE RecordFailure(w)
  BY <1>3 DEF RecordFailure, Calm, CalmStep
<1>4. CASE CancelIneligible(w)
  <2>1. \/ \E error \in {"job_cancelled", "job_invalidated"} : cancel_claimed_job(w, error)
        \/ Abandon(w)
    BY <1>4 DEF CancelIneligible
  <2> QED BY <1>4, <2>1 DEF CancelIneligible, Calm, CalmStep
<1> QED
  BY <1>1, <1>2, <1>3, <1>4 DEF Finish

\* Every step of the system, sorted by what it does to the jobs.
LEMMA Simulates ==
    ASSUME WorkerInv, Next
    PROVE  \/ (Calm \/ Manual \/ Automatic) /\ UNCHANGED commits
           \/ \E j \in JobIds : jobs_retry(j)
           \/ \E w \in Workers : \/ RecoverResult(w)
                                 \/ CommitPublication(w)
                                 \/ CompleteResult(w)
<1>1. jobs \in [JobIds -> Row]
  BY DEF WorkerInv, QueueInv
<1>2. CASE Request
  <2>1. ASSUME NEW u \in Users, RequestRefresh(u)
        PROVE  Manual /\ UNCHANGED commits
    BY <2>1 DEF RequestRefresh, Manual
  <2>2. ASSUME NEW s \in Subscriptions, RequestFetch(s)
        PROVE  Manual /\ UNCHANGED commits
    BY <2>2 DEF RequestFetch, Manual
  <2>3. ASSUME NEW kind \in Kinds, NEW u \in Users, NEW x \in Sources, AdmitPlain(kind, u, x)
        PROVE  Calm /\ UNCHANGED commits
    BY <2>3 DEF AdmitPlain, Calm
  <2>4. CASE CreatePlain
    <3>1. api.user \in Users /\ api.source \in Sources /\ api.kind \in Kinds
      BY <2>4 DEF CreatePlain, WorkerInv, WorkerTypeOK
    <3> QED BY <2>4, <3>1 DEF CreatePlain, Manual
  <2>5. CASE RecordPlain
    BY <2>5 DEF RecordPlain, Calm
  <2>6. ASSUME NEW j \in JobIds, jobs_cancel(j)
        PROVE  Calm /\ UNCHANGED commits
    BY <2>6 DEF jobs_cancel, workerVars, Calm, CalmStep
  <2> QED
    BY <1>2, <2>1, <2>2, <2>3, <2>4, <2>5, <2>6 DEF Request
<1>3. CASE Mutate
  BY <1>1, <1>3, MutateCalm DEF Mutate, workerVars
<1>4. CASE Time
  BY <1>4 DEF Time, workerVars, Calm, CalmStep
<1> QED
  BY <1>1, <1>2, <1>3, <1>4, CycleSim, FinishSim DEF Next

\* A job is created by an operation of the queue.
LEMMA Creation ==
    ASSUME Manual \/ Automatic
    PROVE  Create
<1>1. TRUE \in Reasons /\ FALSE \in Reasons
  BY ReasonsAssumption
<1>2. CASE Manual
  BY <1>1, <1>2 DEF Manual, Create, PriorityOf
<1>3. CASE Automatic
  BY <1>1, <1>3 DEF Automatic, EnqueueFeed, EnqueueSource, Create, PriorityOf
<1> QED BY <1>2, <1>3

\* A calm step is a step of the queue.
LEMMA CalmQueue ==
    ASSUME Calm
    PROVE  [QueueNext]_queueVars
BY DEF Calm, CalmStep, QueueNext, WorkerStep

\* Every step of the system is a step of the queue.
LEMMA QueueStep ==
    ASSUME WorkerInv, [Next]_vars
    PROVE  [QueueNext]_queueVars
<1>1. CASE UNCHANGED vars
  BY <1>1 DEF vars, queueVars
<1>2. CASE Manual \/ Automatic
  BY <1>2, Creation DEF QueueNext
<1>3. ASSUME NEW j \in JobIds, jobs_retry(j)
      PROVE  QueueNext
  BY <1>3 DEF jobs_retry, QueueNext
<1>4. ASSUME NEW w \in Workers, RecoverResult(w)
      PROVE  QueueNext
  BY <1>4 DEF RecoverResult, QueueNext
<1>5. ASSUME NEW w \in Workers, CommitPublication(w)
      PROVE  QueueNext
  <2>1. PICK status, P : status \in Published /\ complete_job(w, status, AdvancedJobs(P))
    BY <1>5 DEF CommitPublication
  <2>2. /\ status \in Terminal \ {"cancelled"}
        /\ AdvancedJobs(P) \in SUBSET {j \in JobIds : jobs[j].status = "queued"}
    BY <2>1 DEF Published, Terminal, AdvancedJobs, Queued
  <2> QED BY <2>1, <2>2 DEF QueueNext, WorkerStep
<1>6. ASSUME NEW w \in Workers, CompleteResult(w)
      PROVE  QueueNext
  <2>1. \/ \E status \in {"succeeded", "failed"} : complete_job(w, status, {})
        \/ Abandon(w)
    BY <1>6 DEF CompleteResult
  <2>2. {"succeeded", "failed"} \subseteq Terminal \ {"cancelled"}
    BY DEF Terminal
  <2>3. {} \in SUBSET {j \in JobIds : jobs[j].status = "queued"}
    OBVIOUS
  <2> QED BY <2>1, <2>2, <2>3 DEF QueueNext, WorkerStep
<1> QED
  BY <1>1, <1>2, <1>3, <1>4, <1>5, <1>6, Simulates, CalmQueue

-----------------------------------------------------------------------------
(* Types.                                                                   *)

\* A schedule with another next run, or switched off, is a schedule.
LEMMA ScheduleFields ==
    ASSUME NEW x \in Schedule, NEW n \in Nat
    PROVE  /\ [x EXCEPT !.next = n] \in Schedule
           /\ [x EXCEPT !.next = n].on = x.on
           /\ [x EXCEPT !.on = FALSE, !.next = 0] \in Schedule
           /\ [x EXCEPT !.on = FALSE, !.next = 0].on = FALSE
           /\ Sooner(x) \in Schedule /\ Sooner(x).on = x.on
           /\ Off \in Schedule /\ Off.on = FALSE
<1>1. ASSUME NEW k \in Nat
      PROVE  [x EXCEPT !.next = k] \in Schedule /\ [x EXCEPT !.next = k].on = x.on
  BY DEF Schedule
<1>2. /\ [x EXCEPT !.on = FALSE, !.next = 0] \in Schedule
      /\ [x EXCEPT !.on = FALSE, !.next = 0].on = FALSE
  BY DEF Schedule
<1>3. PICK k \in Nat : k = IF x.next > 0 THEN x.next - 1 ELSE 0
  BY DEF Schedule
<1>4. Sooner(x) = [x EXCEPT !.next = k]
  BY <1>3 DEF Sooner
<1>5. Off \in Schedule /\ Off.on = FALSE
  BY DEF Off, Schedule
<1> QED
  BY <1>1, <1>2, <1>4, <1>5

\* The next run after an update is a number of ticks.
LEMMA NextRunType ==
    ASSUME NEW x \in Schedule, NEW every \in Nat
    PROVE  NextRun(x, every) \in Nat
BY DEF Schedule, NextRun

\* Closing schedules keeps their type; only those of the set are closed.
LEMMA ClosedSchedules ==
    ASSUME srcSched \in [Subscriptions -> Schedule], NEW S
    PROVE  /\ Closed(S) \in [Subscriptions -> Schedule]
           /\ \A s \in Subscriptions : (Closed(S)[s].on <=> srcSched[s].on /\ s \notin S)
<1>1. ASSUME NEW s \in Subscriptions
      PROVE  /\ Closed(S)[s] \in Schedule
             /\ (Closed(S)[s].on <=> srcSched[s].on /\ s \notin S)
  <2>1. srcSched[s] \in Schedule /\ srcSched[s].on \in BOOLEAN
    BY DEF Schedule
  <2>2. Closed(S)[s] = IF s \in S /\ srcSched[s].on
                       THEN [srcSched[s] EXCEPT !.on = FALSE, !.next = 0]
                       ELSE srcSched[s]
    BY DEF Closed
  <2>3. CASE s \in S /\ srcSched[s].on
    <3>1. Closed(S)[s] = [srcSched[s] EXCEPT !.on = FALSE, !.next = 0]
      BY <2>2, <2>3
    <3>2. Closed(S)[s] \in Schedule /\ Closed(S)[s].on = FALSE
      BY <2>1, <3>1, ScheduleFields, Zenon
    <3> QED BY <2>3, <3>2
  <2>4. CASE ~(s \in S /\ srcSched[s].on)
    BY <2>1, <2>2, <2>4
  <2> QED
    BY <2>3, <2>4
<1> QED
  BY <1>1 DEF Closed

\* The lifecycle transactions keep the types of the entities.
LEMMA MutateTypes ==
    ASSUME LifecycleTypeOK, Mutate
    PROVE  LifecycleTypeOK'
<1> USE DEF LifecycleTypeOK
<1>1. ASSUME NEW u \in Users, NEW state \in UserStates, update_user(u, state)
      PROVE  LifecycleTypeOK'
  <2>1. users' \in [Users -> UserStates] /\ UNCHANGED <<sources, subs>>
    BY <1>1 DEF update_user, UserStates
  <2>2. \/ UNCHANGED <<feedSched, srcSched>>
        \/ /\ feedSched' = [feedSched EXCEPT ![u] = [feedSched[u] EXCEPT !.on = FALSE, !.next = 0]]
           /\ srcSched' = Closed(SubsOf(u))
    BY <1>1 DEF update_user
  <2>3. [feedSched[u] EXCEPT !.on = FALSE, !.next = 0] \in Schedule
    BY ScheduleFields
  <2> QED BY <2>1, <2>2, <2>3, ClosedSchedules
<1>2. ASSUME NEW u \in Users, delete_user(u)
      PROVE  LifecycleTypeOK'
  <2>1. Off \in Schedule
    BY DEF Off, Schedule
  <2>2. users' \in [Users -> UserStates] /\ subs' \in [Subscriptions -> SubStates]
    BY <1>2 DEF delete_user, UserStates, SubStates
  <2>3. /\ sources' \in [Sources -> BOOLEAN] 
        /\ feedSched' \in [Users -> Schedule] /\ srcSched' \in [Subscriptions -> Schedule]
    BY <1>2, <2>1 DEF delete_user
  <2> QED BY <2>2, <2>3
<1>3. ASSUME NEW x \in Sources, NEW on \in BOOLEAN, update_source(x, on)
      PROVE  LifecycleTypeOK'
  BY <1>3, ClosedSchedules DEF update_source
<1>4. ASSUME NEW s \in Subscriptions, create_subscription(s)
      PROVE  LifecycleTypeOK'
  BY <1>4 DEF create_subscription, SubStates
<1>5. ASSUME NEW s \in Subscriptions, NEW on \in BOOLEAN, update_subscription(s, on)
      PROVE  LifecycleTypeOK'
  BY <1>5, ClosedSchedules DEF update_subscription, SubStates
<1>6. ASSUME NEW s \in Subscriptions, delete_subscription(s)
      PROVE  LifecycleTypeOK'
  <2>1. Off \in Schedule
    BY DEF Off, Schedule
  <2>2. sources' \in [Sources -> BOOLEAN]
    BY <1>6 DEF delete_subscription
  <2> QED BY <1>6, <2>1, <2>2 DEF delete_subscription, SubStates
<1>7. ASSUME NEW u \in Users, NEW on \in BOOLEAN, NEW every \in FeedIntervals,
             update_user_schedule(u, on, every)
      PROVE  LifecycleTypeOK'
  <2>1. every \in Nat /\ NextRun(feedSched[u], every) \in Nat
    BY ScheduleAssumption, NextRunType
  <2>2. [on |-> on, every |-> every,
         next |-> IF on THEN NextRun(feedSched[u], every) ELSE 0] \in Schedule
    BY <2>1 DEF Schedule
  <2> QED BY <1>7, <2>2 DEF update_user_schedule
<1>8. ASSUME NEW s \in Subscriptions, NEW on \in BOOLEAN, NEW every \in SourceIntervals,
             update_subscription_schedule(s, on, every)
      PROVE  LifecycleTypeOK'
  <2>1. every \in Nat /\ NextRun(srcSched[s], every) \in Nat
    BY ScheduleAssumption, NextRunType
  <2>2. [on |-> on, every |-> every,
         next |-> IF on THEN NextRun(srcSched[s], every) ELSE 0] \in Schedule
    BY <2>1 DEF Schedule
  <2> QED BY <1>8, <2>2 DEF update_subscription_schedule
<1> QED
  BY <1>1, <1>2, <1>3, <1>4, <1>5, <1>6, <1>7, <1>8
     DEF Mutate, UserChange, SourceChange, SubscriptionChange, ScheduleChange

\* Schedules that wait for n ticks more keep their type.
LEMMA EvaluateTypes ==
    ASSUME LifecycleTypeOK,
           \/ \E u \in Users : EvaluateFeed(u)
           \/ \E s \in Subscriptions : EvaluateSource(s)
    PROVE  LifecycleTypeOK'
<1> USE DEF LifecycleTypeOK
<1>1. ASSUME NEW u \in Users, EvaluateFeed(u)
      PROVE  LifecycleTypeOK'
  <2>1. UNCHANGED <<users, sources, subs, srcSched>>
    BY <1>1 DEF EvaluateFeed
  <2>2. feedSched[u] \in Schedule /\ feedSched[u].every \in Nat /\ Postpone \in Nat
    BY QuotaAssumption DEF Schedule
  <2>3. ASSUME NEW n \in Nat, NextFeedRun(u, n)
        PROVE  feedSched' \in [Users -> Schedule]
    <3>1. [feedSched[u] EXCEPT !.next = n] \in Schedule
      BY <2>2, ScheduleFields
    <3> QED BY <2>3, <3>1 DEF NextFeedRun
  <2>4. ASSUME _disable_read_only_schedule(u)
        PROVE  feedSched' \in [Users -> Schedule]
    <3>1. [feedSched[u] EXCEPT !.on = FALSE, !.next = 0] \in Schedule
      BY <2>2, ScheduleFields
    <3>2. feedSched' = [feedSched EXCEPT ![u] = [feedSched[u] EXCEPT !.on = FALSE, !.next = 0]]
      BY <2>4 DEF _disable_read_only_schedule
    <3> QED BY <3>1, <3>2
  <2>5. \/ _disable_read_only_schedule(u)
        \/ \E n \in Nat : NextFeedRun(u, n)
    BY <1>1, <2>2 DEF EvaluateFeed, SkipFeed, EnqueueFeed
  <2> QED
    BY <2>1, <2>3, <2>4, <2>5
<1>2. ASSUME NEW s \in Subscriptions, EvaluateSource(s)
      PROVE  LifecycleTypeOK'
  <2>1. UNCHANGED <<users, sources, subs, feedSched>>
    BY <1>2 DEF EvaluateSource
  <2>2. srcSched[s] \in Schedule /\ srcSched[s].every \in Nat /\ Postpone \in Nat
    BY QuotaAssumption DEF Schedule
  <2>3. ASSUME NEW n \in Nat, NextSourceRun(s, n)
        PROVE  srcSched' \in [Subscriptions -> Schedule]
    <3>1. [srcSched[s] EXCEPT !.next = n] \in Schedule
      BY <2>2, ScheduleFields
    <3> QED BY <2>3, <3>1 DEF NextSourceRun
  <2>4. \E n \in Nat : NextSourceRun(s, n)
    <3>1. \A n \in 1 .. srcSched[s].every + 1 : n \in Nat
      BY <2>2
    <3> QED
      BY <1>2, <2>2, <3>1 DEF EvaluateSource, ActorBlocked, SkipSource, EnqueueSource
  <2> QED
    BY <2>1, <2>3, <2>4
<1> QED
  BY <1>1, <1>2

\* What a step may do to the entities: a lifecycle transaction, the evaluation
\* of a schedule, the publication of a refresh, the passing of time, or nothing.
LEMMA EntitySteps ==
    ASSUME [Next]_vars
    PROVE  \/ UNCHANGED entityVars
           \/ Mutate
           \/ \E u \in Users : EvaluateFeed(u)
           \/ \E s \in Subscriptions : EvaluateSource(s)
           \/ \E w \in Workers : CommitPublication(w)
           \/ Time
<1>1. CASE Request
  BY <1>1 DEF Request, RequestRefresh, RequestFetch, AdmitPlain, CreatePlain,
              RecordPlain, jobs_cancel, jobs_retry
<1>2. ASSUME NEW w \in Workers,
             \/ \E stage \in {"feeds", "ready"} : StartCycle(w, stage)
             \/ Claim(w) \/ NothingToClaim(w) \/ EndCycle(w) \/ RecoverResult(w)
             \/ HeartbeatStarts(w) \/ HeartbeatFails(w) \/ Heartbeat(w) \/ Crash(w)
      PROVE  UNCHANGED entityVars
  BY <1>2 DEF StartCycle, Claim, NothingToClaim, EndCycle, RecoverResult,
              HeartbeatStarts, HeartbeatFails, Heartbeat, Crash
<1>3. ASSUME NEW w \in Workers, EnqueueDueFeeds(w) \/ EnqueueDueSources(w)
      PROVE  \/ UNCHANGED entityVars
             \/ \E u \in Users : EvaluateFeed(u)
             \/ \E s \in Subscriptions : EvaluateSource(s)
  BY <1>3 DEF EnqueueDueFeeds, EnqueueDueSources, DueFeeds, DueSources
<1>4. ASSUME NEW w \in Workers, Finish(w)
      PROVE  UNCHANGED entityVars \/ CommitPublication(w)
  BY <1>4 DEF Finish, CheckEligibility, RunFails, StageRefresh, StageFetch,
              ReturnResult, RollBackIneligible, RollBackStale, CheckResult,
              CompleteResult, CheckFailure, RecordFailure, CancelIneligible
<1>5. CASE UNCHANGED vars
  BY <1>5 DEF vars
<1> QED
  BY <1>1, <1>2, <1>3, <1>4, <1>5 DEF Next

\* The publication of a refresh advances schedules and leaves the rest alone.
LEMMA AdvancedTypes ==
    ASSUME srcSched \in [Subscriptions -> Schedule], NEW P
    PROVE  /\ AdvancedSchedules(P) \in [Subscriptions -> Schedule]
           /\ \A s \in Subscriptions : AdvancedSchedules(P)[s].on = srcSched[s].on
<1>1. ASSUME NEW s \in Subscriptions
      PROVE  /\ AdvancedSchedules(P)[s] \in Schedule
             /\ AdvancedSchedules(P)[s].on = srcSched[s].on
  <2>1. srcSched[s] \in Schedule /\ srcSched[s].every \in Nat
    BY DEF Schedule
  <2>2. \/ AdvancedSchedules(P)[s] = [srcSched[s] EXCEPT !.next = srcSched[s].every]
        \/ AdvancedSchedules(P)[s] = srcSched[s]
    BY DEF AdvancedSchedules
  <2> QED BY ZenonT(40), <2>1, <2>2, ScheduleFields
<1> QED
  BY <1>1 DEF AdvancedSchedules

\* Time leaves the schedules on or off.
LEMMA TickTypes ==
    ASSUME LifecycleTypeOK, TickSchedules
    PROVE  /\ feedSched' \in [Users -> Schedule]
           /\ srcSched' \in [Subscriptions -> Schedule]
           /\ \A s \in Subscriptions : srcSched'[s].on = srcSched[s].on
<1>1. \A x \in Schedule : Sooner(x) \in Schedule /\ Sooner(x).on = x.on
  BY ScheduleFields
<1> QED
  BY <1>1 DEF TickSchedules, LifecycleTypeOK

\* Every step keeps the types of the entities.
LEMMA EntityTypes ==
    ASSUME LifecycleTypeOK, [Next]_vars
    PROVE  LifecycleTypeOK'
<1>1. CASE UNCHANGED entityVars
  BY <1>1 DEF entityVars, LifecycleTypeOK
<1>2. ASSUME NEW w \in Workers, CommitPublication(w)
      PROVE  LifecycleTypeOK'
  <2>1. /\ UNCHANGED <<users, sources, subs, feedSched>>
        /\ \E P : srcSched' = AdvancedSchedules(P)
    BY <1>2 DEF CommitPublication
  <2> QED BY <2>1, AdvancedTypes DEF LifecycleTypeOK
<1>3. CASE Time
  BY <1>3, TickTypes DEF Time, LifecycleTypeOK
<1> QED
  BY <1>1, <1>2, <1>3, EntitySteps, MutateTypes, EvaluateTypes

ControlTypeOK ==
    /\ pc \in [Workers -> PCs]
    /\ writer \in Workers \cup {NoWorker}
    /\ api \in [step : {"none", "admitted", "created"}, kind : Kinds,
               user : Users \cup {NoUser}, source : Sources \cup {NoSource}]
    /\ api.step # "none" => api.user \in Users /\ api.source \in Sources

\* The control states, the open transaction and the request under way.
LEMMA ControlTypes ==
    ASSUME ControlTypeOK, [Next]_vars
    PROVE  ControlTypeOK'
<1> USE DEF ControlTypeOK
<1>1. ASSUME UNCHANGED <<pc, writer, api>>
      PROVE  ControlTypeOK'
  BY <1>1
<1>2. ASSUME UNCHANGED api, NEW w \in Workers, NEW p \in PCs, Goto(w, p),
             writer' \in {writer, w, NoWorker}
      PROVE  ControlTypeOK'
  BY <1>2 DEF Goto
<1>3. CASE Request
  <2>1. \/ UNCHANGED <<pc, writer, api>>
        \/ \E kind \in Kinds, u \in Users, x \in Sources :
              /\ UNCHANGED <<pc, writer>>
              /\ api' = [step |-> "admitted", kind |-> kind, user |-> u, source |-> x]
        \/ CreatePlain \/ RecordPlain
    BY <1>3 DEF Request, RequestRefresh, RequestFetch, AdmitPlain, jobs_cancel,
                jobs_retry, workerVars
  <2>2. ASSUME NEW kind \in Kinds, NEW u \in Users, NEW x \in Sources,
               UNCHANGED <<pc, writer>>,
               api' = [step |-> "admitted", kind |-> kind, user |-> u, source |-> x]
        PROVE  ControlTypeOK'
    BY <2>2
  <2>3. CASE CreatePlain
    <3>1. UNCHANGED <<pc, writer>> /\ api' = [api EXCEPT !.step = "created"]
      BY <2>3 DEF CreatePlain
    <3>2. api.user \in Users /\ api.source \in Sources
      BY <2>3 DEF CreatePlain
    <3> QED BY <3>1, <3>2
  <2>4. CASE RecordPlain
    <3>1. UNCHANGED <<pc, writer>> /\ api' = NoRequest
      BY <2>4 DEF RecordPlain
    <3> QED BY <3>1 DEF NoRequest, Kinds
  <2> QED
    BY <1>1, <2>1, <2>2, <2>3, <2>4
<1>4. CASE Mutate \/ Time \/ UNCHANGED vars
  BY <1>1, <1>4 DEF Mutate, Time, vars, workerVars
<1>5. ASSUME NEW w \in Workers,
             \/ \E stage \in {"feeds", "ready"} : StartCycle(w, stage)
             \/ EnqueueDueFeeds(w) \/ EnqueueDueSources(w)
             \/ Claim(w) \/ NothingToClaim(w) \/ EndCycle(w) \/ RecoverResult(w)
             \/ HeartbeatStarts(w) \/ HeartbeatFails(w) \/ Heartbeat(w)
             \/ Crash(w)
      PROVE  ControlTypeOK'
  <2>1. \/ UNCHANGED <<pc, writer, api>>
        \/ /\ UNCHANGED api /\ writer' \in {writer, w, NoWorker}
           /\ \E p \in {"feeds", "sources", "ready", "claimed", "again", "idle", "checking"} :
                 Goto(w, p)
    BY <1>5 DEF StartCycle, EnqueueDueFeeds, EnqueueDueSources, InTransaction, Claim,
                NothingToClaim, EndCycle, RecoverResult, HeartbeatStarts,
                HeartbeatFails, Heartbeat, Crash, workerVars
  <2>2. {"feeds", "sources", "ready", "claimed", "again", "idle", "checking"} \subseteq PCs
    BY DEF PCs
  <2> QED
    BY <1>1, <1>2, <2>1, <2>2
<1>6. ASSUME NEW w \in Workers, Finish(w)
      PROVE  ControlTypeOK'
  <2>1. /\ UNCHANGED api /\ writer' \in {writer, w, NoWorker}
        /\ \E p \in {"fetching", "failing", "staged", "finishing", "idle", "completing",
                     "recording", "stopping", "cancelling"} : Goto(w, p)
    BY <1>6 DEF Finish, CheckEligibility, RunFails, StageRefresh, StageFetch,
                ReturnResult, CommitPublication, RollBackIneligible, RollBackStale,
                CheckResult, CompleteResult, CheckFailure, RecordFailure,
                CancelIneligible, AfterCheck
  <2>2. {"fetching", "failing", "staged", "finishing", "idle", "completing",
         "recording", "stopping", "cancelling"} \subseteq PCs
    BY DEF PCs
  <2> QED
    BY <1>2, <2>1, <2>2
<1> QED
  BY <1>3, <1>4, <1>5, <1>6 DEF Next

\* What a step may do to the quota: nothing, or one user spends one job.
LEMMA QuotaSteps ==
    ASSUME [Next]_vars
    PROVE  \/ UNCHANGED quota
           \/ \E u \in Users : /\ Spend(u) /\ quota[u] > 0
           \/ \E j \in JobIds : Spend(jobs[j].user) /\ quota[jobs[j].user] > 0
           \/ RecordPlain
<1>1. CASE Request
  BY <1>1, KeyAssumption DEF Request, RequestRefresh, RequestFetch, AdmitPlain, CreatePlain,
              jobs_cancel, jobs_retry, JobAllowed, workerVars
<1>2. CASE Mutate \/ Time \/ UNCHANGED vars
  BY <1>2 DEF Mutate, Time, vars, workerVars
<1>3. ASSUME NEW w \in Workers, EnqueueDueFeeds(w)
      PROVE  UNCHANGED quota \/ \E u \in Users : Spend(u) /\ quota[u] > 0
  BY <1>3 DEF EnqueueDueFeeds, EvaluateFeed, _disable_read_only_schedule, SkipFeed,
              EnqueueFeed, JobAllowed, DueFeeds
<1>4. ASSUME NEW w \in Workers, EnqueueDueSources(w)
      PROVE  UNCHANGED quota \/ \E u \in Users : Spend(u) /\ quota[u] > 0
  BY <1>4, KeyAssumption
     DEF EnqueueDueSources, EvaluateSource, ActorBlocked, SkipSource, EnqueueSource,
         JobAllowed, DueSources
<1>5. ASSUME NEW w \in Workers,
             \/ \E stage \in {"feeds", "ready"} : StartCycle(w, stage)
             \/ Claim(w) \/ NothingToClaim(w) \/ EndCycle(w) \/ RecoverResult(w)
             \/ HeartbeatStarts(w) \/ HeartbeatFails(w) \/ Heartbeat(w) \/ Crash(w)
      PROVE  UNCHANGED quota
  BY <1>5 DEF StartCycle, Claim, NothingToClaim, EndCycle, RecoverResult,
              HeartbeatStarts, HeartbeatFails, Heartbeat, Crash, workerVars
<1>6. ASSUME NEW w \in Workers, Finish(w)
      PROVE  UNCHANGED quota
  BY <1>6 DEF Finish, CheckEligibility, RunFails, StageRefresh, StageFetch,
              ReturnResult, CommitPublication, RollBackIneligible, RollBackStale,
              CheckResult, CompleteResult, CheckFailure, RecordFailure, CancelIneligible
<1> QED
  BY <1>1, <1>2, <1>3, <1>4, <1>5, <1>6 DEF Next

\* Every step keeps the invariant of the types.
LEMMA WorkerInvNext ==
    ASSUME WorkerInv, [Next]_vars
    PROVE  WorkerInv'
<1>1. QueueInv'
  BY QueueStep, NextInv DEF WorkerInv
<1>2. QueueTypeOK'
  BY <1>1 DEF QueueInv, QueueTypeOK
<1>3. LifecycleTypeOK'
  BY EntityTypes DEF WorkerInv, WorkerTypeOK
<1>4. ControlTypeOK'
  <2>1. ControlTypeOK
    BY DEF WorkerInv, WorkerTypeOK, ControlTypeOK
  <2> QED BY <2>1, ControlTypes
<1>5. ScheduleTypeOK'
  <2>1. quota \in [Users -> Int]
    BY DEF WorkerInv, WorkerTypeOK, ScheduleTypeOK
  <2>2. ASSUME NEW u, Spend(u)
        PROVE  quota' \in [Users -> Int]
    <3>1. CASE u \in Users
      BY <2>1, <2>2, <3>1 DEF Spend
    <3>2. CASE u \notin Users
      BY <2>1, <2>2, <3>2 DEF Spend
    <3> QED BY <3>1, <3>2
  <2> QED
    BY <2>1, <2>2, QuotaSteps DEF ScheduleTypeOK, RecordPlain
<1>6. commits' \in [JobIds -> Nat]
  <2>1. commits \in [JobIds -> Nat]
    BY DEF WorkerInv, WorkerTypeOK
  <2>2. \/ UNCHANGED commits
        \/ \E j : commits' = [commits EXCEPT ![j] = 0]
        \/ \E j : commits' = [commits EXCEPT ![j] = @ + 1]
    <3>1. CASE UNCHANGED vars
      BY <3>1 DEF vars, workerVars
    <3>2. CASE Next
      BY <3>2, Simulates DEF jobs_retry, RecoverResult, CommitPublication, CompleteResult
    <3> QED BY <3>1, <3>2
  <2>3. ASSUME NEW j, commits' = [commits EXCEPT ![j] = 0]
        PROVE  commits' \in [JobIds -> Nat]
    BY <2>1, <2>3
  <2>4. ASSUME NEW j, commits' = [commits EXCEPT ![j] = @ + 1]
        PROVE  commits' \in [JobIds -> Nat]
    <3>1. CASE j \in JobIds
      BY <2>1, <2>4, <3>1
    <3>2. CASE j \notin JobIds
      BY <2>1, <2>4, <3>2
    <3> QED BY <3>1, <3>2
  <2> QED
    BY <2>1, <2>2, <2>3, <2>4
<1> QED
  BY <1>1, <1>2, <1>3, <1>4, <1>5, <1>6 DEF WorkerInv, WorkerTypeOK, ControlTypeOK

-----------------------------------------------------------------------------
(* Quota.                                                                   *)

\* A step spends at most one job of a user who had one left, unless it records
\* the job of the request under way, for which one was kept.
LEMMA QuotaInvNext ==
    ASSUME WorkerInv, QuotaInv, [Next]_vars
    PROVE  QuotaInv'
<1>1. quota \in [Users -> Int] /\ \A u \in Users : quota[u] >= -1
  BY DEF WorkerInv, WorkerTypeOK, ScheduleTypeOK, QuotaInv, QuotaOvershoot
<1>2. CASE RecordPlain
  <2>1. api.user \in Users /\ quota[api.user] >= 0
    BY <1>2 DEF RecordPlain, WorkerInv, QuotaInv
  <2>2. quota' = [quota EXCEPT ![api.user] = @ - 1] /\ api'.step = "none"
    BY <1>2 DEF RecordPlain, Spend, NoRequest
  <2> QED
    BY <1>1, <2>1, <2>2 DEF QuotaInv, QuotaOvershoot
<1>3. CASE ~RecordPlain
  <2>1. \/ UNCHANGED quota
        \/ \E u \in Users : quota' = [quota EXCEPT ![u] = @ - 1] /\ quota[u] > 0
        \/ \E u : u \notin Users /\ quota' = [quota EXCEPT ![u] = @ - 1]
    BY <1>3, QuotaSteps DEF Spend
  <2>2. \A u \in Users : /\ quota'[u] >= -1
                         /\ quota[u] >= 0 => quota'[u] >= 0
    BY <1>1, <2>1
  <2>3. api'.step # "none" => /\ api'.user \in Users
                              /\ quota[api'.user] >= 0
    <3>1. WorkerInv'
      BY WorkerInvNext
    <3>2. \/ UNCHANGED api
          \/ \E kind \in Kinds, u \in Users, x \in Sources : AdmitPlain(kind, u, x)
          \/ CreatePlain
      <4>1. CASE Request
        BY <1>3, <4>1 DEF Request, RequestRefresh, RequestFetch, jobs_cancel, jobs_retry,
                          workerVars
      <4>2. CASE Mutate \/ Time \/ UNCHANGED vars
        BY <4>2 DEF Mutate, Time, vars, workerVars
      <4>3. ASSUME NEW w \in Workers,
                   \/ \E stage \in {"feeds", "ready"} : StartCycle(w, stage)
                   \/ EnqueueDueFeeds(w) \/ EnqueueDueSources(w)
                   \/ Claim(w) \/ NothingToClaim(w) \/ EndCycle(w) \/ RecoverResult(w)
                   \/ HeartbeatStarts(w) \/ HeartbeatFails(w) \/ Heartbeat(w) \/ Crash(w)
            PROVE  UNCHANGED api
        BY <4>3 DEF StartCycle, EnqueueDueFeeds, EnqueueDueSources, InTransaction, Claim,
                    NothingToClaim, EndCycle, RecoverResult, HeartbeatStarts,
                    HeartbeatFails, Heartbeat, Crash, workerVars
      <4>4. ASSUME NEW w \in Workers, Finish(w)
            PROVE  UNCHANGED api
        BY <4>4 DEF Finish, CheckEligibility, RunFails, StageRefresh, StageFetch,
                    ReturnResult, CommitPublication, RollBackIneligible, RollBackStale,
                    CheckResult, CompleteResult, CheckFailure, RecordFailure,
                    CancelIneligible
      <4> QED BY <4>1, <4>2, <4>3, <4>4 DEF Next
    <3>3. CASE UNCHANGED api
      BY <3>3 DEF WorkerInv, QuotaInv
    <3>4. ASSUME NEW kind \in Kinds, NEW u \in Users, NEW x \in Sources, AdmitPlain(kind, u, x)
          PROVE  api'.user = u /\ quota[u] > 0
      BY <3>4 DEF AdmitPlain, JobAllowed
    <3>5. CASE CreatePlain
      <4>1. api.step = "admitted" /\ api' = [api EXCEPT !.step = "created"]
        BY <3>5 DEF CreatePlain
      <4>2. api'.user = api.user
        BY <4>1 DEF WorkerInv, WorkerTypeOK
      <4> QED BY <4>1, <4>2 DEF WorkerInv, QuotaInv
    <3> QED BY <1>1, <3>2, <3>3, <3>4, <3>5
  <2> QED
    BY <2>2, <2>3 DEF QuotaInv, QuotaOvershoot
<1> QED
  BY <1>2, <1>3

-----------------------------------------------------------------------------
(* Schedules.                                                               *)

\* A lifecycle transaction closes the source schedules it invalidates.
LEMMA MutateSchedules ==
    ASSUME LifecycleTypeOK, ScheduleInv, Mutate
    PROVE  ScheduleInv'
<1>1. ASSUME NEW s \in Subscriptions, srcSched[s].on
      PROVE  /\ subs[s] = "enabled" /\ sources[SubSource[s]] = TRUE
             /\ users[SubUser[s]] \in {"active", "viewer"}
  BY <1>1, KeyAssumption DEF ScheduleInv, LiveSchedules, LifecycleTypeOK
<1>2. \A s \in Subscriptions : SubUser[s] \in Users /\ SubSource[s] \in Sources
  BY KeyAssumption
<1>3. \A s \in Subscriptions : subs[s] \in {"enabled", "disabled"} => users[SubUser[s]] # "deleted"
  BY DEF ScheduleInv, Live
<1> SUFFICES ASSUME NEW s \in Subscriptions
             PROVE  /\ srcSched'[s].on => /\ subs'[s] = "enabled"
                                          /\ sources'[SubSource[s]]
                                          /\ users'[SubUser[s]] \in {"active", "viewer"}
                    /\ subs'[s] \in {"enabled", "disabled"} => users'[SubUser[s]] # "deleted"
  BY DEF ScheduleInv, LiveSchedules, Live
<1> DEFINE Goal == /\ srcSched'[s].on => /\ subs'[s] = "enabled"
                                         /\ sources'[SubSource[s]]
                                         /\ users'[SubUser[s]] \in {"active", "viewer"}
                   /\ subs'[s] \in {"enabled", "disabled"} => users'[SubUser[s]] # "deleted"
<1> USE DEF LifecycleTypeOK
<1>4. ASSUME NEW u \in Users, NEW state \in UserStates, update_user(u, state)
      PROVE  Goal
  <2>1. /\ UNCHANGED <<sources, subs>> /\ users' = [users EXCEPT ![u] = state]
        /\ state \in {"active", "viewer", "disabled"}
        /\ state = "active" => UNCHANGED srcSched
        /\ state # "active" => srcSched' = Closed(SubsOf(u))
    BY <1>4 DEF update_user
  <2>2. srcSched'[s].on => srcSched[s].on /\ (state # "active" => SubUser[s] # u)
    BY <2>1, ClosedSchedules DEF SubsOf
  <2> QED BY <1>1, <1>2, <1>3, <2>1, <2>2
<1>5. ASSUME NEW u \in Users, delete_user(u)
      PROVE  Goal
  <2>1. /\ users' = [users EXCEPT ![u] = "deleted"]
        /\ subs'[s] = IF SubUser[s] = u /\ Live(s) THEN "deleted" ELSE subs[s]
        /\ srcSched'[s] = IF SubUser[s] = u THEN Off ELSE srcSched[s]
    BY <1>5 DEF delete_user
  <2>2. sources'[SubSource[s]] = (/\ sources[SubSource[s]]
                                  /\ ~(/\ SubSource[s] \in PrivateSources
                                       /\ \E t \in SubsOf(u) : SubSource[t] = SubSource[s]))
    BY <1>2, <1>5 DEF delete_user
  <2>3. srcSched'[s].on => srcSched[s].on /\ SubUser[s] # u
    BY <2>1 DEF Off
  <2>4. srcSched'[s].on => sources'[SubSource[s]]
    BY ZenonT(40), <1>1, <2>2, <2>3, OwnerAssumption DEF SubsOf
  <2> QED BY <1>1, <1>2, <1>3, <2>1, <2>3, <2>4 DEF Live
<1>6. ASSUME NEW x \in Sources, NEW on \in BOOLEAN, update_source(x, on)
      PROVE  Goal
  <2>1. /\ UNCHANGED <<users, subs>> /\ sources' = [sources EXCEPT ![x] = on]
        /\ on => UNCHANGED srcSched
        /\ ~on => srcSched' = Closed({t \in Subscriptions : SubSource[t] = x})
    BY <1>6 DEF update_source
  <2>2. srcSched'[s].on => srcSched[s].on /\ (~on => SubSource[s] # x)
    BY <2>1, ClosedSchedules
  <2> QED BY <1>1, <1>2, <1>3, <2>1, <2>2
<1>7. ASSUME NEW t \in Subscriptions, create_subscription(t)
      PROVE  Goal
  BY <1>1, <1>2, <1>3, <1>7 DEF create_subscription
<1>8. ASSUME NEW t \in Subscriptions, NEW on \in BOOLEAN, update_subscription(t, on)
      PROVE  Goal
  <2>1. /\ UNCHANGED <<users, sources>> /\ subs[t] \in {"enabled", "disabled"}
        /\ subs' = [subs EXCEPT ![t] = IF on THEN "enabled" ELSE "disabled"]
        /\ on => UNCHANGED srcSched
        /\ ~on => srcSched' = Closed({t})
    BY <1>8 DEF update_subscription, Live
  <2>2. srcSched'[s].on => srcSched[s].on /\ (~on => s # t)
    BY <2>1, ClosedSchedules
  <2> QED BY <1>1, <1>2, <1>3, <2>1, <2>2
<1>9. ASSUME NEW t \in Subscriptions, delete_subscription(t)
      PROVE  Goal
  <2>1. /\ UNCHANGED users /\ subs' = [subs EXCEPT ![t] = "deleted"]
        /\ srcSched' = [srcSched EXCEPT ![t] = Off]
    BY <1>9 DEF delete_subscription
  <2>2. srcSched'[s].on => srcSched[s].on /\ s # t
    BY <2>1 DEF Off
  <2>3. s # t /\ Live(s) /\ sources[SubSource[s]] => sources'[SubSource[s]]
    <3>1. sources' = [sources EXCEPT ![SubSource[t]] =
                        @ /\ \/ SubSource[t] \notin PrivateSources
                             \/ \E r \in Subscriptions \ {t} :
                                   Live(r) /\ SubSource[r] = SubSource[t]]
      BY <1>9 DEF delete_subscription
    <3>2. CASE SubSource[s] = SubSource[t]
      <4>1. sources'[SubSource[t]] =
               (sources[SubSource[t]] /\ \/ SubSource[t] \notin PrivateSources
                                         \/ \E r \in Subscriptions \ {t} :
                                               Live(r) /\ SubSource[r] = SubSource[t])
        BY <1>2, <3>1, Zenon
      <4> QED BY <3>2, <4>1
    <3>3. CASE SubSource[s] # SubSource[t]
      BY <1>2, <3>1, <3>3
    <3> QED BY <3>2, <3>3
  <2> QED BY <1>1, <1>3, <2>1, <2>2, <2>3 DEF Live
<1>10. ASSUME NEW u, NEW on, NEW every, update_user_schedule(u, on, every)
       PROVE  Goal
  BY <1>1, <1>3, <1>10 DEF update_user_schedule
<1>11. ASSUME NEW t \in Subscriptions, NEW on \in BOOLEAN, NEW every,
              update_subscription_schedule(t, on, every)
       PROVE  Goal
  <2>1. /\ UNCHANGED <<users, sources, subs>>
        /\ on => subs[t] = "enabled" /\ sources[SubSource[t]] /\ users[SubUser[t]] # "disabled"
    BY <1>11 DEF update_subscription_schedule
  <2>2. srcSched'[s].on => srcSched[s].on \/ (s = t /\ on)
    BY <1>11 DEF update_subscription_schedule
  <2>3. on => users[SubUser[t]] \in {"active", "viewer"}
    <3>1. users[SubUser[t]] \in {"active", "viewer", "disabled", "deleted"}
      BY <1>2 DEF UserStates
    <3> QED BY <1>3, <2>1, <3>1
  <2>4. CASE srcSched[s].on
    BY <1>1, <1>3, <2>1, <2>4
  <2>5. CASE ~srcSched[s].on
    BY <1>3, <2>1, <2>2, <2>3, <2>5
  <2> QED BY <2>4, <2>5
<1> QED
  BY <1>4, <1>5, <1>6, <1>7, <1>8, <1>9, <1>10, <1>11
     DEF Mutate, UserChange, SourceChange, SubscriptionChange, ScheduleChange

\* Neither evaluation, publication nor time opens a source schedule or touches
\* the users, sources and subscriptions.
LEMMA ScheduleInvNext ==
    ASSUME LifecycleTypeOK, ScheduleInv, [Next]_vars
    PROVE  ScheduleInv'
<1>1. ASSUME UNCHANGED <<users, sources, subs>>,
             \A s \in Subscriptions : srcSched'[s].on = srcSched[s].on
      PROVE  ScheduleInv'
  BY <1>1 DEF ScheduleInv, LiveSchedules, Live
<1>2. CASE UNCHANGED entityVars
  BY <1>1, <1>2 DEF entityVars
<1>3. ASSUME NEW u \in Users, EvaluateFeed(u)
      PROVE  ScheduleInv'
  BY <1>1, <1>3 DEF EvaluateFeed
<1>4. ASSUME NEW s \in Subscriptions, EvaluateSource(s)
      PROVE  ScheduleInv'
  <2>1. UNCHANGED <<users, sources, subs>>
    BY <1>4 DEF EvaluateSource
  <2>2. \E n : NextSourceRun(s, n)
    BY <1>4 DEF EvaluateSource, ActorBlocked, SkipSource, EnqueueSource
  <2>3. srcSched[s] \in Schedule /\ srcSched \in [Subscriptions -> Schedule]
    BY DEF LifecycleTypeOK
  <2>4. PICK n : srcSched' = [srcSched EXCEPT ![s] = [srcSched[s] EXCEPT !.next = n]]
    BY <2>2 DEF NextSourceRun
  <2>5. [srcSched[s] EXCEPT !.next = n].on = srcSched[s].on
    BY <2>3 DEF Schedule
  <2> QED BY <1>1, <2>1, <2>3, <2>4, <2>5
<1>5. ASSUME NEW w \in Workers, CommitPublication(w)
      PROVE  ScheduleInv'
  <2>1. /\ UNCHANGED <<users, sources, subs>>
        /\ \E P : srcSched' = AdvancedSchedules(P)
    BY <1>5 DEF CommitPublication
  <2> QED BY <1>1, <2>1, AdvancedTypes DEF LifecycleTypeOK
<1>6. CASE Time
  BY <1>1, <1>6, TickTypes DEF Time
<1> QED
  BY <1>2, <1>3, <1>4, <1>5, <1>6, EntitySteps, MutateSchedules

-----------------------------------------------------------------------------
(* Publication.                                                             *)

\* A stop request waits at a full refresh only, and never at a published job.
StopOK(r) ==
    r.stop => /\ r.status \notin Published
              /\ r.status \in Active => r.kind = "user_feed_refresh"

\* Row q may replace row r in a calm step: it is neither created, revived nor
\* published, and it keeps its kind.
Still(r, q) ==
    /\ r.status # "absent" => q.status # "absent" /\ q.kind = r.kind
    /\ r.status = "absent" => q.status \in {"absent", "deleted"}
    /\ r.status = "deleted" => q.status = "deleted"
    /\ q.status # "deleted" => (q.status \in Published <=> r.status \in Published)
    /\ StopOK(q)

\* What the row transformations do to kind, status and stop request.
LEMMA RowFields ==
    ASSUME NEW r \in Row
    PROVE  /\ \A e \in Errors :
                 /\ Cancelled(r, e).kind = r.kind
                 /\ Cancelled(r, e).status = "cancelled"
           /\ \A st \in Statuses, e \in Errors :
                 /\ Ended(r, st, e).kind = r.kind
                 /\ Ended(r, st, e).status = st
                 /\ Ended(r, st, e).stop = r.stop
           /\ \A e \in Errors, d \in Nat, a \in Nat :
                 /\ PutBack(r, e, d, a).kind = r.kind
                 /\ PutBack(r, e, d, a).status = "queued"
                 /\ PutBack(r, e, d, a).stop = r.stop
           /\ Deleted(r).kind = r.kind
           /\ Deleted(r).status = "deleted"
           /\ Deleted(r).stop = FALSE
<1>1. PICK q \in Row : q = Released(r)
  BY ReleasedRow
<1>2. q.kind = r.kind /\ q.status = r.status /\ q.stop = r.stop
  <2>1. PICK r1 \in Row : r1 = [r EXCEPT !.worker = NoWorker]
    BY SetField
  <2>2. PICK r2 \in Row : r2 = [r1 EXCEPT !.token = NoToken]
    BY SetField
  <2>3. q = [r2 EXCEPT !.lock = 0]
    BY <1>1, <2>1, <2>2, Zenon DEF Released
  <2> QED BY <2>1, <2>2, <2>3 DEF Row
<1>3. ASSUME NEW e \in Errors
      PROVE  Cancelled(r, e).kind = r.kind /\ Cancelled(r, e).status = "cancelled"
  <2>1. PICK r1 \in Row : r1 = [q EXCEPT !.status = "cancelled"]
    BY SetField DEF Statuses, Terminal
  <2>2. PICK r2 \in Row : r2 = [r1 EXCEPT !.stop = TRUE]
    BY SetField
  <2>3. Cancelled(r, e) = [r2 EXCEPT !.error = e]
    BY <1>1, <2>1, <2>2, Zenon DEF Cancelled
  <2> QED BY <1>2, <2>1, <2>2, <2>3 DEF Row
<1>4. ASSUME NEW st \in Statuses, NEW e \in Errors
      PROVE  /\ Ended(r, st, e).kind = r.kind
             /\ Ended(r, st, e).status = st
             /\ Ended(r, st, e).stop = r.stop
  <2>1. PICK r1 \in Row : r1 = [q EXCEPT !.status = st]
    BY SetField
  <2>2. Ended(r, st, e) = [r1 EXCEPT !.error = e]
    BY <1>1, <2>1, Zenon DEF Ended
  <2> QED BY <1>2, <2>1, <2>2 DEF Row
<1>5. ASSUME NEW e \in Errors, NEW d \in Nat, NEW a \in Nat
      PROVE  /\ PutBack(r, e, d, a).kind = r.kind
             /\ PutBack(r, e, d, a).status = "queued"
             /\ PutBack(r, e, d, a).stop = r.stop
  <2>1. PICK r1 \in Row : r1 = [q EXCEPT !.status = "queued"]
    BY SetField DEF Statuses, Active
  <2>2. PICK r2 \in Row : r2 = [r1 EXCEPT !.error = e]
    BY SetField
  <2>3. PICK r3 \in Row : r3 = [r2 EXCEPT !.delay = d]
    BY SetCounter
  <2>4. PutBack(r, e, d, a) = [r3 EXCEPT !.attempts = a]
    BY <1>1, <2>1, <2>2, <2>3, Zenon DEF PutBack
  <2> QED BY <1>2, <2>1, <2>2, <2>3, <2>4 DEF Row
<1>6. /\ Deleted(r).kind = r.kind
      /\ Deleted(r).status = "deleted"
      /\ Deleted(r).stop = FALSE
  BY DEF Deleted, NoRow, NewRow
<1> QED
  BY <1>3, <1>4, <1>5, <1>6

\* A cancelled row is still.
LEMMA StillCancelled ==
    ASSUME NEW r \in Row, r.status \notin {"absent", "deleted"} \cup Published,
           NEW e \in Errors
    PROVE  Still(r, Cancelled(r, e))
BY RowFields DEF Still, StopOK, Published, Active

\* A running job that ends without publication, or goes back to the queue.
LEMMA StillReleased ==
    ASSUME NEW r \in Row, StopOK(r), r.status = "running", NEW e \in Errors
    PROVE  /\ Still(r, Ended(r, "failed", e))
           /\ \A d \in Nat, a \in Nat : Still(r, PutBack(r, e, d, a))
<1>1. "failed" \in Statuses
  BY DEF Statuses, Terminal
<1>2. Still(r, Ended(r, "failed", e))
  BY ZenonT(40), <1>1, RowFields DEF Still, StopOK, Published, Active
<1>3. ASSUME NEW d \in Nat, NEW a \in Nat
      PROVE  Still(r, PutBack(r, e, d, a))
  BY RowFields DEF Still, StopOK, Published, Active
<1> QED BY <1>2, <1>3

\* A deleted row is still.
LEMMA StillDeleted ==
    ASSUME NEW r \in Row
    PROVE  Still(r, Deleted(r))
BY RowFields DEF Still, StopOK, Published, Active

\* A row with the same kind, status and stop request is still.
LEMMA StillSame ==
    ASSUME NEW r, StopOK(r), NEW q,
           q.kind = r.kind, q.status = r.status, q.stop = r.stop
    PROVE  Still(r, q)
BY DEF Still, StopOK

\* In a calm step every row is still.
LEMMA CalmRows ==
    ASSUME QueueInv, \A j \in JobIds : StopOK(jobs[j]), Calm
    PROVE  \A j \in JobIds : Still(jobs[j], jobs'[j])
<1>1. jobs \in [JobIds -> Row] /\ \A j \in JobIds : jobs[j] \in Row
  BY DEF QueueInv
<1>2. \A j \in JobIds : Still(jobs[j], jobs[j])
  BY StillSame
<1>3. ASSUME NEW j \in JobIds, NEW q, Still(jobs[j], q), jobs' = [jobs EXCEPT ![j] = q]
      PROVE  \A i \in JobIds : Still(jobs[i], jobs'[i])
  BY <1>1, <1>2, <1>3
<1>4. ASSUME NEW j \in JobIds, cancel_job(j)
      PROVE  \A i \in JobIds : Still(jobs[i], jobs'[i])
  <2>1. CASE jobs[j].status = "queued"
    <3>1. jobs[j].error \in Errors
      BY <1>1 DEF Row
    <3>2. Still(jobs[j], Cancelled(jobs[j], jobs[j].error))
      BY <1>1, <2>1, <3>1, StillCancelled DEF Published
    <3>3. jobs' = [jobs EXCEPT ![j] = Cancelled(jobs[j], jobs[j].error)]
      BY <1>4, <2>1 DEF cancel_job
    <3> QED BY <1>3, <3>2, <3>3
  <2>2. CASE jobs[j].status # "queued"
    <3>1. /\ jobs[j].status = "running" /\ jobs[j].kind = "user_feed_refresh"
          /\ jobs' = [jobs EXCEPT ![j] = [jobs[j] EXCEPT !.stop = TRUE]]
      BY <1>4, <2>2 DEF cancel_job
    <3>2. PICK q \in Row : q = [jobs[j] EXCEPT !.stop = TRUE]
      BY <1>1, SetField
    <3>3. q.kind = "user_feed_refresh" /\ q.status = "running"
      BY <1>1, <3>1, <3>2 DEF Row
    <3>4. Still(jobs[j], q)
      BY <3>1, <3>3 DEF Still, StopOK, Published
    <3> QED BY <1>3, <3>1, <3>2, <3>4
  <2> QED BY <2>1, <2>2
<1>5. ASSUME NEW w \in Workers, claim_next_job(w)
      PROVE  \A i \in JobIds : Still(jobs[i], jobs'[i])
  <2>1. PICK j \in JobIds :
           /\ jobs[j].status = "queued"
           /\ jobs' = [jobs EXCEPT ![j] =
                         [jobs[j] EXCEPT !.status = "running",
                                         !.attempts = jobs[j].attempts + 1,
                                         !.worker = w, !.token = FreshToken,
                                         !.lock = Lease]]
    BY <1>5 DEF claim_next_job, IsNext, Claimable
  <2> DEFINE q == [jobs[j] EXCEPT !.status = "running",
                                  !.attempts = jobs[j].attempts + 1,
                                  !.worker = w, !.token = FreshToken,
                                  !.lock = Lease]
  <2>2. q.kind = jobs[j].kind /\ q.stop = jobs[j].stop /\ q.status = "running"
    BY <1>1 DEF Row
  <2> HIDE DEF q
  <2>3. Still(jobs[j], q)
    BY <2>1, <2>2 DEF Still, StopOK, Published, Active
  <2>4. jobs' = [jobs EXCEPT ![j] = q]
    BY <2>1 DEF q
  <2> QED BY <1>3, <2>3, <2>4
<1>7. ASSUME NEW w \in Workers,
             \/ \E retryable \in BOOLEAN : fail_or_retry_job(w, retryable)
             \/ \E error \in {"job_cancelled", "job_invalidated"} :
                   cancel_claimed_job(w, error)
             \/ extend_job_lease(w)
             \/ requeue_unstarted_claim(w)
      PROVE  \A i \in JobIds : Still(jobs[i], jobs'[i])
  <2>1. ClaimGuard(w)
    BY <1>7 DEF fail_or_retry_job, cancel_claimed_job, extend_job_lease,
                requeue_unstarted_claim, LeaseGuard
  <2>2. PICK k \in JobIds : k = held[w].job
    BY <2>1 DEF ClaimGuard
  <2>3. /\ jobs[k] \in Row /\ jobs[k].status = "running" /\ StopOK(jobs[k])
        /\ RowOK(jobs[k])
    BY <1>1, <2>1, <2>2 DEF ClaimGuard, QueueInv
  <2>4. /\ jobs[k].attempts \in Nat /\ jobs[k].max \in AttemptLimits
        /\ jobs[k].max \in Nat /\ jobs[k].attempts >= 1 /\ jobs[k].attempts <= jobs[k].max
    BY <2>3 DEF Row, RowOK
  <2>5. {"failure", "not_started", "job_cancelled", "job_invalidated"} \subseteq Errors
    BY DEF Errors
  <2>6. ASSUME NEW retryable \in BOOLEAN, fail_or_retry_job(w, retryable)
        PROVE  \A i \in JobIds : Still(jobs[i], jobs'[i])
    <3>1. Backoff(jobs[k].attempts) \in Nat
      BY <2>4, BackoffAssumption
    <3>2. \/ FailedOrQueued(jobs[k], retryable) = Ended(jobs[k], "failed", "failure")
          \/ FailedOrQueued(jobs[k], retryable)
               = PutBack(jobs[k], "failure", Backoff(jobs[k].attempts), jobs[k].attempts)
      BY DEF FailedOrQueued
    <3>3. Still(jobs[k], FailedOrQueued(jobs[k], retryable))
      BY <2>3, <2>4, <2>5, <3>1, <3>2, StillReleased
    <3>4. jobs' = [jobs EXCEPT ![k] = FailedOrQueued(jobs[k], retryable)]
      BY <2>2, <2>6 DEF fail_or_retry_job
    <3> QED BY <1>3, <3>3, <3>4
  <2>7. ASSUME NEW error \in {"job_cancelled", "job_invalidated"}, cancel_claimed_job(w, error)
        PROVE  \A i \in JobIds : Still(jobs[i], jobs'[i])
    <3>1. Still(jobs[k], Cancelled(jobs[k], error))
      BY <2>3, <2>5, StillCancelled DEF Published
    <3>2. jobs' = [jobs EXCEPT ![k] = Cancelled(jobs[k], error)]
      BY <2>2, <2>7 DEF cancel_claimed_job
    <3> QED BY <1>3, <3>1, <3>2
  <2>8. CASE extend_job_lease(w)
    <3>1. jobs' = [jobs EXCEPT ![k] = [jobs[k] EXCEPT !.lock = Lease]]
      BY <2>2, <2>8 DEF extend_job_lease
    <3>2. PICK q : q = [jobs[k] EXCEPT !.lock = Lease]
      OBVIOUS
    <3>3. q.kind = jobs[k].kind /\ q.status = jobs[k].status /\ q.stop = jobs[k].stop
      BY <2>3, <3>2 DEF Row
    <3> QED BY <1>3, <2>3, <3>1, <3>2, <3>3, StillSame
  <2>9. CASE requeue_unstarted_claim(w)
    <3>1. PICK a \in Nat : a = IF jobs[k].attempts > 0 THEN jobs[k].attempts - 1 ELSE 0
      BY <2>4
    <3>2. jobs' = [jobs EXCEPT ![k] = PutBack(jobs[k], "not_started", 0, a)]
      BY <2>2, <2>9, <3>1 DEF requeue_unstarted_claim
    <3>3. Still(jobs[k], PutBack(jobs[k], "not_started", 0, a))
      BY <2>3, <2>5, StillReleased
    <3> QED BY <1>3, <3>2, <3>3
  <2> QED BY <1>7, <2>6, <2>7, <2>8, <2>9
<1>8. CASE recover_stale_running_jobs
  <2>1. ASSUME NEW j \in JobIds
        PROVE  Still(jobs[j], jobs'[j])
    <3>1. jobs'[j] = IF Expired(j) THEN Recovered(jobs[j]) ELSE jobs[j]
      BY <1>8 DEF recover_stale_running_jobs
    <3>2. CASE Expired(j)
      <4>1. /\ jobs[j].status = "running" /\ jobs[j].attempts \in Nat
            /\ jobs[j].delay \in Nat /\ "lease_expired" \in Errors
        BY <1>1, <3>2 DEF Expired, Row, Errors
      <4>2. \/ jobs'[j] = Ended(jobs[j], "failed", "lease_expired")
            \/ jobs'[j] = PutBack(jobs[j], "lease_expired", jobs[j].delay, jobs[j].attempts)
        BY <3>1, <3>2 DEF Recovered
      <4> QED BY <1>1, <4>1, <4>2, StillReleased
    <3>3. CASE ~Expired(j)
      BY <1>2, <3>1, <3>3
    <3> QED BY <3>2, <3>3
  <2> QED BY <2>1
<1>9. ASSUME NEW S \in SUBSET JobIds, NEW error \in {"keep", "job_invalidated"},
             CancelQueued(S, error)
      PROVE  \A i \in JobIds : Still(jobs[i], jobs'[i])
  <2>1. ASSUME NEW j \in JobIds
        PROVE  Still(jobs[j], jobs'[j])
    <3>1. PICK e : e = IF error = "keep" THEN jobs[j].error ELSE error
      OBVIOUS
    <3>2. e \in Errors
      BY <1>1, <3>1 DEF Row, Errors
    <3>3. /\ j \in S => jobs[j].status = "queued"
          /\ jobs'[j] = IF j \in S THEN Cancelled(jobs[j], e) ELSE jobs[j]
      BY <1>9, <3>1 DEF CancelQueued, CancelRows
    <3> QED BY <1>1, <1>2, <3>2, <3>3, StillCancelled DEF Published
  <2> QED BY <2>1
<1>10. ASSUME NEW S \in SUBSET JobIds, prune_terminal_jobs(S)
       PROVE  \A i \in JobIds : Still(jobs[i], jobs'[i])
  BY <1>1, <1>2, <1>10, StillDeleted DEF prune_terminal_jobs
<1>11. ASSUME NEW s \in Subscriptions, DetachSubscription(s)
       PROVE  \A i \in JobIds : Still(jobs[i], jobs'[i])
  <2>1. ASSUME NEW j \in JobIds
        PROVE  Still(jobs[j], jobs'[j])
    <3>1. PICK c : c = IF jobs[j].status = "queued"
                       THEN Cancelled(jobs[j], "job_invalidated") ELSE jobs[j]
      OBVIOUS
    <3>2. /\ c \in Row /\ Still(jobs[j], c)
      <4>1. "job_invalidated" \in Errors /\ RowOK(jobs[j])
        BY DEF Errors, QueueInv
      <4>2. jobs[j].status = "queued" => Cancelled(jobs[j], "job_invalidated") \in Row
        BY <1>1, <4>1, QuietCancelled DEF Quiet, RowOK
      <4> QED BY <1>1, <1>2, <3>1, <4>1, <4>2, StillCancelled DEF Published
    <3>3. jobs'[j] = jobs[j] \/ jobs'[j] = [c EXCEPT !.sub = NoSub]
      BY <1>11, <3>1 DEF DetachSubscription
    <3>4. PICK d : d = [c EXCEPT !.sub = NoSub]
      OBVIOUS
    <3>5. d.kind = c.kind /\ d.status = c.status /\ d.stop = c.stop
      BY <3>2, <3>4 DEF Row
    <3>6. Still(jobs[j], d)
      BY <3>2, <3>5 DEF Still, StopOK
    <3> QED BY <1>2, <3>3, <3>4, <3>6
  <2> QED BY <2>1
<1>12. ASSUME NEW u \in Users, DeleteUserRows(u)
       PROVE  \A i \in JobIds : Still(jobs[i], jobs'[i])
  BY <1>1, <1>2, <1>12, StillDeleted DEF DeleteUserRows
<1>13. CASE Tick
  <2>1. ASSUME NEW j \in JobIds
        PROVE  Still(jobs[j], jobs'[j])
    <3>1. PICK n, d : jobs'[j] = [jobs[j] EXCEPT !.lock = n, !.delay = d]
      BY <1>13 DEF Tick, TickRows, Ticked
    <3>2. PICK q : q = [jobs[j] EXCEPT !.lock = n, !.delay = d]
      OBVIOUS
    <3>3. q.kind = jobs[j].kind /\ q.status = jobs[j].status /\ q.stop = jobs[j].stop
      BY <1>1, <3>2 DEF Row
    <3> QED BY <3>1, <3>2, <3>3, StillSame
  <2> QED BY <2>1
<1>14. ASSUME UNCHANGED jobs
       PROVE  \A i \in JobIds : Still(jobs[i], jobs'[i])
  BY <1>2, <1>14
<1>15. (\E w \in Workers : Abandon(w)) \/ UNCHANGED queueVars => UNCHANGED jobs
  BY DEF Abandon, queueVars
<1> QED
  BY <1>4, <1>5, <1>7, <1>8, <1>9, <1>10, <1>11, <1>12, <1>13, <1>14, <1>15
     DEF Calm, CalmStep

\* What the invariant says of one row and its publications.
PubRow(r, c) ==
    /\ r.kind \in FeedKinds /\ r.status # "deleted"
         => c = IF r.status \in Published THEN 1 ELSE 0
    /\ r.status = "absent" => c = 0
    /\ StopOK(r)

\* The job a worker holds was created, and has no publication when the worker
\* is in the two-step completion.
HoldPub(w) ==
    MyJob(w) \in JobIds =>
       /\ jobs[MyJob(w)].status # "absent"
       /\ pc[w] \in {"finishing", "completing"}
             => jobs[MyJob(w)].kind \notin FeedKinds

\* The invariant, row by row and worker by worker.
LEMMA PublicationParts ==
    PublicationInv <=> /\ \A j \in JobIds : PubRow(jobs[j], commits[j])
                       /\ \A w \in Workers : HoldPub(w)
BY DEF PublicationInv, AtomicPublication, StopHonoured, PubRow, StopOK, HoldPub

\* Claims are taken on queued jobs only; otherwise a worker keeps its claim or
\* lets it go.
LEMMA HoldSteps ==
    ASSUME WorkerInv, [Next]_vars, NEW v \in Workers
    PROVE  \/ held'[v] = held[v]
           \/ held'[v] = NoHold
           \/ jobs'[held'[v].job].status = "running"
<1>1. held \in [Workers -> [job : 0 .. MaxJobs, token : Tokens \cup {NoToken}]]
      /\ jobs \in [JobIds -> Row]
  BY DEF WorkerInv, QueueInv
<1>2. [QueueNext]_queueVars
  BY QueueStep
<1>3. ASSUME NEW w \in Workers, LetGo(w)
      PROVE  held'[v] = held[v] \/ held'[v] = NoHold
  BY <1>1, <1>3 DEF LetGo
<1>4. ASSUME NEW w \in Workers, claim_next_job(w)
      PROVE  held'[v] = held[v] \/ jobs'[held'[v].job].status = "running"
  <2>1. PICK j \in JobIds :
           /\ jobs' = [jobs EXCEPT ![j] =
                         [jobs[j] EXCEPT !.status = "running",
                                         !.attempts = jobs[j].attempts + 1,
                                         !.worker = w, !.token = FreshToken,
                                         !.lock = Lease]]
           /\ held' = [held EXCEPT ![w] = [job |-> j, token |-> FreshToken]]
    BY <1>4 DEF claim_next_job
  <2>2. jobs[j] \in Row
    BY <1>1
  <2>3. [jobs[j] EXCEPT !.status = "running",
                        !.attempts = jobs[j].attempts + 1,
                        !.worker = w, !.token = FreshToken,
                        !.lock = Lease].status = "running"
    BY <2>2 DEF Row
  <2>4. jobs'[j].status = "running"
    BY <1>1, <2>1, <2>3
  <2> QED BY <1>1, <2>1, <2>4
<1>5. ASSUME NEW w \in Workers, WorkerStep(w)
      PROVE  claim_next_job(w) \/ LetGo(w) \/ UNCHANGED held
  BY <1>5 DEF WorkerStep, complete_job, fail_or_retry_job, cancel_claimed_job,
              extend_job_lease, requeue_unstarted_claim, Abandon
<1>6. ASSUME QueueNext, ~\E w \in Workers : WorkerStep(w)
      PROVE  UNCHANGED held
  BY <1>6 DEF QueueNext, Create, create_job, create_user_feed_refresh_if_absent,
              create_source_fetch_if_absent, Insert, cancel_job, retry_job,
              recover_observed_result_after_terminal_job, recover_stale_running_jobs,
              CancelQueued, prune_terminal_jobs, DetachSubscription, DeleteUserRows, Tick
<1>7. CASE UNCHANGED queueVars
  BY <1>7 DEF queueVars
<1> QED
  BY <1>2, <1>3, <1>4, <1>5, <1>6, <1>7

\* A worker enters the two-step completion with a job without publication and
\* stays there with the same claim.
LEMMA CompletionEntered ==
    ASSUME WorkerInv, [Next]_vars, NEW v \in Workers,
           pc'[v] \in {"finishing", "completing"}
    PROVE  /\ held'[v] = held[v]
           /\ \/ pc[v] \in {"finishing", "completing"}
              \/ jobs[MyJob(v)].kind \notin FeedKinds
<1>1. /\ held \in [Workers -> [job : 0 .. MaxJobs, token : Tokens \cup {NoToken}]]
      /\ pc \in [Workers -> PCs]
  BY DEF WorkerInv, QueueInv, WorkerTypeOK
<1>2. ASSUME UNCHANGED <<pc, held>>
      PROVE  held'[v] = held[v] /\ pc[v] \in {"finishing", "completing"}
  BY <1>2
<1>3. ASSUME NEW w \in Workers, NEW p, Goto(w, p),
             p \notin {"finishing", "completing"},
             LetGo(w) \/ claim_next_job(w) \/ UNCHANGED held
      PROVE  held'[v] = held[v] /\ pc[v] \in {"finishing", "completing"}
  <2>1. v # w
    BY <1>1, <1>3 DEF Goto
  <2> QED BY <1>1, <1>3, <2>1 DEF Goto, LetGo, claim_next_job
<1>4. CASE Request \/ Mutate \/ Time \/ UNCHANGED vars
  <2>1. ASSUME Request
        PROVE  UNCHANGED <<pc, held>>
    <3>1. ASSUME NEW u \in Users, RequestRefresh(u)
          PROVE  UNCHANGED <<pc, held>>
      BY <3>1 DEF RequestRefresh, create_user_feed_refresh_if_absent, Insert
    <3>2. ASSUME NEW s \in Subscriptions, RequestFetch(s)
          PROVE  UNCHANGED <<pc, held>>
      BY <3>2 DEF RequestFetch, create_source_fetch_if_absent, Insert
    <3>3. ASSUME NEW kind, NEW u, NEW x, AdmitPlain(kind, u, x)
          PROVE  UNCHANGED <<pc, held>>
      BY <3>3 DEF AdmitPlain, queueVars
    <3>4. ASSUME CreatePlain \/ RecordPlain
          PROVE  UNCHANGED <<pc, held>>
      BY <3>4 DEF CreatePlain, RecordPlain, create_job, Insert, queueVars
    <3>5. ASSUME NEW j \in JobIds, jobs_cancel(j) \/ jobs_retry(j)
          PROVE  UNCHANGED <<pc, held>>
      BY <3>5 DEF jobs_cancel, jobs_retry, cancel_job, retry_job, workerVars
    <3> QED BY <2>1, <3>1, <3>2, <3>3, <3>4, <3>5 DEF Request
  <2>2. ASSUME Mutate
        PROVE  UNCHANGED <<pc, held>>
    BY <2>2 DEF Mutate, UserChange, SourceChange, SubscriptionChange, ScheduleChange,
                update_user, delete_user, update_source, create_subscription,
                update_subscription, delete_subscription, update_user_schedule,
                update_subscription_schedule, DeleteUserRows, DetachSubscription,
                workerVars
  <2>3. ASSUME Time \/ UNCHANGED vars
        PROVE  UNCHANGED <<pc, held>>
    BY <2>3 DEF Time, Tick, vars, queueVars, workerVars
  <2> QED BY <1>2, <1>4, <2>1, <2>2, <2>3
<1>5. ASSUME NEW w \in Workers,
             \/ \E stage \in {"feeds", "ready"} : StartCycle(w, stage)
             \/ Claim(w) \/ NothingToClaim(w) \/ EndCycle(w)
             \/ HeartbeatStarts(w) \/ HeartbeatFails(w) \/ Crash(w)
      PROVE  held'[v] = held[v] /\ pc[v] \in {"finishing", "completing"}
  <2>1. \E p \in {"feeds", "ready", "claimed", "again", "idle", "checking"} : Goto(w, p)
    BY <1>5 DEF StartCycle, Claim, NothingToClaim, EndCycle, HeartbeatStarts,
                HeartbeatFails, Crash
  <2>2. LetGo(w) \/ claim_next_job(w) \/ UNCHANGED held
    BY <1>5 DEF StartCycle, Claim, NothingToClaim, EndCycle, HeartbeatStarts,
                HeartbeatFails, Crash, recover_stale_running_jobs, queueVars,
                requeue_unstarted_claim, Abandon
  <2> QED BY <1>3, <2>1, <2>2
<1>6. ASSUME NEW w \in Workers, EnqueueDueFeeds(w) \/ EnqueueDueSources(w)
      PROVE  held'[v] = held[v] /\ pc[v] \in {"finishing", "completing"}
  <2>1. \E p \in {"feeds", "sources", "ready"} : Goto(w, p)
    BY <1>6 DEF EnqueueDueFeeds, EnqueueDueSources, InTransaction
  <2>2. UNCHANGED held
    BY <1>6 DEF EnqueueDueFeeds, EnqueueDueSources, EvaluateFeed, EvaluateSource,
                _disable_read_only_schedule, SkipFeed, EnqueueFeed, ActorBlocked,
                SkipSource, EnqueueSource, create_user_feed_refresh_if_absent,
                create_source_fetch_if_absent, Insert, queueVars
  <2> QED BY <1>3, <2>1, <2>2
<1>7. ASSUME NEW w \in Workers, RecoverResult(w) \/ Heartbeat(w)
      PROVE  held'[v] = held[v] /\ pc[v] \in {"finishing", "completing"}
  BY <1>2, <1>7 DEF RecoverResult, Heartbeat, workerVars, extend_job_lease,
                    recover_observed_result_after_terminal_job
<1>8. ASSUME NEW w \in Workers, Finish(w), ~ReturnResult(w), ~CheckResult(w)
      PROVE  held'[v] = held[v] /\ pc[v] \in {"finishing", "completing"}
  <2>1. \E p \in {"fetching", "failing", "staged", "idle", "recording", "stopping",
                   "cancelling"} : Goto(w, p)
    BY <1>8 DEF Finish, CheckEligibility, RunFails, StageRefresh, StageFetch,
                CommitPublication, RollBackIneligible, RollBackStale,
                CompleteResult, CheckFailure, RecordFailure,
                CancelIneligible, AfterCheck
  <2>2. LetGo(w) \/ UNCHANGED held
    BY <1>8 DEF Finish, CheckEligibility, RunFails, StageRefresh, StageFetch,
                CommitPublication, RollBackIneligible, RollBackStale,
                CompleteResult, CheckFailure, RecordFailure, CancelIneligible,
                queueVars, complete_job, fail_or_retry_job, cancel_claimed_job, Abandon
  <2> QED BY <1>3, <2>1, <2>2
<1>9. ASSUME NEW w \in Workers, ReturnResult(w) \/ CheckResult(w)
      PROVE  /\ held'[v] = held[v]
             /\ \/ pc[v] \in {"finishing", "completing"}
                \/ jobs[MyJob(v)].kind \notin FeedKinds
  BY <1>1, <1>9 DEF ReturnResult, CheckResult, Goto, queueVars
<1> QED
  BY <1>4, <1>5, <1>6, <1>7, <1>8, <1>9 DEF Next

\* No created row changes its kind.
KindsKept ==
    \A j \in JobIds :
        jobs[j].status # "absent" => jobs'[j].status # "absent" /\ jobs'[j].kind = jobs[j].kind

\* What the workers hold stays as the invariant says when no kind changes.
LEMMA HoldPubNext ==
    ASSUME WorkerInv, [Next]_vars, KindsKept, \A w \in Workers : HoldPub(w),
           NEW v \in Workers
    PROVE  HoldPub(v)'
<1> SUFFICES ASSUME held'[v].job \in JobIds
             PROVE  /\ jobs'[held'[v].job].status # "absent"
                    /\ pc'[v] \in {"finishing", "completing"}
                          => jobs'[held'[v].job].kind \notin FeedKinds
  BY DEF HoldPub, MyJob
<1>1. held'[v] # NoHold
  BY BoundsAssumption DEF NoHold, JobIds
<1>2. jobs'[held'[v].job].status # "absent"
  <2>1. CASE held'[v] = held[v]
    BY <2>1 DEF HoldPub, MyJob, KindsKept
  <2> QED BY <1>1, <2>1, HoldSteps
<1>3. ASSUME pc'[v] \in {"finishing", "completing"}
      PROVE  jobs'[held'[v].job].kind \notin FeedKinds
  <2>1. /\ held'[v] = held[v]
        /\ \/ pc[v] \in {"finishing", "completing"}
           \/ jobs[held[v].job].kind \notin FeedKinds
    BY <1>3, CompletionEntered DEF MyJob
  <2>2. held[v].job \in JobIds
    BY <2>1
  <2> QED BY <2>1, <2>2 DEF HoldPub, MyJob, KindsKept
<1> QED BY <1>2, <1>3

\* A still row and its publications.
LEMMA StillPub ==
    ASSUME NEW r, NEW q, NEW c, PubRow(r, c), Still(r, q)
    PROVE  PubRow(q, c)
BY DEF PubRow, Still, Published

\* Every row keeps its part of the invariant, whatever the step: the publication
\* and the status change together.
LEMMA PubRowNext ==
    ASSUME WorkerInv, PublicationInv, [Next]_vars
    PROVE  /\ \A j \in JobIds : PubRow(jobs'[j], commits'[j])
           /\ KindsKept
<1>1. /\ jobs \in [JobIds -> Row] /\ commits \in [JobIds -> Nat] /\ QueueInv
      /\ \A j \in JobIds : jobs[j] \in Row
      /\ \A j \in JobIds : PubRow(jobs[j], commits[j])
      /\ \A j \in JobIds : StopOK(jobs[j])
  BY PublicationParts DEF WorkerInv, WorkerTypeOK, QueueInv, PubRow
<1> DEFINE Goal == /\ \A j \in JobIds : PubRow(jobs'[j], commits'[j])
                   /\ KindsKept
<1>2. CASE UNCHANGED vars
  BY <1>1, <1>2 DEF vars, queueVars, workerVars, KindsKept
<1>3. CASE Calm /\ UNCHANGED commits
  <2>1. \A j \in JobIds : Still(jobs[j], jobs'[j])
    BY <1>1, <1>3, CalmRows
  <2>2. KindsKept
    BY <2>1 DEF Still, KindsKept
  <2> QED BY <1>1, <1>3, <2>1, <2>2, StillPub
<1>4. ASSUME NEW j \in JobIds, NEW q, NEW c, jobs' = [jobs EXCEPT ![j] = q],
             commits' = [commits EXCEPT ![j] = c], PubRow(q, c),
             jobs[j].status # "absent" => q.status # "absent" /\ q.kind = jobs[j].kind
      PROVE  Goal
  <2>1. KindsKept
    BY <1>1, <1>4 DEF KindsKept
  <2> QED BY <1>1, <1>4, <2>1
<1>5. CASE (Manual \/ Automatic) /\ UNCHANGED commits
  <2>1. ASSUME NEW kind, NEW u, NEW x, NEW s, NEW auto, NEW p, NEW m,
               Insert(NewRow(kind, u, x, s, auto, p, m))
        PROVE  \E j, q : /\ j \in JobIds /\ jobs[j].status = "absent"
                         /\ jobs' = [jobs EXCEPT ![j] = q]
                         /\ q.status = "queued" /\ q.stop = FALSE
    <3>1. PICK q : q = NewRow(kind, u, x, s, auto, p, m)
      OBVIOUS
    <3>2. q.status = "queued" /\ q.stop = FALSE
      BY <3>1 DEF NewRow
    <3>3. \E j \in JobIds : jobs[j].status = "absent" /\ jobs' = [jobs EXCEPT ![j] = q]
      BY <2>1, <3>1 DEF Insert
    <3> QED BY <3>2, <3>3
  <2>2. PICK j, q : /\ j \in JobIds /\ jobs[j].status = "absent"
                    /\ jobs' = [jobs EXCEPT ![j] = q]
                    /\ q.status = "queued" /\ q.stop = FALSE
    <3>1. CASE Manual
      BY <2>1, <3>1 DEF Manual, create_job, create_user_feed_refresh_if_absent,
                        create_source_fetch_if_absent
    <3>2. CASE Automatic
      BY <2>1, <3>2 DEF Automatic, EnqueueFeed, EnqueueSource,
                        create_user_feed_refresh_if_absent, create_source_fetch_if_absent
    <3> QED BY <1>5, <3>1, <3>2
  <2>3. commits[j] = 0 /\ commits' = [commits EXCEPT ![j] = 0]
    BY <1>1, <1>5, <2>2 DEF PubRow
  <2>4. PubRow(q, 0)
    BY <2>2 DEF PubRow, StopOK, Published
  <2> QED BY <1>4, <2>2, <2>3, <2>4
<1>6. ASSUME NEW j \in JobIds, NEW d \in Nat, NEW a \in Nat,
             jobs[j].status # "absent",
             jobs' = [jobs EXCEPT ![j] = [PutBack(jobs[j], "none", d, a) EXCEPT !.stop = FALSE]],
             commits' = [commits EXCEPT ![j] = 0]
      PROVE  Goal
  <2>1. "none" \in Errors
    BY DEF Errors
  <2>2. PICK b \in Row : b = PutBack(jobs[j], "none", d, a)
    BY <1>1, <2>1, PutBackRow
  <2>3. b.status = "queued" /\ b.kind = jobs[j].kind
    BY SMTT(30), <1>1, <2>1, <2>2, PutBackRow
  <2>4. PICK q : q = [b EXCEPT !.stop = FALSE]
    OBVIOUS
  <2>5. q.status = "queued" /\ q.kind = jobs[j].kind /\ q.stop = FALSE
    BY <2>2, <2>3, <2>4 DEF Row
  <2>6. PubRow(q, 0)
    BY <2>5 DEF PubRow, StopOK, Published
  <2> QED BY <1>4, <1>6, <2>2, <2>4, <2>5, <2>6
<1>7. ASSUME NEW j \in JobIds, jobs_retry(j)
      PROVE  Goal
  BY <1>6, <1>7 DEF jobs_retry, retry_job
<1>8. ASSUME NEW w \in Workers, RecoverResult(w)
      PROVE  Goal
  <2>1. PICK j \in JobIds : /\ recover_observed_result_after_terminal_job(j)
                            /\ commits' = [commits EXCEPT ![j] = 0]
    BY <1>8 DEF RecoverResult
  <2>2. PICK d \in Nat :
           jobs' = [jobs EXCEPT ![j] =
                      [PutBack(jobs[j], "none", d, jobs[j].attempts) EXCEPT !.stop = FALSE]]
    <3>1. PICK n : n = Backoff(IF jobs[j].attempts > 0 THEN jobs[j].attempts ELSE 1)
      OBVIOUS
    <3>2. n \in Nat
      <4>1. /\ jobs[j].attempts \in Nat /\ jobs[j].max \in AttemptLimits
            /\ jobs[j].max \in Nat \ {0} /\ jobs[j].attempts <= jobs[j].max
        BY <1>1, <2>1 DEF recover_observed_result_after_terminal_job, QueueInv, RowOK, Row
      <4>2. (IF jobs[j].attempts > 0 THEN jobs[j].attempts ELSE 1) \in 1 .. jobs[j].max
        BY <4>1
      <4> QED BY <3>1, <4>1, <4>2, BackoffAssumption
    <3>3. \A d \in 0 .. n : d \in Nat
      BY <3>2
    <3> QED BY <2>1, <3>1, <3>3 DEF recover_observed_result_after_terminal_job
  <2>3. jobs[j].attempts \in Nat /\ jobs[j].status # "absent"
    BY <1>1, <2>1 DEF recover_observed_result_after_terminal_job, Row
  <2> QED BY <1>6, <2>1, <2>2, <2>3
<1>9. ASSUME NEW w \in Workers, NEW status \in Terminal \ {"cancelled"}, NEW S, NEW c,
             S \subseteq {j \in JobIds : jobs[j].status = "queued"},
             complete_job(w, status, S), ~jobs[MyJob(w)].stop,
             commits' = [commits EXCEPT ![MyJob(w)] = c],
             jobs[MyJob(w)].kind \in FeedKinds => c = IF status \in Published THEN 1 ELSE 0
      PROVE  Goal
  <2>1. PICK k \in JobIds : k = MyJob(w) /\ jobs[k].status = "running" /\ ~jobs[k].stop
    BY <1>9 DEF complete_job, LeaseGuard, ClaimGuard, MyJob
  <2>2. PICK e \in Errors : e = IF status = "failed" THEN "failure" ELSE "none"
    BY DEF Errors
  <2>3. PICK q : q = Ended(jobs[k], status, e)
    OBVIOUS
  <2>4. q.kind = jobs[k].kind /\ q.status = status /\ q.stop = jobs[k].stop
    <3>1. status \in Statuses /\ jobs[k] \in Row
      BY <1>1 DEF Statuses
    <3> QED BY ZenonT(40), <2>3, <3>1, RowFields
  <2>5. PubRow(q, c)
    BY <1>9, <2>1, <2>4 DEF PubRow, StopOK, Terminal
  <2>6. PICK C \in [JobIds -> Row] : C = CancelRows(S, "keep")
    <3>1. CancelRows(S, "keep") \in [JobIds -> Row]
      BY <1>1, <1>9, QuietCancelRows
    <3> QED BY <3>1
  <2>7. jobs' = [C EXCEPT ![k] = q]
    BY <1>9, <2>1, <2>2, <2>3, <2>6 DEF complete_job, MyJob
  <2>8. ASSUME NEW i \in JobIds
        PROVE  Still(jobs[i], C[i])
    <3>1. jobs[i].error \in Errors
      BY <1>1 DEF Row
    <3>2. C[i] = IF i \in S THEN Cancelled(jobs[i], jobs[i].error) ELSE jobs[i]
      BY <2>6 DEF CancelRows
    <3>3. i \in S => jobs[i].status = "queued"
      BY <1>9
    <3> QED BY <1>1, <3>1, <3>2, <3>3, StillCancelled, StillSame DEF Published
  <2>9. ASSUME NEW i \in JobIds
        PROVE  /\ PubRow(jobs'[i], commits'[i])
               /\ jobs[i].status # "absent"
                    => jobs'[i].status # "absent" /\ jobs'[i].kind = jobs[i].kind
    <3>1. CASE i = k
      <4>1. jobs'[i] = q /\ commits'[i] = c
        BY <1>1, <1>9, <2>1, <2>7, <3>1
      <4> QED BY <2>1, <2>4, <2>5, <3>1, <4>1 DEF Terminal
    <3>2. CASE i # k
      <4>1. jobs'[i] = C[i] /\ commits'[i] = commits[i]
        BY <1>1, <1>9, <2>1, <2>7, <3>2
      <4>2. Still(jobs[i], C[i])
        BY <2>8
      <4> QED BY <1>1, <4>1, <4>2, StillPub DEF Still
    <3> QED BY <3>1, <3>2
  <2> QED BY <2>9 DEF KindsKept
<1>10. ASSUME NEW w \in Workers, CommitPublication(w)
       PROVE  Goal
  <2>1. PICK status, P : status \in Published /\ complete_job(w, status, AdvancedJobs(P))
    BY <1>10 DEF CommitPublication
  <2>2. PICK k \in JobIds : k = MyJob(w)
    BY <2>1 DEF complete_job, LeaseGuard, ClaimGuard, MyJob
  <2>3. jobs[k].status = "running" /\ ~jobs[k].stop
    BY <1>10, <2>2 DEF CommitPublication, EligibleNow, Eligible
  <2>4. commits' = [commits EXCEPT ![k] = commits[k] + 1]
    BY <1>10, <2>2 DEF CommitPublication
  <2>5. jobs[k].kind \in FeedKinds => commits[k] + 1 = 1
    BY <1>1, <2>3 DEF PubRow, Published
  <2>6. /\ status \in Terminal \ {"cancelled"}
        /\ AdvancedJobs(P) \subseteq {j \in JobIds : jobs[j].status = "queued"}
    BY <2>1 DEF Published, Terminal, AdvancedJobs, Queued
  <2> QED BY <1>9, <2>1, <2>2, <2>3, <2>4, <2>5, <2>6
<1>11. ASSUME NEW w \in Workers, CompleteResult(w)
       PROVE  Goal
  <2>1. CASE Abandon(w)
    <3>1. Calm /\ UNCHANGED commits
      BY <1>11, <2>1 DEF CompleteResult, Calm, CalmStep
    <3> QED BY <1>3, <3>1
  <2>2. CASE ~Abandon(w)
    <3>1. PICK status \in {"succeeded", "failed"} : complete_job(w, status, {})
      BY <1>11, <2>2 DEF CompleteResult
    <3>2. PICK k \in JobIds : k = MyJob(w) /\ jobs[k].status = "running"
      BY <3>1 DEF complete_job, LeaseGuard, ClaimGuard, MyJob
    <3>3. jobs[k].kind \notin FeedKinds
      BY <1>11, <3>2, PublicationParts DEF CompleteResult, HoldPub
    <3>4. ~jobs[k].stop
      BY <1>1, <3>2, <3>3 DEF StopOK, FeedKinds, Active
    <3>5. commits' = [commits EXCEPT ![k] = commits[k]]
      BY <1>1, <1>11 DEF CompleteResult
    <3>6. status \in Terminal \ {"cancelled"}
      BY DEF Terminal
    <3> QED BY <1>9, <3>1, <3>2, <3>3, <3>4, <3>5, <3>6
  <2> QED BY <2>1, <2>2
<1> QED
  BY <1>2, <1>3, <1>5, <1>7, <1>8, <1>10, <1>11, Simulates

\* Every step keeps the invariant of the publication.
LEMMA PublicationInvNext ==
    ASSUME WorkerInv, PublicationInv, [Next]_vars
    PROVE  PublicationInv'
<1>1. (\A j \in JobIds : PubRow(jobs'[j], commits'[j])) /\ KindsKept
  BY PubRowNext
<1>2. \A w \in Workers : HoldPub(w)
  BY PublicationParts
<1>3. \A w \in Workers : HoldPub(w)'
  BY <1>1, <1>2, HoldPubNext
<1> QED
  BY <1>1, <1>3 DEF PublicationInv, AtomicPublication, StopHonoured, PubRow, StopOK,
                    HoldPub, MyJob

-----------------------------------------------------------------------------
(* The theorems.                                                            *)

\* The initial states satisfy the invariants.
LEMMA InitInvs ==
    ASSUME Init
    PROVE  WorkerInv /\ QuotaInv /\ ScheduleInv /\ PublicationInv
<1>1. QueueInv
  BY InitInv DEF Init
<1>2. WorkerInv
  <2>1. LifecycleTypeOK
    <3>1. Off \in Schedule
      BY DEF Off, Schedule
    <3> QED BY <3>1 DEF Init, LifecycleInit, LifecycleTypeOK, UserStates, SubStates
  <2>2. /\ pc \in [Workers -> PCs] /\ writer \in Workers \cup {NoWorker}
        /\ quota \in [Users -> Int] /\ commits \in [JobIds -> Nat]
    BY QuotaAssumption DEF Init, PCs
  <2>3. /\ api \in [step : {"none", "admitted", "created"}, kind : Kinds,
                    user : Users \cup {NoUser}, source : Sources \cup {NoSource}]
        /\ api.step = "none"
    BY DEF Init, NoRequest, Kinds
  <2> QED
    BY <1>1, <2>1, <2>2, <2>3
       DEF WorkerInv, WorkerTypeOK, QueueTypeOK, QueueInv, ScheduleTypeOK
<1>3. QuotaInv
  BY QuotaAssumption DEF Init, NoRequest, QuotaInv, QuotaOvershoot
<1>4. ScheduleInv
  BY KeyAssumption
     DEF Init, LifecycleInit, Off, ScheduleInv, LiveSchedules, Live
<1>5. PublicationInv
  <2>1. \A j \in JobIds : /\ jobs[j].status = "absent" /\ jobs[j].stop = FALSE
                          /\ commits[j] = 0
    BY DEF Init, QueueInit, NoRow, NewRow
  <2>2. \A w \in Workers : MyJob(w) \notin JobIds
    BY BoundsAssumption DEF Init, QueueInit, MyJob, NoHold, JobIds
  <2>3. \A j \in JobIds : PubRow(jobs[j], commits[j])
    BY <2>1 DEF PubRow, StopOK, Published
  <2> QED BY <2>2, <2>3, PublicationParts DEF HoldPub
<1> QED
  BY <1>2, <1>3, <1>4, <1>5

\* The inductive invariant of the types, the queue's own included.
THEOREM WorkerInvariant == Spec => []WorkerInv
<1>1. Init => WorkerInv
  BY InitInvs
<1>2. WorkerInv /\ [Next]_vars => WorkerInv'
  BY WorkerInvNext
<1> QED
  BY <1>1, <1>2, PTL DEF Spec

\* The types of the queue, the entities, the worker processes and the requests.
THEOREM WorkerTypes == Spec => []WorkerTypeOK
<1>1. WorkerInv => WorkerTypeOK
  BY DEF WorkerInv
<1> QED
  BY <1>1, WorkerInvariant, PTL

\* The worker, the schedules and the API use the queue only through its
\* operations, so everything proved of the queue holds of the composed system.
THEOREM WorkerImplementsQueue == Spec => ImplementsQueue
<1>1. Init => QueueInit
  BY DEF Init
<1>2. WorkerInv /\ [Next]_vars => [QueueNext]_queueVars
  BY QueueStep
<1> QED
  BY <1>1, <1>2, WorkerInvariant, PTL DEF Spec, QueueSpec, ImplementsQueue

\* The single active refresh and fetch, the retry budget, the claims and the
\* exclusive lease hold of the workers and the API too.
THEOREM WorkerKeepsQueue ==
    Spec => /\ [](OneActiveRefresh /\ OneActiveFetch /\ RetryBudget /\ ClaimIntegrity)
            /\ LeaseExclusive
BY WorkerImplementsQueue, SingleRefresh, SingleFetch, BudgetKept, ClaimsSound,
   LeaseIsExclusive, PTL DEF ImplementsQueue

\* The quota is overspent by at most one job, although a plain job is admitted,
\* created and metered in three transactions beside the schedules.
THEOREM QuotaKept == Spec => []QuotaOvershoot
<1>1. Init => QuotaInv
  BY InitInvs
<1>2. WorkerInv /\ QuotaInv /\ [Next]_vars => QuotaInv'
  BY QuotaInvNext
<1>3. QuotaInv => QuotaOvershoot
  BY DEF QuotaInv
<1> QED
  BY <1>1, <1>2, <1>3, WorkerInvariant, PTL DEF Spec

\* A source schedule that is on has an enabled subscription, an enabled source
\* and a user who is neither disabled nor deleted.
THEOREM SchedulesLive == Spec => []LiveSchedules
<1>1. Init => ScheduleInv
  BY InitInvs
<1>2. WorkerInv /\ ScheduleInv /\ [Next]_vars => ScheduleInv'
  BY ScheduleInvNext DEF WorkerInv, WorkerTypeOK
<1>3. ScheduleInv => LiveSchedules
  BY DEF ScheduleInv
<1> QED
  BY <1>1, <1>2, <1>3, WorkerInvariant, PTL DEF Spec

\* The inductive invariant of the publication.
THEOREM PublicationInvariant == Spec => []PublicationInv
<1>1. Init => PublicationInv
  BY InitInvs
<1>2. WorkerInv /\ PublicationInv /\ [Next]_vars => PublicationInv'
  BY PublicationInvNext
<1> QED
  BY <1>1, <1>2, WorkerInvariant, PTL DEF Spec

\* A feed job has published exactly once when it ended succeeded or partial,
\* and nothing in any other state, through crashes, lost leases, retries and
\* recovered results.
THEOREM PublicationAtomic == Spec => []AtomicPublication
<1>1. PublicationInv => AtomicPublication
  BY DEF PublicationInv
<1> QED
  BY <1>1, PublicationInvariant, PTL

\* A job with an accepted stop request never ends succeeded or partial.
THEOREM StopKept == Spec => []StopHonoured
<1>1. PublicationInv => StopHonoured
  BY DEF PublicationInv
<1> QED
  BY <1>1, PublicationInvariant, PTL

\* Only a commit adds to the publications of a job.
LEMMA PublishStep ==
    ASSUME WorkerInv, Next, NEW j \in JobIds, commits'[j] > commits[j]
    PROVE  /\ Runnable(jobs[j]) /\ ~jobs[j].stop
           /\ \E w \in Workers : LeaseGuard(w) /\ MyJob(w) = j
<1>1. commits \in [JobIds -> Nat]
  BY DEF WorkerInv, WorkerTypeOK
<1>2. ~UNCHANGED commits
  BY <1>1
<1>3. \A i : commits' # [commits EXCEPT ![i] = 0]
  BY <1>1
<1>4. PICK w \in Workers : CommitPublication(w)
  BY <1>2, <1>3, Simulates DEF jobs_retry, RecoverResult, CompleteResult
<1>5. /\ commits' = [commits EXCEPT ![MyJob(w)] = @ + 1]
      /\ EligibleNow(MyJob(w)) /\ LeaseGuard(w)
  BY <1>4 DEF CommitPublication, complete_job
<1>6. MyJob(w) = j
  BY <1>1, <1>5
<1> QED
  BY <1>5, <1>6 DEF EligibleNow, Eligible

\* Publication finds user, source and subscription fit to run the job, no stop
\* request, and the live lease of the publisher, at the moment of the commit.
THEOREM PublishedEligible == Spec => PublishOnlyEligible
<1>1. WorkerInv /\ [Next]_vars
        => [\A j \in JobIds :
               commits'[j] > commits[j]
                 => /\ Runnable(jobs[j]) /\ ~jobs[j].stop
                    /\ \E w \in Workers : LeaseGuard(w) /\ MyJob(w) = j]_vars
  BY PublishStep
<1> QED
  BY <1>1, WorkerInvariant, PTL DEF Spec, PublishOnlyEligible

\* A row that was free and now holds a scheduled job was filled by the
\* evaluation of a due schedule.
LEMMA ScheduledStep ==
    ASSUME WorkerInv, PublicationInv, Next, NEW j \in JobIds,
           jobs[j].status = "absent", jobs'[j].status = "queued", jobs'[j].auto
    PROVE  Automatic
<1>1. /\ jobs \in [JobIds -> Row] /\ QueueInv /\ \A i \in JobIds : StopOK(jobs[i])
  BY PublicationParts DEF WorkerInv, QueueInv, PubRow
<1>2. ~Calm
  BY <1>1, CalmRows DEF Still
<1>3. ASSUME NEW i \in JobIds, NEW q, jobs' = [jobs EXCEPT ![i] = q]
      PROVE  i = j /\ jobs'[j] = q
  BY <1>1, <1>3
<1>4. ~Manual
  <2>1. ASSUME NEW kind, NEW u, NEW x, NEW s, NEW p, NEW m,
               Insert(NewRow(kind, u, x, s, FALSE, p, m))
        PROVE  FALSE
    <3>1. jobs'[j] = NewRow(kind, u, x, s, FALSE, p, m)
      BY <1>3, <2>1 DEF Insert
    <3> QED BY <3>1 DEF NewRow
  <2> QED
    BY <2>1 DEF Manual, create_job, create_user_feed_refresh_if_absent,
                create_source_fetch_if_absent
<1>5. ASSUME NEW i \in JobIds,
             jobs_retry(i) \/ recover_observed_result_after_terminal_job(i)
      PROVE  FALSE
  <2>1. jobs[i].status # "absent" /\ \E q : jobs' = [jobs EXCEPT ![i] = q]
    BY <1>5 DEF jobs_retry, retry_job, recover_observed_result_after_terminal_job
  <2> QED BY <1>3, <2>1
<1>6. ASSUME NEW w \in Workers, NEW status, NEW S, complete_job(w, status, S),
             S \subseteq {i \in JobIds : jobs[i].status = "queued"}
      PROVE  FALSE
  <2>1. held[w].job # j /\ j \notin S
    BY <1>6 DEF complete_job, LeaseGuard, ClaimGuard
  <2>2. jobs'[j] = jobs[j]
    BY <1>6, <2>1 DEF complete_job, CancelRows
  <2> QED BY <2>2
<1>7. ASSUME NEW w \in Workers, RecoverResult(w)
      PROVE  FALSE
  BY <1>5, <1>7 DEF RecoverResult
<1>8. ASSUME NEW w \in Workers, CommitPublication(w)
      PROVE  FALSE
  <2>1. PICK status, P : complete_job(w, status, AdvancedJobs(P))
    BY <1>8 DEF CommitPublication
  <2>2. AdvancedJobs(P) \subseteq {i \in JobIds : jobs[i].status = "queued"}
    BY DEF AdvancedJobs, Queued
  <2> QED BY <1>6, <2>1, <2>2
<1>9. ASSUME NEW w \in Workers, CompleteResult(w)
      PROVE  FALSE
  <2>1. CASE Abandon(w)
    BY <1>2, <2>1 DEF Calm, CalmStep
  <2>2. CASE ~Abandon(w)
    <3>1. PICK status : complete_job(w, status, {})
      BY <1>9, <2>2 DEF CompleteResult
    <3>2. {} \subseteq {i \in JobIds : jobs[i].status = "queued"}
      OBVIOUS
    <3> QED BY <1>6, <3>1, <3>2
  <2> QED BY <2>1, <2>2
<1> QED
  BY <1>2, <1>4, <1>5, <1>7, <1>8, <1>9, Simulates

\* A scheduled job may run when it is created, and comes when nothing it would
\* collide with is active.
LEMMA ScheduledFit ==
    ASSUME WorkerInv, Automatic, NEW j \in JobIds,
           jobs[j].status = "absent", jobs'[j].status = "queued"
    PROVE  /\ Runnable(jobs'[j])
           /\ ActiveRefresh(jobs'[j].user) = {}
           /\ jobs'[j].kind = "user_feed_refresh" => ActiveFetchesOf(jobs'[j].user) = {}
<1>1. jobs \in [JobIds -> Row]
  BY DEF WorkerInv, QueueInv
<1>2. ASSUME NEW q, Insert(q)
      PROVE  jobs'[j] = q
  BY <1>1, <1>2 DEF Insert
<1>3. ASSUME NEW u \in Users, FeedReady(u), ActiveFetchesOf(u) = {}, EnqueueFeed(u)
      PROVE  /\ Runnable(jobs'[j])
             /\ ActiveRefresh(jobs'[j].user) = {}
             /\ jobs'[j].kind = "user_feed_refresh" => ActiveFetchesOf(jobs'[j].user) = {}
  <2>1. PICK m : Insert(NewRow("user_feed_refresh", u, NoSource, NoSub, TRUE,
                               ScheduledPriority, m))
    BY <1>3 DEF EnqueueFeed, create_user_feed_refresh_if_absent
  <2>2. /\ jobs'[j].kind = "user_feed_refresh" /\ jobs'[j].user = u
        /\ jobs'[j].source = NoSource /\ jobs'[j].auto = TRUE
    <3>1. jobs'[j] = NewRow("user_feed_refresh", u, NoSource, NoSub, TRUE,
                            ScheduledPriority, m)
      BY <1>2, <2>1
    <3> QED BY <3>1 DEF NewRow
  <2>3. Runnable(jobs'[j])
    BY <1>3, <2>2 DEF Runnable, FeedReady
  <2> QED BY <1>3, <2>2, <2>3 DEF FeedReady
<1>4. ASSUME NEW s \in Subscriptions, SourceReady(s), ActiveRefresh(SubUser[s]) = {},
             EnqueueSource(s)
      PROVE  /\ Runnable(jobs'[j])
             /\ ActiveRefresh(jobs'[j].user) = {}
             /\ jobs'[j].kind = "user_feed_refresh" => ActiveFetchesOf(jobs'[j].user) = {}
  <2>1. PICK m : Insert(NewRow("source_fetch", SubUser[s], SubSource[s], s, TRUE,
                               ScheduledPriority, m))
    BY <1>4 DEF EnqueueSource, create_source_fetch_if_absent
  <2>2. /\ jobs'[j].kind = "source_fetch" /\ jobs'[j].user = SubUser[s]
        /\ jobs'[j].source = SubSource[s] /\ jobs'[j].sub = s
    <3>1. jobs'[j] = NewRow("source_fetch", SubUser[s], SubSource[s], s, TRUE,
                            ScheduledPriority, m)
      BY <1>2, <2>1
    <3> QED BY <3>1 DEF NewRow
  <2>3. s # NoSub /\ SubscriptionOf(jobs'[j]) = {s}
    BY <2>2, KeyAssumption DEF SubscriptionOf
  <2>4. Runnable(jobs'[j])
    BY <1>4, <2>2, <2>3 DEF Runnable, SourceReady
  <2> QED BY <1>4, <2>2, <2>4
<1> QED
  BY <1>3, <1>4 DEF Automatic

\* The tests of the schedules agree with the eligibility of the job they
\* create, at the moment of its creation.
THEOREM ScheduledRunnable == Spec => ScheduledEnqueue
<1>1. WorkerInv /\ PublicationInv /\ [Next]_vars
        => [\A j \in JobIds :
               jobs[j].status = "absent" /\ jobs'[j].status = "queued" /\ jobs'[j].auto
                 => /\ Runnable(jobs'[j])
                    /\ ActiveRefresh(jobs'[j].user) = {}
                    /\ jobs'[j].kind = "user_feed_refresh"
                          => ActiveFetchesOf(jobs'[j].user) = {}]_vars
  BY ScheduledStep, ScheduledFit
<1> QED
  BY <1>1, WorkerInvariant, PublicationInvariant, PTL DEF Spec, ScheduledEnqueue
=============================================================================
