------------------------------ MODULE JobQueue ------------------------------
(***************************************************************************)
(* The durable job queue of InfoHub: the table fetch_jobs of the service   *)
(* database and the operations of src/services/job_queue.py,               *)
(* job_queue_claims.py, job_cancellation.py and worker_preexecution.py.    *)
(*                                                                         *)
(* Every operation runs in one SQLite write transaction, so each is one    *)
(* action.  The callers are arbitrary: any job may be created, cancelled   *)
(* or retried at any moment, and a worker that holds a claim may present   *)
(* it at any moment, however late.  The modules above restrict the callers *)
(* to what the worker and the API really do.                               *)
(*                                                                         *)
(* Time is relative.  lock is the number of ticks left until locked_until  *)
(* (-1: it has passed), delay the number left until next_run_at (0: due).  *)
(***************************************************************************)
EXTENDS Integers, FiniteSets

CONSTANTS
    MaxJobs,        \* bound: number of rows ever created
    Users,          \* users.id
    Sources,        \* source_catalog.id
    Subscriptions,  \* user_subscriptions.id
    SubUser,        \* user_subscriptions.user_id
    SubSource,      \* user_subscriptions.source_id
    Workers,        \* worker processes (worker_id)
    Tokens,         \* claim tokens (uuid4)
    AttemptLimits,  \* values of max_attempts
    Priorities,     \* values of priority
    Reasons,        \* is the job a scheduled one (payload_json.reason)?
    Lease,          \* lease_seconds, in ticks
    RetryBase,      \* retry_base_seconds, in ticks
    NoUser, NoSource, NoSub, NoWorker, NoToken   \* SQL NULL

JobIds == 1 .. MaxJobs

\* priority of the jobs the schedules create.
ScheduledPriority == -10

\* Delay of the retry that follows attempt n: base * 2^(n-1) seconds.
Backoff(n) == RetryBase * 2^(n - 1)

ASSUME BoundsAssumption ==
    /\ MaxJobs \in Nat \ {0}
    /\ AttemptLimits \subseteq Nat \ {0}
    /\ Priorities \subseteq Int
    /\ Reasons \subseteq BOOLEAN
    /\ Lease \in Nat \ {0}
    /\ RetryBase \in Nat

ASSUME BackoffAssumption ==
    \A m \in AttemptLimits : \A n \in 1 .. m : Backoff(n) \in Nat

ASSUME KeyAssumption ==
    /\ SubUser \in [Subscriptions -> Users]
    /\ SubSource \in [Subscriptions -> Sources]
    /\ NoUser \notin Users
    /\ NoSource \notin Sources
    /\ NoSub \notin Subscriptions
    /\ NoWorker \notin Workers
    /\ NoToken \notin Tokens

VARIABLES
    jobs,   \* the rows of fetch_jobs, in creation order
    held    \* the claim each worker process has in its hands

queueVars == <<jobs, held>>

-----------------------------------------------------------------------------
(* Rows.  "source_test" stands for every job type that is neither           *)
(* deduplicated nor published into a feed.  auto is the scheduled reason    *)
(* in payload_json, stop is cancelled_at IS NOT NULL.                       *)

Kinds    == {"user_feed_refresh", "source_fetch", "source_test"}
Active   == {"queued", "running"}
Terminal == {"succeeded", "failed", "partial", "cancelled"}
Statuses == Active \cup Terminal \cup {"absent", "deleted"}
Errors   == {"none", "failure", "lease_expired", "not_started",
             "job_cancelled", "job_invalidated"}

Row == [kind     : Kinds,
        user     : Users \cup {NoUser},
        source   : Sources \cup {NoSource},
        sub      : Subscriptions \cup {NoSub},
        auto     : BOOLEAN,
        priority : Int,
        max      : Nat \ {0},
        status   : Statuses,
        attempts : Nat,
        worker   : Workers \cup {NoWorker},
        token    : Tokens \cup {NoToken},
        lock     : Int,
        delay    : Nat,
        stop     : BOOLEAN,
        error    : Errors]

\* The row create_job inserts.
NewRow(kind, u, src, s, auto, p, m) ==
    [kind |-> kind, user |-> u, source |-> src, sub |-> s, auto |-> auto,
     priority |-> p, max |-> m, status |-> "queued", attempts |-> 0,
     worker |-> NoWorker, token |-> NoToken, lock |-> 0, delay |-> 0,
     stop |-> FALSE, error |-> "none"]

\* A row that is not in the table: not created yet, or deleted.
NoRow(status) ==
    [NewRow("source_test", NoUser, NoSource, NoSub, FALSE, 0, 1)
        EXCEPT !.status = status]

\* What is left of a deleted row: a worker that still holds it knows its kind.
Deleted(r) == [NoRow("deleted") EXCEPT !.kind = r.kind]

NoHold == [job |-> 0, token |-> NoToken]

\* Fault: the claim token survives the release.
ReleasedWithToken(r) == [r EXCEPT !.worker = NoWorker, !.lock = 0]

\* worker_id, claim_token and locked_until set to NULL.
Released(r) == [r EXCEPT !.worker = NoWorker, !.token = NoToken, !.lock = 0]

\* The job ends; the job goes back to the queue, due after delay ticks.
Ended(r, status, error) ==
    [Released(r) EXCEPT !.status = status, !.error = error]

PutBack(r, error, delay, attempts) ==
    [Released(r) EXCEPT !.status = "queued", !.error = error, !.delay = delay,
                        !.attempts = attempts]

Cancelled(r, error) ==
    [Released(r) EXCEPT !.status = "cancelled", !.stop = TRUE, !.error = error]

-----------------------------------------------------------------------------
(* Conditions the operations test.                                          *)

ActiveRefresh(u) ==
    {j \in JobIds : /\ jobs[j].kind = "user_feed_refresh"
                    /\ jobs[j].user = u
                    /\ jobs[j].status \in Active}

ActiveFetch(s) ==
    {j \in JobIds : /\ jobs[j].kind = "source_fetch"
                    /\ jobs[j].sub = s
                    /\ jobs[j].status \in Active}

\* A queued row that claim_next_job may pick now, and the one it picks:
\* ORDER BY priority DESC, created_at LIMIT 1.
Claimable(j) == jobs[j].status = "queued" /\ jobs[j].delay = 0

IsNext(j) ==
    /\ Claimable(j)
    /\ \A i \in JobIds \ {j} :
          Claimable(i) => \/ jobs[j].priority > jobs[i].priority
                          \/ jobs[j].priority = jobs[i].priority /\ j < i

\* A uuid4 nobody has: neither a row nor a worker.
Fresh(t) ==
    /\ \A j \in JobIds : jobs[j].token # t
    /\ \A w \in Workers : held[w].token # t

FreshToken == CHOOSE t \in Tokens : Fresh(t)

\* WHERE id = ? AND status = 'running' AND worker_id = ? AND claim_token = ?
ClaimGuard(w) ==
    /\ held[w].job \in JobIds
    /\ jobs[held[w].job].status = "running"
    /\ jobs[held[w].job].worker = w
    /\ jobs[held[w].job].token = held[w].token

\* ... AND locked_until >= now
LeaseGuard(w) == ClaimGuard(w) /\ jobs[held[w].job].lock >= 0

-----------------------------------------------------------------------------
(* Operations of the API.                                                   *)

\* The creation itself, in the next free row.
Insert(row) ==
    \E j \in JobIds :
        /\ jobs[j].status = "absent"
        /\ \A i \in 1 .. j - 1 : jobs[i].status # "absent"
        /\ jobs' = [jobs EXCEPT ![j] = row]
        /\ UNCHANGED held

create_job(kind, u, src, p, m) ==
    /\ kind # "user_feed_refresh"
    /\ Insert(NewRow(kind, u, src, NoSub, FALSE, p, m))

\* An active refresh of the user is returned instead: nothing changes then.
create_user_feed_refresh_if_absent(u, auto, p, m) ==
    /\ ActiveRefresh(u) = {}
    /\ Insert(NewRow("user_feed_refresh", u, NoSource, NoSub, auto, p, m))

\* Fault: the active fetch of the subscription is not looked for.
CreateFetchAnyway(s, auto, p, m) ==
    Insert(NewRow("source_fetch", SubUser[s], SubSource[s], s, auto, p, m))

create_source_fetch_if_absent(s, auto, p, m) ==
    /\ ActiveFetch(s) = {}
    /\ Insert(NewRow("source_fetch", SubUser[s], SubSource[s], s, auto, p, m))

\* A queued job is cancelled at once; a running full refresh only receives
\* the stop mark and keeps its claim; every other call changes nothing.
cancel_job(j) ==
    /\ \/ /\ jobs[j].status = "queued"
          /\ jobs' = [jobs EXCEPT ![j] = Cancelled(@, @.error)]
       \/ /\ jobs[j].status = "running"
          /\ jobs[j].kind = "user_feed_refresh"
          /\ jobs' = [jobs EXCEPT ![j] = [@ EXCEPT !.stop = TRUE]]
    /\ UNCHANGED held

\* Fault: a retry does not look for an active job of the same key.
RetryAnyway(j) ==
    /\ jobs[j].status \in {"failed", "partial", "cancelled"}
    /\ jobs' = [jobs EXCEPT ![j] =
                   [PutBack(@, "none", 0, 0) EXCEPT !.stop = FALSE]]
    /\ UNCHANGED held

\* Nothing changes when another job of the same key is active: it is returned.
retry_job(j) ==
    /\ jobs[j].status \in {"failed", "partial", "cancelled"}
    /\ jobs[j].kind = "user_feed_refresh" => ActiveRefresh(jobs[j].user) = {}
    /\ jobs[j].kind = "source_fetch" /\ jobs[j].sub # NoSub
          => ActiveFetch(jobs[j].sub) = {}
    /\ jobs' = [jobs EXCEPT ![j] =
                   [PutBack(@, "none", 0, 0) EXCEPT !.stop = FALSE]]
    /\ UNCHANGED held

-----------------------------------------------------------------------------
(* Operations of the worker.                                                *)

\* Fault: the claim does not count an attempt.
ClaimUncounted(w) ==
    /\ held[w] = NoHold
    /\ \E t \in Tokens : Fresh(t)
    /\ \E j \in JobIds :
        /\ IsNext(j)
        /\ jobs' = [jobs EXCEPT ![j] =
                       [@ EXCEPT !.status = "running", !.worker = w,
                                 !.token = FreshToken, !.lock = Lease]]
        /\ held' = [held EXCEPT ![w] = [job |-> j, token |-> FreshToken]]

claim_next_job(w) ==
    /\ held[w] = NoHold
    /\ \E t \in Tokens : Fresh(t)
    /\ \E j \in JobIds :
        /\ IsNext(j)
        /\ jobs' = [jobs EXCEPT ![j] =
                       [@ EXCEPT !.status = "running",
                                 !.attempts = jobs[j].attempts + 1,
                                 !.worker = w, !.token = FreshToken,
                                 !.lock = Lease]]
        /\ held' = [held EXCEPT ![w] = [job |-> j, token |-> FreshToken]]

\* The holder gives its claim up: it ends, with or without success, or dies.
LetGo(w) == held' = [held EXCEPT ![w] = NoHold]

\* The table after queued rows S are cancelled with an error code, or with
\* the one they have ("keep").
CancelRows(S, error) ==
    [j \in JobIds |->
        IF j \in S
        THEN Cancelled(jobs[j], IF error = "keep" THEN jobs[j].error ELSE error)
        ELSE jobs[j]]

\* complete_job, with the queued rows S that the same transaction cancels
\* (advance_after_full_refresh).
complete_job(w, status, S) ==
    /\ LeaseGuard(w)
    /\ jobs' = [CancelRows(S, "keep") EXCEPT ![held[w].job] =
                   Ended(jobs[held[w].job], status,
                         IF status = "failed" THEN "failure" ELSE "none")]
    /\ LetGo(w)

FailedOrQueued(r, retryable) ==
    IF retryable /\ r.attempts < r.max
    THEN PutBack(r, "failure", Backoff(r.attempts), r.attempts)
    ELSE Ended(r, "failed", "failure")

fail_or_retry_job(w, retryable) ==
    /\ LeaseGuard(w)
    /\ jobs' = [jobs EXCEPT ![held[w].job] = FailedOrQueued(@, retryable)]
    /\ LetGo(w)

\* The lease is not tested here: an expired but unrecovered claim may cancel.
cancel_claimed_job(w, error) ==
    /\ ClaimGuard(w)
    /\ jobs' = [jobs EXCEPT ![held[w].job] = Cancelled(@, error)]
    /\ LetGo(w)

\* CASE WHEN locked_until < new THEN new ELSE locked_until
extend_job_lease(w) ==
    /\ LeaseGuard(w)
    /\ jobs[held[w].job].lock < Lease
    /\ jobs' = [jobs EXCEPT ![held[w].job] = [@ EXCEPT !.lock = Lease]]
    /\ UNCHANGED held

\* Fault: neither the claim nor the counter is tested.
RequeueUnguarded(w) ==
    /\ held[w].job \in JobIds
    /\ jobs' = [jobs EXCEPT ![held[w].job] =
                   PutBack(@, "not_started", 0, @.attempts - 1)]
    /\ LetGo(w)

\* The claim goes back to the queue and the attempt is not counted.
requeue_unstarted_claim(w) ==
    /\ ClaimGuard(w)
    /\ jobs' = [jobs EXCEPT ![held[w].job] =
                   PutBack(@, "not_started", 0,
                           IF @.attempts > 0 THEN @.attempts - 1 ELSE 0)]
    /\ LetGo(w)

\* Fault: recovery does not compare locked_until with the clock.
ExpiredAnyway(j) == jobs[j].status = "running"

Expired(j) == jobs[j].status = "running" /\ jobs[j].lock < 0

\* Fault: recovery requeues whatever the attempts.
RecoveredAlways(r) == PutBack(r, "lease_expired", r.delay, r.attempts)

Recovered(r) ==
    IF r.attempts >= r.max THEN Ended(r, "failed", "lease_expired")
    ELSE PutBack(r, "lease_expired", r.delay, r.attempts)

\* Every expired running job at once.  The holders are not told.
recover_stale_running_jobs ==
    /\ \E j \in JobIds : Expired(j)
    /\ jobs' = [j \in JobIds |-> IF Expired(j) THEN Recovered(jobs[j])
                                               ELSE jobs[j]]
    /\ UNCHANGED held

-----------------------------------------------------------------------------
(* Updates of fetch_jobs made by the transactions of other components.      *)

CancelQueued(S, error) ==
    /\ S # {}
    /\ S \subseteq {j \in JobIds : jobs[j].status = "queued"}
    /\ jobs' = CancelRows(S, error)
    /\ UNCHANGED held

\* ActorOps found the paid-for result of a fetch that ended failed or partial:
\* the same job runs again, on what is left of its retry budget and without a
\* new charge, unless the source is being fetched by any other job.
recover_observed_result_after_terminal_job(j) ==
    /\ jobs[j].kind = "source_fetch" /\ jobs[j].source # NoSource
    /\ jobs[j].status \in {"failed", "partial"}
    /\ jobs[j].attempts < jobs[j].max
    /\ ~\E i \in JobIds \ {j} : /\ jobs[i].kind = "source_fetch"
                                /\ jobs[i].source = jobs[j].source
                                /\ jobs[i].status \in Active
    /\ \E delay \in 0 .. Backoff(IF jobs[j].attempts > 0 THEN jobs[j].attempts ELSE 1) :
          jobs' = [jobs EXCEPT ![j] =
                     [PutBack(@, "none", delay, @.attempts) EXCEPT !.stop = FALSE]]
    /\ UNCHANGED held

\* delete_subscription cancels what is queued for the subscription; the
\* foreign key (ON DELETE SET NULL) detaches every row that refers to it.
DetachSubscription(s) ==
    /\ jobs' = [j \in JobIds |->
                  IF jobs[j].sub # s THEN jobs[j]
                  ELSE [(IF jobs[j].status = "queued"
                         THEN Cancelled(jobs[j], "job_invalidated")
                         ELSE jobs[j]) EXCEPT !.sub = NoSub]]
    /\ UNCHANGED held

\* delete_user is refused while a job runs; the rows go with the user
\* (ON DELETE CASCADE).
DeleteUserRows(u) ==
    /\ \A j \in JobIds : jobs[j].user = u => jobs[j].status # "running"
    /\ jobs' = [j \in JobIds |->
                  IF jobs[j].user = u THEN Deleted(jobs[j]) ELSE jobs[j]]
    /\ UNCHANGED held

\* Terminal rows whose expires_at has passed; which those are depends on the
\* retention the rows were created with.
prune_terminal_jobs(S) ==
    /\ S # {}
    /\ S \subseteq {j \in JobIds : jobs[j].status \in Terminal}
    /\ jobs' = [j \in JobIds |-> IF j \in S THEN Deleted(jobs[j])
                                           ELSE jobs[j]]
    /\ UNCHANGED held

-----------------------------------------------------------------------------
(* Time, and the death of a holder.                                         *)

Ticked(r) ==
    [r EXCEPT !.lock  = IF r.status = "running" /\ @ >= 0 THEN @ - 1 ELSE @,
              !.delay = IF @ > 0 THEN @ - 1 ELSE @]

TickRows == jobs' = [j \in JobIds |-> Ticked(jobs[j])]

Tick ==
    /\ TickRows
    /\ UNCHANGED held

\* A crash, a restart, or the PermissionError of a claim that was lost.
Abandon(w) ==
    /\ held[w] # NoHold
    /\ LetGo(w)
    /\ UNCHANGED jobs

-----------------------------------------------------------------------------
QueueInit ==
    /\ jobs = [j \in JobIds |-> NoRow("absent")]
    /\ held = [w \in Workers |-> NoHold]

\* The API gives the priority of a manual job.
PriorityOf(auto) == IF auto THEN {ScheduledPriority} ELSE Priorities

Create ==
    \E auto \in Reasons : \E p \in PriorityOf(auto), m \in AttemptLimits :
        \/ /\ ~auto
           /\ \E kind \in Kinds, u \in Users, src \in Sources :
                 create_job(kind, u, src, p, m)
        \/ \E u \in Users : create_user_feed_refresh_if_absent(u, auto, p, m)
        \/ \E s \in Subscriptions : create_source_fetch_if_absent(s, auto, p, m)

WorkerStep(w) ==
    \/ claim_next_job(w)
    \/ \E status \in Terminal \ {"cancelled"},
          S \in SUBSET {j \in JobIds : jobs[j].status = "queued"} :
             complete_job(w, status, S)
    \/ \E retryable \in BOOLEAN : fail_or_retry_job(w, retryable)
    \/ \E error \in {"job_cancelled", "job_invalidated"} :
          cancel_claimed_job(w, error)
    \/ extend_job_lease(w)
    \/ requeue_unstarted_claim(w)
    \/ Abandon(w)

QueueNext ==
    \/ Create
    \/ \E j \in JobIds : \/ cancel_job(j)
                         \/ retry_job(j)
                         \/ recover_observed_result_after_terminal_job(j)
    \/ \E w \in Workers : WorkerStep(w)
    \/ recover_stale_running_jobs
    \/ \E S \in SUBSET JobIds : \/ CancelQueued(S, "keep")
                                \/ CancelQueued(S, "job_invalidated")
                                \/ prune_terminal_jobs(S)
    \/ \E s \in Subscriptions : DetachSubscription(s)
    \/ \E u \in Users : DeleteUserRows(u)
    \/ Tick

QueueSpec == QueueInit /\ [][QueueNext]_queueVars

-----------------------------------------------------------------------------
(* Properties.                                                              *)

\* Type invariant of the table and of the claims in the workers' hands.
QueueTypeOK ==
    /\ jobs \in [JobIds -> Row]
    /\ held \in [Workers -> [job : 0 .. MaxJobs, token : Tokens \cup {NoToken}]]

\* A user has at most one queued or running full refresh, whether it was
\* created, retried, put back after a failure or recovered from a dead worker.
OneActiveRefresh ==
    \A u \in Users : \A i, j \in ActiveRefresh(u) : i = j

\* A subscription has at most one queued or running source_fetch that names it.
OneActiveFetch ==
    \A s \in Subscriptions : \A i, j \in ActiveFetch(s) : i = j

\* claim_next_job does not look at max_attempts: that no job is run more
\* often than max_attempts allows rests on every path back to the queue
\* (retry, lease recovery, unstarted claim) leaving an attempt to spend.
RetryBudget ==
    \A j \in JobIds :
        /\ jobs[j].attempts <= jobs[j].max
        /\ jobs[j].status = "queued" => jobs[j].attempts < jobs[j].max

\* A claim names one job: a running row carries the token of its claim and no
\* other row does, and a worker whose claim was lost cannot match the claim
\* of any other row, nor of a later claim of the same row.
ClaimIntegrity ==
    /\ \A j \in JobIds : jobs[j].status = "running" <=> jobs[j].token # NoToken
    /\ \A i, j \in JobIds :
          jobs[i].token = jobs[j].token /\ jobs[i].token # NoToken => i = j
    /\ \A w \in Workers, j \in JobIds :
          /\ held[w] # NoHold
          /\ jobs[j].token = held[w].token
          => j = held[w].job /\ jobs[j].worker = w

\* While a lease is live and its holder keeps it, nobody moves the job: it is
\* still running under the same claim after the step.  What a holder of a lost
\* claim presents late (completion, failure, cancellation) changes nothing.
LeaseExclusive ==
    [][\A w \in Workers :
          LeaseGuard(w) /\ held'[w] = held[w]
            => /\ jobs'[held[w].job].status = "running"
               /\ jobs'[held[w].job].token = held[w].token]_queueVars

-----------------------------------------------------------------------------
(* The inductive invariant behind them.                                     *)

\* What holds of each row: the type, the retry budget, a claim token exactly
\* while running, a counted attempt while running, a configured limit, and
\* for a fetch that names a subscription the source of that subscription.
RowOK(r) ==
    /\ r \in Row
    /\ r.attempts <= r.max
    /\ r.status = "queued" => r.attempts < r.max
    /\ r.status = "running" <=> r.token # NoToken
    /\ r.status = "running" => r.attempts >= 1
    /\ r.status \notin {"absent", "deleted"} => r.max \in AttemptLimits
    /\ r.kind = "source_fetch" /\ r.sub # NoSub => r.source = SubSource[r.sub]

\* A worker that holds a claim holds a job and a real token.
HoldOK(h) == h = NoHold \/ h \in [job : JobIds, token : Tokens]

\* No two rows share a token; a held token is that of the held job or dead.
TokensDistinct ==
    /\ \A i, j \in JobIds :
          jobs[i].token = jobs[j].token /\ jobs[i].token # NoToken => i = j
    /\ \A w \in Workers, j \in JobIds :
          /\ held[w] # NoHold
          /\ jobs[j].token = held[w].token
          => j = held[w].job /\ jobs[j].worker = w

\* Inductive for every operation of the queue: the retry budget needs the
\* configured limit and the counted attempt, the claims need the held tokens,
\* the single fetch needs the source of the subscription.
QueueInv ==
    /\ jobs \in [JobIds -> Row]
    /\ held \in [Workers -> [job : 0 .. MaxJobs, token : Tokens \cup {NoToken}]]
    /\ \A j \in JobIds : RowOK(jobs[j])
    /\ \A w \in Workers : HoldOK(held[w])
    /\ TokensDistinct
    /\ OneActiveRefresh
    /\ OneActiveFetch
=============================================================================
