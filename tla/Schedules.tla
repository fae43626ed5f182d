----------------------------- MODULE Schedules -----------------------------
(***************************************************************************)
(* The automatic schedules (feed_schedule.py, source_schedule.py,          *)
(* schedule_runtime.py) and the daily job quota (quota.py) they spend.     *)
(*                                                                         *)
(* Each worker cycle evaluates the due feed schedules in one transaction   *)
(* and then the due source schedules in another.  An action of this module *)
(* is the evaluation of one due row; the module Worker keeps the           *)
(* transaction open from the first row to the last.                        *)
(***************************************************************************)
EXTENDS Lifecycle

CONSTANTS
    Quota,        \* max_fetch_jobs_per_day; bound: the model is one day
    Postpone,     \* the five minutes of a postponed evaluation, in ticks
    ActorSources  \* sources fetched through an Apify Actor

ASSUME QuotaAssumption ==
    /\ Quota \in Nat
    /\ Postpone \in Nat \ {0}
    /\ ActorSources \subseteq Sources

VARIABLE quota    \* fetch jobs left today, by user; negative: overspent

Spend(u) == quota' = [quota EXCEPT ![u] = @ - 1]

\* Fault: one job too many (> instead of >=).
JobAllowedOneMore(u) ==
    /\ quota[u] >= 0
    /\ \E j \in JobIds : jobs[j].status = "absent"

\* ensure_job_allowed.  Bound: a full table counts as a spent quota.
JobAllowed(u) ==
    /\ quota[u] > 0
    /\ \E j \in JobIds : jobs[j].status = "absent"

\* WHERE enabled = 1 AND next_run_at <= now
DueFeeds   == {u \in Users : feedSched[u].on /\ feedSched[u].next = 0}
DueSources == {s \in Subscriptions : srcSched[s].on /\ srcSched[s].next = 0}

ActiveFetchesOf(u) ==
    {j \in JobIds : /\ jobs[j].kind = "source_fetch"
                    /\ jobs[j].user = u
                    /\ jobs[j].status \in Active}

-----------------------------------------------------------------------------
(* FeedScheduleService.enqueue_due, one row.                                *)

NextFeedRun(u, n) == feedSched' = [feedSched EXCEPT ![u].next = n]

\* Fault: a skipped row keeps its next_run_at.
SkipFeedInPlace(u, n) == UNCHANGED <<feedSched, jobs, held, quota>>

\* last_skip_reason is recorded, the next run is n ticks away.
SkipFeed(u, n) == NextFeedRun(u, n) /\ UNCHANGED <<jobs, held, quota>>

\* Fault: subscriptions with a schedule of their own are counted.
FeedReadyAnySub(u) ==
    /\ users[u] = "active"
    /\ EnabledSubs(u) # {}
    /\ ActiveRefresh(u) = {}

\* Neither disabled, nor without global subscriptions, nor already refreshing.
FeedReady(u) ==
    /\ users[u] = "active"
    /\ GlobalSubs(u) # {}
    /\ ActiveRefresh(u) = {}

\* Fault: a running refresh is cancelled like a queued one.
DisableRunning(u) ==
    /\ feedSched' = [feedSched EXCEPT ![u].on = FALSE, ![u].next = 0]
    /\ jobs' = CancelRows({j \in ActiveRefresh(u) : jobs[j].auto}, "keep")
    /\ UNCHANGED <<held, quota>>

\* A viewer's schedule is closed and its queued automatic refresh cancelled.
_disable_read_only_schedule(u) ==
    /\ feedSched' = [feedSched EXCEPT ![u].on = FALSE, ![u].next = 0]
    /\ LET Scheduled(r) == /\ r.user = u /\ r.auto
                           /\ r.kind = "user_feed_refresh"
       IN jobs' = CancelRows(Queued(Scheduled), "keep")
    /\ UNCHANGED <<held, quota>>

EnqueueFeed(u) ==
    /\ \E m \in AttemptLimits :
          create_user_feed_refresh_if_absent(u, TRUE, ScheduledPriority, m)
    /\ Spend(u)
    /\ NextFeedRun(u, feedSched[u].every)

EvaluateFeed(u) ==
    /\ u \in DueFeeds
    /\ \/ /\ users[u] = "viewer"
          /\ _disable_read_only_schedule(u)
       \/ /\ users[u] # "viewer" /\ ~FeedReady(u)
          /\ SkipFeed(u, feedSched[u].every)
       \/ /\ FeedReady(u) /\ ActiveFetchesOf(u) # {}
          /\ SkipFeed(u, Postpone)
       \/ /\ FeedReady(u) /\ ActiveFetchesOf(u) = {} /\ ~JobAllowed(u)
          /\ SkipFeed(u, feedSched[u].every)
       \/ /\ FeedReady(u) /\ ActiveFetchesOf(u) = {} /\ JobAllowed(u)
          /\ EnqueueFeed(u)
    /\ UNCHANGED <<users, sources, subs, srcSched>>

-----------------------------------------------------------------------------
(* SourceScheduleService.enqueue_due, one row.                              *)

NextSourceRun(s, n) == srcSched' = [srcSched EXCEPT ![s].next = n]

SkipSource(s, n) == NextSourceRun(s, n) /\ UNCHANGED <<jobs, held, quota>>

SourceReady(s) ==
    /\ users[SubUser[s]] = "active"
    /\ subs[s] = "enabled"
    /\ sources[SubSource[s]]

\* ActorOps or the Apify Key pool blocks the source: until the next interval,
\* or until the time at which the pool says it may be tried again.  Bound:
\* that time is at most a tick after the next interval.
ActorBlocked(s) ==
    /\ SubSource[s] \in ActorSources
    /\ \E n \in 1 .. srcSched[s].every + 1 : SkipSource(s, n)

EnqueueSource(s) ==
    /\ \E m \in AttemptLimits :
          create_source_fetch_if_absent(s, TRUE, ScheduledPriority, m)
    /\ Spend(SubUser[s])
    /\ NextSourceRun(s, srcSched[s].every)

EvaluateSource(s) ==
    /\ s \in DueSources
    /\ LET refreshing == ActiveRefresh(SubUser[s]) # {}
           fetching   == ActiveFetch(s) # {}
       IN \/ /\ ~SourceReady(s)
             /\ SkipSource(s, srcSched[s].every)
          \/ /\ SourceReady(s)
             /\ ActorBlocked(s)
          \/ /\ SourceReady(s) /\ refreshing
             /\ SkipSource(s, Postpone)
          \/ /\ SourceReady(s) /\ ~refreshing
             /\ fetching \/ ~JobAllowed(SubUser[s])
             /\ SkipSource(s, srcSched[s].every)
          \/ /\ SourceReady(s) /\ ~refreshing /\ ~fetching
             /\ JobAllowed(SubUser[s])
             /\ EnqueueSource(s)
    /\ UNCHANGED <<users, sources, subs, feedSched>>

-----------------------------------------------------------------------------
(* advance_after_full_refresh, part of the publication of a full refresh:   *)
(* the subscriptions it covered that have a schedule of their own wait a    *)
(* full interval, and their queued automatic fetches are cancelled.         *)

Advanced(P) == {s \in P : srcSched[s].on}

AdvancedJobs(P) ==
    LET Scheduled(r) == /\ r.kind = "source_fetch" /\ r.auto
                        /\ r.sub \in Advanced(P)
    IN Queued(Scheduled)

AdvancedSchedules(P) ==
    [s \in Subscriptions |->
        IF s \in Advanced(P) THEN [srcSched[s] EXCEPT !.next = srcSched[s].every]
                             ELSE srcSched[s]]

-----------------------------------------------------------------------------
(* Time.                                                                    *)

Sooner(x) == [x EXCEPT !.next = IF @ > 0 THEN @ - 1 ELSE 0]

TickSchedules ==
    /\ feedSched' = [u \in Users |-> Sooner(feedSched[u])]
    /\ srcSched' = [s \in Subscriptions |-> Sooner(srcSched[s])]

ScheduleTypeOK == quota \in [Users -> Int]
=============================================================================
