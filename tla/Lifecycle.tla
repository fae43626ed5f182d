----------------------------- MODULE Lifecycle -----------------------------
(***************************************************************************)
(* Users, sources, subscriptions and their schedules, the transactions     *)
(* that change them (src/storage/service_store.py, feed_schedule.py,       *)
(* source_schedule.py) and the test whether a job may still run            *)
(* (job_eligibility.py).                                                   *)
(*                                                                         *)
(* A lifecycle transaction closes the schedules and cancels the queued     *)
(* jobs it invalidates in the same step.  It never touches a running job:  *)
(* that job is found ineligible when its worker looks again.               *)
(***************************************************************************)
EXTENDS JobQueue

CONSTANTS
    Admins,           \* users whose manual refresh covers every source
    PrivateSources,   \* sources with scope 'private', owned by their users
    InitialSubs,      \* subscriptions that exist at the start
    FeedIntervals,    \* interval_minutes of a feed schedule, in ticks
    SourceIntervals   \* interval_minutes of a source schedule, in ticks

ASSUME ScheduleAssumption ==
    /\ Admins \subseteq Users
    /\ PrivateSources \subseteq Sources
    /\ InitialSubs \subseteq Subscriptions
    /\ \A s, t \in InitialSubs :   \* UNIQUE(user_id, source_id)
          SubUser[s] = SubUser[t] /\ SubSource[s] = SubSource[t] => s = t
    /\ FeedIntervals \subseteq Nat \ {0}
    /\ SourceIntervals \subseteq Nat \ {0}

\* Only its owner may subscribe to a private source, and no shared source is
\* made private.
ASSUME OwnerAssumption ==
    \A s, t \in Subscriptions :
        SubSource[s] = SubSource[t] /\ SubSource[s] \in PrivateSources
          => SubUser[s] = SubUser[t]

VARIABLES
    users,      \* "active", "viewer" (read only), "disabled" or "deleted"
    sources,    \* source_catalog.enabled
    subs,       \* "none", "enabled", "disabled" or "deleted"
    feedSched,  \* user_feed_schedules: enabled, interval, ticks to next_run_at
    srcSched    \* user_source_schedules, by subscription

entityVars == <<users, sources, subs, feedSched, srcSched>>

UserStates == {"active", "viewer", "disabled", "deleted"}
SubStates  == {"none", "enabled", "disabled", "deleted"}
Off        == [on |-> FALSE, every |-> 0, next |-> 0]
Schedule   == [on : BOOLEAN, every : Nat, next : Nat]

LifecycleTypeOK ==
    /\ users \in [Users -> UserStates]
    /\ sources \in [Sources -> BOOLEAN]
    /\ subs \in [Subscriptions -> SubStates]
    /\ feedSched \in [Users -> Schedule]
    /\ srcSched \in [Subscriptions -> Schedule]

Live(s)    == subs[s] \in {"enabled", "disabled"}
SubsOf(u)  == {s \in Subscriptions : SubUser[s] = u}

-----------------------------------------------------------------------------
(* Eligibility.                                                             *)

\* Enabled subscriptions of the user to enabled sources.
EnabledSubs(u) ==
    {s \in SubsOf(u) : subs[s] = "enabled" /\ sources[SubSource[s]]}

\* ... that follow the user's own schedule (global_schedule_only).
GlobalSubs(u) == {s \in EnabledSubs(u) : ~srcSched[s].on}

\* ... that a manual refresh of this user covers (effective_manual_refresh_scope).
ManualSubs(u) ==
    {s \in EnabledSubs(u) : u \in Admins \/ SubSource[s] \in PrivateSources}

\* The subscription a source_fetch runs for: the one it names or, when it
\* names none, the one the user has for the source.
SubscriptionOf(r) ==
    IF r.sub # NoSub THEN {r.sub}
    ELSE {s \in SubsOf(r.user) : Live(s) /\ SubSource[s] = r.source}

Runnable(r) ==
    /\ users[r.user] = "active"
    /\ r.source # NoSource => sources[r.source]
    /\ r.kind = "user_feed_refresh"
          => (IF r.auto THEN GlobalSubs(r.user) ELSE ManualSubs(r.user)) # {}
    /\ r.kind = "source_fetch" /\ r.source # NoSource
          => \E s \in SubscriptionOf(r) : subs[s] = "enabled"

\* Fault: the stop request is not consulted.
EligibleStopped(r) == Runnable(r)

\* JobEligibilityService.evaluate
Eligible(r) ==
    /\ ~(r.status = "running" /\ r.stop)
    /\ Runnable(r)

\* JobEligibilityService.evaluate_current_attempt: the row as it is now.  The
\* claim is not compared.
EligibleNow(j) == jobs[j].status = "running" /\ Eligible(jobs[j])

-----------------------------------------------------------------------------
(* Lifecycle transactions.                                                  *)

\* Schedules of subscriptions S switched off; the interval is kept.
Closed(S) ==
    [s \in Subscriptions |->
        IF s \in S /\ srcSched[s].on
        THEN [srcSched[s] EXCEPT !.on = FALSE, !.next = 0]
        ELSE srcSched[s]]

Queued(P(_)) == {j \in JobIds : jobs[j].status = "queued" /\ P(jobs[j])}

update_user(u, state) ==
    /\ users[u] # "deleted"
    /\ state \in {"active", "viewer", "disabled"}
    /\ users' = [users EXCEPT ![u] = state]
    /\ IF state = "active"
       THEN UNCHANGED <<jobs, feedSched, srcSched>>
       ELSE /\ feedSched' = [feedSched EXCEPT ![u].on = FALSE, ![u].next = 0]
            /\ srcSched' = Closed(SubsOf(u))
            /\ LET Mine(r) == r.user = u
               IN jobs' = CancelRows(Queued(Mine), "job_invalidated")
    /\ UNCHANGED <<sources, subs, held>>

\* Refused while a job of the user runs; everything that refers to the user
\* goes with it and the private sources are switched off.
delete_user(u) ==
    /\ users[u] # "deleted"
    /\ DeleteUserRows(u)
    /\ users' = [users EXCEPT ![u] = "deleted"]
    /\ subs' = [s \in Subscriptions |->
                  IF SubUser[s] = u /\ Live(s) THEN "deleted" ELSE subs[s]]
    /\ sources' = [x \in Sources |->
                     /\ sources[x]
                     /\ ~(/\ x \in PrivateSources
                          /\ \E s \in SubsOf(u) : SubSource[s] = x)]
    /\ feedSched' = [feedSched EXCEPT ![u] = Off]
    /\ srcSched' = [s \in Subscriptions |->
                      IF SubUser[s] = u THEN Off ELSE srcSched[s]]

update_source(x, enabled) ==
    /\ sources' = [sources EXCEPT ![x] = enabled]
    /\ IF enabled
       THEN UNCHANGED <<jobs, srcSched>>
       ELSE /\ srcSched' = Closed({s \in Subscriptions : SubSource[s] = x})
            /\ LET Fetch(r) == r.kind = "source_fetch" /\ r.source = x
               IN jobs' = CancelRows(Queued(Fetch), "job_invalidated")
    /\ UNCHANGED <<users, subs, feedSched, held>>

\* A new identifier each time: the one a user deleted does not come back.
create_subscription(s) ==
    /\ subs[s] = "none"
    /\ users[SubUser[s]] # "deleted"
    /\ ~\E t \in SubsOf(SubUser[s]) : Live(t) /\ SubSource[t] = SubSource[s]
    /\ subs' = [subs EXCEPT ![s] = "enabled"]
    /\ UNCHANGED <<users, sources, feedSched, srcSched, jobs, held>>

\* Fault: the schedule of a disabled subscription stays open.
UpdateSubscriptionOnly(s, enabled) ==
    /\ Live(s)
    /\ subs' = [subs EXCEPT ![s] = IF enabled THEN "enabled" ELSE "disabled"]
    /\ UNCHANGED <<users, sources, feedSched, srcSched, jobs, held>>

update_subscription(s, enabled) ==
    /\ Live(s)
    /\ subs' = [subs EXCEPT ![s] = IF enabled THEN "enabled" ELSE "disabled"]
    /\ IF enabled
       THEN UNCHANGED <<jobs, srcSched>>
       ELSE /\ srcSched' = Closed({s})
            /\ LET Fetch(r) == r.kind = "source_fetch" /\ r.sub = s
               IN jobs' = CancelRows(Queued(Fetch), "job_invalidated")
    /\ UNCHANGED <<users, sources, feedSched, held>>

delete_subscription(s) ==
    /\ Live(s)
    /\ DetachSubscription(s)
    /\ subs' = [subs EXCEPT ![s] = "deleted"]
    /\ srcSched' = [srcSched EXCEPT ![s] = Off]
    /\ sources' = [sources EXCEPT ![SubSource[s]] =
                     @ /\ \/ SubSource[s] \notin PrivateSources
                          \/ \E t \in Subscriptions \ {s} :
                                Live(t) /\ SubSource[t] = SubSource[s]]
    /\ UNCHANGED <<users, feedSched>>

-----------------------------------------------------------------------------
(* Schedule updates by the user.                                            *)

\* next_run_at after an update: now when it is switched on, a full interval
\* when the interval changes, as it was otherwise.
NextRun(old, every) ==
    IF ~old.on THEN 0 ELSE IF old.every # every THEN every ELSE old.next

update_user_schedule(u, on, every) ==
    /\ users[u] # "deleted"
    /\ on /\ ~feedSched[u].on => EnabledSubs(u) # {}
    /\ feedSched' = [feedSched EXCEPT ![u] =
                       [on    |-> on, every |-> every,
                        next  |-> IF on THEN NextRun(@, every) ELSE 0]]
    /\ LET Scheduled(r) == /\ r.user = u /\ r.auto
                           /\ r.kind = "user_feed_refresh"
       IN jobs' = IF on THEN jobs ELSE CancelRows(Queued(Scheduled), "keep")
    /\ UNCHANGED <<users, sources, subs, srcSched, held>>

\* Switching on asks for an enabled user, source and subscription; the
\* transaction does not look at the role.
update_subscription_schedule(s, on, every) ==
    /\ Live(s)
    /\ on => /\ subs[s] = "enabled"
             /\ sources[SubSource[s]]
             /\ users[SubUser[s]] # "disabled"
    /\ srcSched' = [srcSched EXCEPT ![s] =
                      [on   |-> on, every |-> every,
                       next |-> IF on THEN NextRun(@, every) ELSE 0]]
    /\ LET Scheduled(r) == r.kind = "source_fetch" /\ r.sub = s /\ r.auto
       IN jobs' = IF on THEN jobs ELSE CancelRows(Queued(Scheduled), "keep")
    /\ UNCHANGED <<users, sources, subs, feedSched, held>>

LifecycleInit ==
    /\ users = [u \in Users |-> "active"]
    /\ sources = [x \in Sources |-> TRUE]
    /\ subs = [s \in Subscriptions |->
                 IF s \in InitialSubs THEN "enabled" ELSE "none"]
    /\ feedSched = [u \in Users |-> Off]
    /\ srcSched = [s \in Subscriptions |-> Off]
=============================================================================
