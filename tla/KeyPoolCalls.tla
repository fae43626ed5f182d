--------------------------- MODULE KeyPoolCalls ---------------------------
(***************************************************************************)
(* The processes around the key pool: calls of run_actor_detailed (module  *)
(* scrapers/apify_client.py), each of which starts at most one Actor run   *)
(* per key; the workers' reconciliation of the pool before they claim a    *)
(* job (services/apify_pool_reconciliation.py and                          *)
(* apify_registered_run_reconciliation.py); the administrator's requests   *)
(* (api/secret_routes.py, api/apify_key_pool_routes.py); and Apify itself. *)
(* A process stops between two transactions when it crashes.               *)
(***************************************************************************)
EXTENDS ApifyKeyPool

CONSTANTS Workers,      \* workers that reconcile the pool
          MaxGen        \* bound: administrators act up to this generation

ASSUME MaxGenAssumption == MaxGen \in Nat

NoReservation == "none"

ASSUME ReservationAssumption == NoReservation \notin Runs

VARIABLES call,         \* where each call is, its lease, the keys it tried
          rec,          \* where each worker's reconciliation is
          admin         \* the request of an administrator that is under way

vars == <<status, role, order, pool, run, remote, call, rec, admin>>

\* A call outside an attempt; the lease of an attempt is the run it reserved,
\* its key and generation.
Caller(pc, tried) ==
    [pc |-> pc, run |-> NoReservation, key |-> NoKey, gen |-> 0, tried |-> tried]

Init ==
    /\ KeyPoolInit
    /\ call = [c \in Calls |-> Caller("acquire", {})]
    /\ rec = [w \in Workers |-> "idle"]
    /\ admin = [op |-> "none", key |-> NoKey]

\* A row of apify_key_pool_state
PoolRows ==
    [status : {"empty", "ready", "draining", "blocked", "exhausted"},
     active : Keys \cup {NoKey}, draining : Keys \cup {NoKey}, drainGen : Nat,
     target : {"standby", "depleted", "invalid"}, reason : Reasons, gen : Nat,
     evidence : SUBSET Keys]

\* The members: an order of all of them, at most one validation key, and the
\* pool's row names the key that serves or is drained.
MembersOK ==
    /\ status \in [Keys -> Statuses]
    /\ role \in [Keys -> {"acquisition", "validation"}]
    /\ order \in Orders(Members)
    /\ pool \in PoolRows
    /\ \A k, x \in ValidationKeys : k = x
    /\ \A k \in Keys : status[k] \in {"active", "draining"} => pool.active = k
    /\ pool.status = "draining" => pool.draining = pool.active /\ pool.active \in Members

\* A row of apify_actor_runs
RunRows ==
    [status : Terminal \cup Unresolved \cup {"none"}, key : Keys \cup {NoKey}, gen : Nat,
     purpose : {"acquisition", "validation"}, registered : BOOLEAN, held : BOOLEAN]

LedgerOK == /\ run \in [Runs -> RunRows]
            /\ remote \in [Runs -> {"none", "running", "ended"}]

\* The steps of a call without a reservation, and with one
Between == {"acquire", "failover", "done"}

Attempt == {"quota", "assert", "post", "unknown", "reject", "depleted", "invalid", "stop",
            "register", "salvage", "wait", "overtaken", "timeout", "retry", "dataset"}

ProcessesOK ==
    /\ call \in [Calls -> [pc : Between \cup Attempt, run : Runs \cup {NoReservation},
                           key : Keys \cup {NoKey}, gen : Nat, tried : SUBSET Keys]]
    /\ rec \in [Workers -> {"idle", "validation", "blocked", "drain", "stop", "quota"}]
    /\ admin \in [op : {"none", "delete", "rotate", "rotated"}, key : Keys \cup {NoKey}]
    /\ admin.op # "none" => admin.key # NoKey

\* The type invariant
KeyPoolTypeOK == MembersOK /\ LedgerOK /\ ProcessesOK

Own(c) == call[c].run

Go(c, pc) ==
    /\ call' = [call EXCEPT ![c] = CASE pc = "done" -> Caller("done", {})
                                     [] pc = "acquire" -> Caller("acquire", @.tried)
                                     [] OTHER -> [@ EXCEPT !.pc = pc]]
    /\ UNCHANGED <<rec, admin>>

At(c, pc) == call[c].pc = pc
-----------------------------------------------------------------------------
\* acquire_credential

\* The key a call is given: the dedicated validation key, when there is one, for
\* a validation; otherwise the active key.
Lends(c) ==
    IF c \in Validating /\ ValidationKeys # {}
    THEN {k \in ValidationKeys \ call[c].tried :
             status[k] = "standby" /\ BusyRuns(k) = {}}
    ELSE {k \in {pool.active} \ call[c].tried :
             /\ pool.status = "ready"
             /\ k # NoKey
             /\ status[k] = "active" /\ role[k] = "acquisition"}

Purpose(c) == IF c \in Validating THEN "validation" ELSE "acquisition"

\* A snapshot that is older than 60 seconds has the call check the quota first.
\* The validation key is used as it is.
Acquire(c) ==
    \E k \in Lends(c), r \in Runs, pc \in {"quota", "assert"} :
       /\ At(c, "acquire")
       /\ pc = "quota" => k \notin ValidationKeys
       /\ Reserve(r, k, Purpose(c))
       /\ call' = [call EXCEPT ![c] =
                     [pc |-> pc, run |-> r, key |-> k, gen |-> pool.gen,
                      tried |-> @.tried \cup {k}]]
       /\ UNCHANGED <<rec, admin>>

\* A fresh snapshot shows no credits: the active key is drained on the way.
AcquireSpent(c) ==
    \E k \in Lends(c) :
       /\ At(c, "acquire")
       /\ k \notin ValidationKeys
       /\ BeginDrain(k, "depleted", run)
       /\ call' = [call EXCEPT ![c] = [call[c] EXCEPT !.pc = "failover",
                                                      !.tried = @ \cup {k}]]
       /\ UNCHANGED <<rec, admin>>

\* complete_drain_and_failover, called by acquire_credential and, when its runs
\* have ended, by report_acquisition_credential_failure
FailingOver(c) == At(c, "failover") \/ (At(c, "stop") /\ ~DrainPending)

CallFailOver(c) ==
    /\ FailingOver(c)
    /\ \/ /\ FailOver
          /\ Go(c, IF At(c, "failover") /\ pool'.status = "exhausted" THEN "done"
                   ELSE "acquire")
       \/ /\ ~CanFailOver
          /\ Go(c, IF \/ pool.status \in {"draining", "blocked"}
                      \/ At(c, "failover") /\ pool.status = "exhausted"
                   THEN "done" ELSE "acquire")
          /\ UNCHANGED poolVars

\* Every refusal of acquire_credential ends the call.
AcquireRefused(c) ==
    /\ At(c, "acquire")
    /\ Lends(c) = {}
    /\ Go(c, "done")
    /\ UNCHANGED poolVars
-----------------------------------------------------------------------------
\* One attempt of the call: _refresh_quota_snapshot and _run_actor_once

\* record_quota_snapshot touches nothing else; without an answer the
\* reservation is released.
Quota(c) ==
    /\ At(c, "quota")
    /\ \/ \E pc \in {"assert", "depleted", "invalid"} : Go(c, pc) /\ UNCHANGED poolVars
       \/ RunOnly(Released(Own(c))) /\ UNCHANGED remote /\ Go(c, "done")

\* assert_lease_startable just before the POST; the ActorOps fence may refuse an
\* acquisition too (its attempts are not modelled).  A refused reservation is
\* released, which raises when a reconciliation has declared it unknown.
AssertStartable(c) ==
    /\ At(c, "assert")
    /\ \/ /\ run[Own(c)].status = "reserved" /\ KeyUsable(Own(c))
          /\ Go(c, "post")
          /\ UNCHANGED poolVars
       \/ /\ run[Own(c)].status = "reserved" /\ KeyUsable(Own(c))
             => c \notin Validating
          /\ RunOnly(Released(Own(c)))
          /\ Go(c, IF run[Own(c)].status = "start_outcome_unknown" THEN "done"
                   ELSE "retry")
          /\ UNCHANGED remote

\* The POST starts a run, whose answer may be lost, or starts none.
Post(c) ==
    /\ At(c, "post")
    /\ \/ \E pc \in {"register", "unknown"} :
             /\ remote' = [remote EXCEPT ![Own(c)] = "running"]
             /\ Go(c, pc)
       \/ \E pc \in {"unknown", "reject", "depleted", "invalid"} :
             Go(c, pc) /\ UNCHANGED remote
    /\ UNCHANGED <<status, role, order, pool, run>>

LostAnswer(c) ==
    /\ At(c, "unknown")
    /\ ReportStartOutcomeUnknown(Own(c))
    /\ Go(c, "done")

StartRejected(c) ==
    /\ At(c, "reject")
    /\ RunOnly(Released(Own(c)))
    /\ Go(c, "done")
    /\ UNCHANGED remote

\* _record_credential_failure: it rolls back when the drain is refused; a key
\* that is not active any more needs no drain, and neither does a validation key.
CredentialFailure(c) ==
    \E kind \in {"depleted", "invalid"} :
       LET k == call[c].key
           dedicated == k \in Members /\ role[k] = "validation"
       IN /\ At(c, kind)
          /\ \/ /\ k \notin Members \/ (~dedicated /\ DrainRefused(k))
                /\ Go(c, "done")
                /\ UNCHANGED poolVars
             \/ /\ dedicated
                /\ run' = Released(Own(c))
                /\ status' = [status EXCEPT ![k] = kind]
                /\ Go(c, "acquire")
                /\ UNCHANGED <<role, order, pool, remote>>
             \/ /\ ~dedicated
                /\ BeginDrain(k, kind, Released(Own(c)))
                /\ Go(c, IF DrainHolds(k) THEN "stop" ELSE "acquire")

\* abort_run: the run is marked, Apify is asked to stop it, and what it says
\* when it has ended is recorded; the answer may not come in time.
AbortRun(r) ==
    \/ /\ remote' = [remote EXCEPT ![r] = "ended"]
       /\ RunOnly(Moved(r, "ended"))
    \/ /\ RunOnly(Moved(r, "aborting"))
       /\ UNCHANGED remote

Confirmed(r) == run'[r].status \in Terminal

\* The loop of report_acquisition_credential_failure: a run that Apify has not
\* named, or whose key was rotated, ends the call with the drain pending.
StopRuns(c) ==
    \E r \in AcquisitionRuns(run, pool.drainGen) :
       /\ At(c, "stop")
       /\ \/ /\ Known(r)
             /\ AbortRun(r)
             /\ Go(c, IF Confirmed(r) THEN "stop" ELSE "done")
          \/ /\ ~Known(r)
             /\ Go(c, "done")
             /\ UNCHANGED poolVars

\* register_run; the run is on the ledger before the pool is looked at.
Register(c) ==
    /\ At(c, "register")
    /\ \/ /\ run[Own(c)].status = "reserved"
          /\ RunOnly([run EXCEPT ![Own(c)] = [@ EXCEPT !.status = "running",
                                                       !.registered = TRUE]])
          /\ Go(c, IF KeyUsable(Own(c)) THEN "wait" ELSE "overtaken")
          /\ UNCHANGED remote
       \/ /\ run[Own(c)].status # "reserved"
          /\ Go(c, "salvage")
          /\ UNCHANGED poolVars

\* reconcile_failed_run_registration: a reconciliation declared the start
\* unknown first.  The run is aborted, and forgotten if it cost nothing.
Salvage(c) ==
    /\ At(c, "salvage")
    /\ \/ /\ remote' = [remote EXCEPT ![Own(c)] = "ended"]
          /\ ConfirmUnknownStart(Own(c), "ended")
       \/ ReportStartOutcomeUnknown(Own(c))
    /\ Go(c, "done")

\* _wait_for_run
Wait(c) ==
    /\ At(c, "wait")
    /\ \/ /\ remote[Own(c)] # "running"
          /\ RunOnly(Moved(Own(c), "ended"))
          /\ \E pc \in {"dataset", "retry"} : Go(c, pc)
          /\ UNCHANGED remote
       \/ Go(c, "timeout") /\ UNCHANGED poolVars
       \/ BlockRunReconciliation(Own(c), call[c].key) /\ Go(c, "done")

\* A run that was overtaken by a drain, or that takes too long, is aborted.
Abort(c) ==
    /\ At(c, "overtaken") \/ At(c, "timeout")
    /\ AbortRun(Own(c))
    /\ Go(c, IF At(c, "overtaken") /\ Confirmed(Own(c)) THEN "retry" ELSE "done")

\* should_retry_after_terminal: again with the next key after a failover; a
\* drain is waited for, for a while.  max_remote_starts may forbid it.
Retry(c) ==
    /\ At(c, "retry")
    /\ \/ Go(c, "done")
       \/ /\ c \notin Validating
          /\ pool.status = "ready"
          /\ pool.gen # call[c].gen
          /\ pool.active # call[c].key
          /\ Go(c, "acquire")
    /\ UNCHANGED poolVars

\* The dataset is read, or the pool is blocked until somebody reads it.
Dataset(c) ==
    /\ At(c, "dataset")
    /\ \/ UNCHANGED poolVars
       \/ BlockRunReconciliation(Own(c), call[c].key)
    /\ Go(c, "done")

\* The process of the call dies; a POST under way may have started a run.
Crash(c) ==
    /\ ~At(c, "done")
    /\ remote' \in IF At(c, "post") THEN {remote, [remote EXCEPT ![Own(c)] = "running"]}
                   ELSE {remote}
    /\ Go(c, "done")
    /\ UNCHANGED <<status, role, order, pool, run>>

CallStep(c) ==
    \/ Acquire(c) \/ AcquireSpent(c) \/ CallFailOver(c) \/ AcquireRefused(c)
    \/ Quota(c) \/ AssertStartable(c) \/ Post(c) \/ LostAnswer(c)
    \/ StartRejected(c) \/ CredentialFailure(c) \/ StopRuns(c) \/ Register(c)
    \/ Salvage(c) \/ Wait(c) \/ Abort(c) \/ Retry(c) \/ Dataset(c)
=============================================================================
