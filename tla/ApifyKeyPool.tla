--------------------------- MODULE ApifyKeyPool ---------------------------
(***************************************************************************)
(* The workspace's pool of Apify keys (services/apify_key_pool.py,         *)
(* apify_pool_drain.py, apify_key_pool_unknown_start.py,                   *)
(* actorops_start_fence.py): its members in order, the one active key, the *)
(* ledger of Actor runs, and the transactions on them.  A key that fails   *)
(* is drained: no run starts until every run of the acquisition keys has   *)
(* ended, then the next standby becomes active.  A start whose outcome is  *)
(* unknown blocks the pool until Apify proves that nothing was started.    *)
(*                                                                         *)
(* Every operator named after a method is one transaction; the module      *)
(* KeyPoolCalls makes the steps of the processes out of them.  One         *)
(* workspace, HORIZON_APIFY_KEY_POOL_ENABLED on.  Times, error texts and   *)
(* what the quota snapshots say are left out: a fresh snapshot may show    *)
(* that a key has no credits left whenever it is read.                     *)
(***************************************************************************)
EXTENDS Naturals, FiniteSets

CONSTANTS Keys,         \* the Apify secrets
          Runs,         \* reservation ids (rows of apify_actor_runs)
          Calls,        \* executions of run_actor_detailed
          Validating,   \* the calls with run_purpose "validation"
          Configured,   \* the keys appended before the behaviour begins
          NoKey         \* NULL in a column that holds a secret id

ASSUME KeyPoolAssumption == /\ NoKey \notin Keys
                            /\ Validating \subseteq Calls
                            /\ Configured \subseteq Keys
                            /\ IsFiniteSet(Configured)

VARIABLES status,       \* members: status, "absent" when there is no row
          role,         \* members: "acquisition" or "validation"
          order,        \* members by position: order[k] is the set of those after k
          pool,         \* the row of apify_key_pool_state
          run,          \* apify_actor_runs
          remote        \* what each reservation started at Apify

poolVars == <<status, role, order, pool, run, remote>>

Statuses == {"absent", "standby", "active", "draining", "depleted", "invalid"}

\* "ended" stands for succeeded, failed, aborted, timed_out and cancelled.
Terminal == {"ended", "start_rejected"}

Unresolved == {"reserved", "running", "aborting", "start_outcome_unknown"}

\* blocked_reason: one of _UNKNOWN_START_BLOCK_REASONS, or the run whose
\* dataset has to be read again
Reasons == {"none", "unknown_start", "reconcile_required"}

\* held: the secret still has the version the run was reserved with.  A run
\* that is settled keeps its status only: nobody reads the rest again.
NoRun == [status |-> "none", key |-> NoKey, gen |-> 0, purpose |-> "acquisition",
          registered |-> FALSE, held |-> TRUE]

\* The orders the members ks can have
Orders(ks) ==
    {o \in [Keys -> SUBSET ks] :
        /\ \A k \in Keys : k \notin o[k] /\ (k \notin ks => o[k] = {})
        /\ \A k, x \in ks : k = x \/ x \in o[k] \/ k \in o[x]
        /\ \A k \in ks : \A x \in o[k] : o[x] \subseteq o[k]}

\* ORDER BY position LIMIT 1, NoKey when ks has no member
First(o, ks) ==
    LET first == {k \in ks : ks \ {k} \subseteq o[k]}
    IN IF first = {} THEN NoKey ELSE CHOOSE k \in first : TRUE

\* The configured keys were appended in some order, the first one is active.
\* evidence holds the keys of the starts settled as never created since the row
\* of the pool was last written (run.updated_at >= state.updated_at); only a
\* blocked pool is asked for it.
KeyPoolInit ==
    /\ order \in Orders(Configured)
    /\ status = [k \in Keys |-> IF k \notin Configured THEN "absent"
                               ELSE IF k = First(order, Configured) THEN "active"
                               ELSE "standby"]
    /\ role = [k \in Keys |-> "acquisition"]
    /\ pool = [status |-> IF Configured = {} THEN "empty" ELSE "ready",
               active |-> First(order, Configured),
               draining |-> NoKey, drainGen |-> 0, target |-> "standby",
               reason |-> "none", gen |-> 1 + Cardinality(Configured), evidence |-> {}]
    /\ run = [r \in Runs |-> NoRun]
    /\ remote = [r \in Runs |-> "none"]

Members == {k \in Keys : status[k] # "absent"}

\* Every update of the pool's row moves its updated_at.
Written(p) == [p EXCEPT !.evidence = {}]

\* The generation counts the changes of the members ...
Counted == Written([pool EXCEPT !.gen = @ + 1])

\* ... and the key k serves from now on.
Activated(k) == Written([pool EXCEPT !.gen = @ + 1, !.status = "ready", !.active = k,
                                     !.reason = "none"])

\* _nonterminal_count of one key
BusyRuns(k) == {r \in Runs : run[r].key = k /\ run[r].status \in Unresolved}

\* list_acquisition_nonterminal_runs: a validation that borrowed an acquisition
\* key is in the barrier, a dedicated validation key is not.
AcquisitionRuns(rn, gen) ==
    {r \in Runs : /\ rn[r].status \in Unresolved
                  /\ rn[r].key \in Members
                  /\ role[rn[r].key] = "acquisition"
                  /\ rn[r].gen <= gen}

UnknownStarts(rn) ==
    {r \in Runs : /\ rn[r].status = "start_outcome_unknown"
                  /\ rn[r].key \in Members
                  /\ role[rn[r].key] = "acquisition"}

\* _compact_positions: ks by rank, and by position where the rank is the same
Ranked(ks, rank) ==
    [k \in Keys |-> {x \in ks : /\ k \in ks
                                /\ \/ rank[k] < rank[x]
                                   \/ rank[k] = rank[x] /\ x \in order[k]}]

ToFront(k, ks) == Ranked(ks, [x \in Keys |-> IF x = k THEN 0 ELSE 1])

ToEnd(k, ks) == Ranked(ks, [x \in Keys |-> IF x = k THEN 1 ELSE 0])

\* The first standby that may serve acquisitions, NoKey when there is none
Candidate(st, ks) ==
    First(order, {k \in ks : st[k] = "standby" /\ role[k] = "acquisition"})

ValidationKeys == {k \in Members : role[k] = "validation"}
-----------------------------------------------------------------------------
\* The administrator's operations.

Idle == pool.status \in {"empty", "exhausted"} /\ pool.active = NoKey

\* append_secret
AppendSecret(k) ==
    /\ status[k] = "absent"
    /\ status' = [status EXCEPT ![k] = IF Idle THEN "active" ELSE "standby"]
    /\ role' = [role EXCEPT ![k] = "acquisition"]
    /\ order' = IF Idle THEN ToFront(k, Members \cup {k}) ELSE ToEnd(k, Members \cup {k})
    /\ pool' = IF Idle THEN Activated(k) ELSE Counted
    /\ UNCHANGED <<run, remote>>

\* reorder: the whole pool, in a new order, and the active key stays first
\* (with the pool enabled it is replaced by a drain only).
Reorder(requested) ==
    /\ pool.status \notin {"draining", "blocked"}
    /\ requested \in Orders(Members)
    /\ requested # order
    /\ pool.active # NoKey /\ Members # {} => First(requested, Members) = pool.active
    /\ order' = requested
    /\ pool' = Counted
    /\ UNCHANGED <<status, role, run, remote>>

\* set_validation_key: k, or NoKey to have none
SetValidationKey(k) ==
    LET current == ValidationKeys IN
    /\ k \notin current
    /\ \A v \in current : BusyRuns(v) = {}
    /\ k # NoKey => /\ status[k] = "standby"
                    /\ pool.active # k
                    /\ BusyRuns(k) = {}
    /\ role' = [x \in Keys |-> IF x = k THEN "validation"
                               ELSE IF x \in current THEN "acquisition" ELSE role[x]]
    /\ pool' = Counted
    /\ UNCHANGED <<status, order, run, remote>>

\* ensure_secret_mutable
SecretMutable(k) ==
    /\ status[k] \notin {"active", "draining"}
    /\ BusyRuns(k) = {}
    /\ pool.status \notin {"draining", "blocked"}

Removable(k) == status[k] \notin {"absent", "active", "draining"} /\ BusyRuns(k) = {}

\* remove_secret: the pool's status is written again from what remains,
\* whatever it was.
RemoveSecret(k) ==
    LET left == Members \ {k}
        chosen == IF pool.active = NoKey /\ pool.status \notin {"draining", "blocked"}
                  THEN Candidate(status, left) ELSE NoKey
        active == IF pool.active # NoKey THEN pool.active ELSE chosen
    IN /\ Removable(k)
       /\ status' = [x \in Keys |-> IF x = k THEN "absent"
                                    ELSE IF x = chosen THEN "active" ELSE status[x]]
       /\ order' = Ranked(left, [x \in Keys |-> 0])
       /\ pool' = Written([pool EXCEPT
                    !.gen = @ + 1, !.active = active,
                    !.status = IF active # NoKey THEN "ready"
                               ELSE IF \E x \in left : role[x] = "acquisition"
                                    THEN "exhausted" ELSE "empty"])
       /\ UNCHANGED <<role, run, remote>>

\* touch_secret_ref, after the new value was stored
TouchSecret(k) ==
    /\ run' = [r \in Runs |-> IF r \in BusyRuns(k) THEN [run[r] EXCEPT !.held = FALSE]
                             ELSE run[r]]
    /\ UNCHANGED <<status, role, order, pool, remote>>

\* mark_secret_rotated raises when the key became busy meanwhile.
RotationBusy(k) ==
    BusyRuns(k) # {} \/ status[k] = "draining" \/ pool.status \in {"draining", "blocked"}

MarkSecretRotated(k) ==
    LET remains == role[k] # "validation" /\ pool.active = k
        activate == role[k] # "validation" /\ pool.active = NoKey
    IN /\ k \in Members
       /\ ~RotationBusy(k)
       /\ status' = [status EXCEPT ![k] = IF remains \/ activate THEN "active"
                                          ELSE "standby"]
       /\ order' = IF remains THEN order
                   ELSE IF activate THEN ToFront(k, Members) ELSE ToEnd(k, Members)
       /\ pool' = IF activate THEN Activated(k) ELSE Counted
       /\ UNCHANGED <<role, run, remote>>

\* record_member_quota: a spent key waits, a key with credits comes back at the
\* end of the order, or becomes active when the pool has none.
RecordMemberQuota(k, remaining) ==
    LET recovers == remaining = "some" /\ status[k] \in {"depleted", "invalid"}
    IN /\ k \in Members
       /\ status' = [status EXCEPT ![k] =
                        IF remaining = "zero" /\ @ \notin {"active", "draining"}
                        THEN "depleted"
                        ELSE IF recovers THEN IF Idle THEN "active" ELSE "standby"
                        ELSE @]
       /\ order' = IF ~recovers THEN order
                   ELSE IF Idle THEN ToFront(k, Members) ELSE ToEnd(k, Members)
       /\ pool' = IF recovers /\ Idle THEN Activated(k) ELSE pool
       /\ UNCHANGED <<role, run, remote>>
-----------------------------------------------------------------------------
\* The drain.

\* _begin_drain_in_transaction raises for a blocked pool, and while another key
\* is drained.
DrainRefused(k) == \/ pool.status = "blocked"
                   \/ pool.status = "draining" /\ pool.draining # k

\* Fault: a key is drained that is not the active one
DrainStartsAny(k) == pool.status # "draining"

DrainStarts(k) == pool.status # "draining" /\ pool.active = k

DrainHolds(k) == pool.status = "draining" \/ pool.active = k

\* _begin_drain_in_transaction, with the ledger the same transaction leaves
BeginDrain(k, target, rn) ==
    /\ k \in Members
    /\ ~DrainRefused(k)
    /\ status' = [status EXCEPT ![k] =
                     IF DrainStarts(k) THEN "draining"
                     ELSE IF pool.status # "draining" /\ @ \notin {"active", "draining"}
                     THEN target ELSE @]
    /\ pool' = IF DrainStarts(k)
               THEN Written([pool EXCEPT !.status = "draining", !.draining = k,
                                         !.drainGen = pool.gen, !.target = target,
                                         !.reason = "none"])
               ELSE pool
    /\ run' = rn
    /\ UNCHANGED <<role, order, remote>>

\* Fault: only the runs of the drained key that Apify has named hold it up
DrainPendingRegistered ==
    \E r \in AcquisitionRuns(run, pool.drainGen) : run[r].registered

\* count_acquisition_nonterminal_runs
DrainPending == AcquisitionRuns(run, pool.drainGen) # {}

CanFailOver == pool.status = "draining" /\ ~DrainPending

\* complete_acquisition_drain_and_failover
FailOver ==
    LET old == pool.draining
        settled == [status EXCEPT ![old] = pool.target]
        chosen == Candidate(settled, Members \ {old})
        rank == [k \in Keys |-> IF k = chosen THEN 0 ELSE IF k = old THEN 3
                                ELSE IF status[k] = "standby" THEN 1 ELSE 2]
    IN /\ CanFailOver
       /\ status' = [k \in Keys |-> IF k = chosen THEN "active" ELSE settled[k]]
       /\ order' = Ranked(Members, rank)
       /\ pool' = Written([pool EXCEPT
                    !.gen = @ + 1, !.active = chosen, !.draining = NoKey,
                    !.drainGen = 0, !.target = "standby", !.reason = "none",
                    !.status = IF chosen = NoKey THEN "exhausted" ELSE "ready"])
       /\ UNCHANGED <<role, run, remote>>
-----------------------------------------------------------------------------
\* The ledger of runs.

\* The reservation acquire_credential inserts before the POST
Reserve(r, k, purpose) ==
    /\ run[r].status = "none"
    /\ run' = [run EXCEPT ![r] =
                 [status |-> "reserved", key |-> k, gen |-> pool.gen,
                  purpose |-> purpose, registered |-> FALSE, held |-> TRUE]]
    /\ UNCHANGED <<status, role, order, pool, remote>>

RunStatus(r, s) ==
    [run EXCEPT ![r] = [(IF s \in Terminal THEN NoRun ELSE @) EXCEPT !.status = s]]

RunOnly(rn) == run' = rn /\ UNCHANGED <<status, role, order, pool>>

\* lease_for_run and a remote id: what it takes to ask Apify about the run
Known(r) == run[r].registered /\ run[r].held

ServesAcquisition(k) == pool.status = "ready" /\ pool.active = k

\* The condition of register_run, and of assert_apify_lease_startable without
\* the ledger's status
KeyUsable(r) ==
    LET k == run[r].key IN
    IF run[r].purpose = "validation"
    THEN IF role[k] = "validation" THEN status[k] = "standby"
         ELSE status[k] = "active" /\ ServesAcquisition(k)
    ELSE ServesAcquisition(k)

\* release_reservation
Released(r) == IF run[r].status = "reserved" THEN RunStatus(r, "start_rejected")
               ELSE run

\* mark_run_terminal and mark_run_aborting leave a run that has ended alone.
Moved(r, s) == IF run[r].status \in Terminal THEN run ELSE RunStatus(r, s)

\* A validation key that is in doubt leaves the pool open.
BlocksPool(k) == k \notin Members \/ role[k] # "validation"

BlockPool(why) == Written([pool EXCEPT !.status = "blocked", !.reason = why])

\* Fault: a lost answer is taken for a start that failed
ReportUnknownRejected(r) == RunOnly(Released(r)) /\ UNCHANGED remote

\* report_start_outcome_unknown; it raises for a run that has ended.
ReportStartOutcomeUnknown(r) ==
    IF run[r].status \in Terminal THEN UNCHANGED poolVars
    ELSE /\ run' = RunStatus(r, "start_outcome_unknown")
         /\ pool' = IF BlocksPool(run[r].key) THEN BlockPool("unknown_start") ELSE pool
         /\ UNCHANGED <<status, role, order, remote>>

\* block_run_reconciliation of the run r on the key k
BlockRunReconciliation(r, k) ==
    /\ run' = Moved(r, "start_outcome_unknown")
    /\ pool' = IF BlocksPool(k) THEN BlockPool("reconcile_required") ELSE pool
    /\ UNCHANGED <<status, role, order, remote>>

\* block_unregistered_reservations
BlockUnregistered ==
    LET rn == [r \in Runs |-> IF run[r].status = "reserved" /\ run[r].key \in Members
                              THEN [run[r] EXCEPT !.status = "start_outcome_unknown"]
                              ELSE run[r]]
    IN /\ run' = rn
       /\ pool' = IF UnknownStarts(rn) # {} THEN BlockPool("unknown_start") ELSE pool
       /\ UNCHANGED <<status, role, order, remote>>

\* Fault: a settled start opens the pool while other starts are in doubt
ReleasedBlockEarly(rn, proof) ==
    IF pool.status = "blocked" /\ pool.reason = "unknown_start"
    THEN Written([pool EXCEPT !.gen = @ + 1, !.status = "ready", !.reason = "none"])
    ELSE pool

\* _release_unknown_start_block, after the ledger became rn
ReleasedBlock(rn, proof) ==
    IF /\ UnknownStarts(rn) = {}
       /\ pool.status = "blocked"
       /\ pool.reason = "unknown_start"
    THEN Written([pool EXCEPT !.gen = @ + 1, !.reason = "none",
                              !.status = IF pool.active = NoKey THEN "exhausted"
                                         ELSE "ready"])
    ELSE [pool EXCEPT !.evidence = IF pool.status = "blocked" THEN @ \cup proof ELSE @]

\* _confirm_unknown_start: never created, or known to have been aborted for free
ConfirmUnknownStart(r, s) ==
    LET rn == RunStatus(r, s)
    IN /\ run[r].status = "start_outcome_unknown" /\ ~run[r].registered
       /\ run' = rn
       /\ pool' = ReleasedBlock(rn, IF s = "start_rejected" THEN {run[r].key} ELSE {})
       /\ UNCHANGED <<status, role, order>>

\* settled_start_can_release: nothing is pending, not even on a removed key, and
\* a start on the blocked key was settled after the block.
SettledStartCanRelease ==
    /\ \A r \in Runs :
          run[r].status \in Unresolved =>
             /\ run[r].purpose # "acquisition"
             /\ run[r].key \in Members
             /\ role[run[r].key] # "acquisition"
    /\ \E k \in pool.evidence \cap Members :
          /\ k = (IF pool.active # NoKey THEN pool.active ELSE pool.draining)
          /\ role[k] = "acquisition"

\* reconcile_settled_unknown_start_block
SettledPool ==
    IF /\ pool.status = "blocked" /\ pool.reason = "unknown_start"
       /\ SettledStartCanRelease
    THEN ReleasedBlock(run, {})
    ELSE pool
=============================================================================
