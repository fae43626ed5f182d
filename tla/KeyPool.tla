------------------------------ MODULE KeyPool ------------------------------
(***************************************************************************)
(* The key pool with everything that works on it at the same time: the     *)
(* calls that start Actor runs, the workers' reconciliation, the           *)
(* administrator and Apify.                                                *)
(***************************************************************************)
EXTENDS KeyPoolCalls
-----------------------------------------------------------------------------
\* reconcile_apify_pool, one pass of a worker

AtRec(w, pc) == rec[w] = pc

GoRec(w, pc) == rec' = [rec EXCEPT ![w] = pc] /\ UNCHANGED <<call, admin>>

\* _unregistered_unknown_runs
InDoubt(kind) == {r \in Runs : /\ run[r].status = "start_outcome_unknown"
                               /\ ~run[r].registered
                               /\ run[r].key \in Members
                               /\ role[run[r].key] = kind}

ReconcileStarts(w) ==
    /\ AtRec(w, "idle")
    /\ BlockUnregistered
    /\ GoRec(w, "validation")

\* The 30 seconds after the start became unknown: longer than its POST can last
SettledPost(r) == \A c \in Calls : Own(c) = r => ~At(c, "post")

\* _prove_unregistered_start_absent: Apify lists no run of the account in the
\* time around the start.
ProvedAbsent(r) ==
    /\ run[r].held
    /\ SettledPost(r)
    /\ remote[r] = "none"
    /\ ConfirmUnknownStart(r, "start_rejected")
    /\ UNCHANGED remote

\* reconcile_dedicated_validation_unknown_starts, then the acquisitions' starts;
\* one of these that cannot be settled ends the pass.
Prove(w) ==
    \/ /\ AtRec(w, "validation")
       /\ \E r \in InDoubt("validation") : ProvedAbsent(r)
       /\ UNCHANGED <<call, rec, admin>>
    \/ /\ AtRec(w, "blocked")
       /\ \E r \in InDoubt("acquisition") : ProvedAbsent(r)
       /\ UNCHANGED <<call, rec, admin>>
    \/ /\ AtRec(w, "blocked")
       /\ InDoubt("acquisition") # {}
       /\ GoRec(w, "idle")
       /\ UNCHANGED poolVars

\* reconcile_blocked_unknown_start_pool begins; a pool that is blocked for
\* another reason stays blocked.
ReconcileBlocked(w) ==
    /\ AtRec(w, "validation")
    /\ pool' = SettledPool
    /\ GoRec(w, IF pool'.status # "blocked" THEN "drain"
                ELSE IF pool.reason = "unknown_start" THEN "blocked" ELSE "idle")
    /\ UNCHANGED <<status, role, order, run, remote>>

\* ... and reads the registered runs once the other starts are settled
\* (refresh_registered_run_status); one that has not ended ends the pass.
ReconcileRegistered(w) ==
    LET pending == {r \in AcquisitionRuns(run, pool.gen) : run[r].registered} IN
    /\ AtRec(w, "blocked")
    /\ InDoubt("acquisition") = {}
    /\ \/ \E r \in pending :
             /\ pool.status = "blocked"
             /\ Known(r) /\ remote[r] = "ended"
             /\ RunOnly(Moved(r, "ended"))
             /\ UNCHANGED <<remote, call, rec, admin>>
       \/ /\ GoRec(w, IF pool.status = "blocked" THEN "idle" ELSE "drain")
          /\ UNCHANGED poolVars

\* A draining pool has its runs aborted; a reservation that was made meanwhile
\* blocks the pool again.
ReconcileDrain(w) ==
    LET pending == AcquisitionRuns(run, pool.gen) IN
    /\ AtRec(w, "drain")
    /\ \/ /\ \E r \in pending : ~run[r].registered
          /\ BlockUnregistered
          /\ GoRec(w, "idle")
       \/ /\ \A r \in pending : run[r].registered
          /\ GoRec(w, IF pool.status = "draining" THEN "stop" ELSE "quota")
          /\ UNCHANGED poolVars

ReconcileStop(w) ==
    \E r \in AcquisitionRuns(run, pool.drainGen) :
       /\ AtRec(w, "stop")
       /\ \/ /\ Known(r)
             /\ AbortRun(r)
             /\ GoRec(w, IF Confirmed(r) THEN "stop" ELSE "idle")
          \/ /\ ~Known(r)
             /\ GoRec(w, "idle")
             /\ UNCHANGED poolVars

ReconcileFailOver(w) ==
    /\ AtRec(w, "stop") /\ ~DrainPending
    /\ \/ FailOver /\ GoRec(w, "quota")
       \/ /\ ~CanFailOver
          /\ GoRec(w, IF pool.status = "blocked" THEN "idle" ELSE "quota")
          /\ UNCHANGED poolVars

\* quota_refresh_candidates: acquisition keys with a stale snapshot, and depleted
\* ones after their billing cycle
QuotaCandidates == {k \in Members : role[k] = "acquisition" /\ status[k] # "invalid"}

ReconcileQuota(w) ==
    /\ AtRec(w, "quota")
    /\ \/ \E k \in QuotaCandidates :
             /\ pool.gen < MaxGen
             /\ \/ \E left \in {"some", "zero"} : RecordMemberQuota(k, left)
                \/ BeginDrain(k, "invalid", run)
             /\ UNCHANGED <<call, rec, admin>>
       \/ GoRec(w, "idle") /\ UNCHANGED poolVars

RecStep(w) ==
    \/ ReconcileStarts(w) \/ Prove(w) \/ ReconcileBlocked(w) \/ ReconcileRegistered(w)
    \/ ReconcileDrain(w) \/ ReconcileStop(w) \/ ReconcileFailOver(w) \/ ReconcileQuota(w)
-----------------------------------------------------------------------------
\* The administrator.  Deleting and rotating a key, and draining one by hand,
\* are several transactions of one request.

Ask(op, k) == admin' = [op |-> op, key |-> k] /\ UNCHANGED <<call, rec>>

Free == admin.op = "none" /\ pool.gen < MaxGen

EditPool ==
    /\ Free
    /\ \/ \E k \in Keys : \/ AppendSecret(k)
                          \/ \E left \in {"some", "zero"} : RecordMemberQuota(k, left)
       \/ \E requested \in Orders(Members) : Reorder(requested)
       \/ \E k \in Members \cup {NoKey} : SetValidationKey(k)
    /\ UNCHANGED <<call, rec, admin>>

\* admin_secrets_delete and admin_secrets_rotate check the key ...
CheckKey ==
    \E op \in {"delete", "rotate"}, k \in Members :
       /\ Free
       /\ SecretMutable(k)
       /\ Ask(op, k)
       /\ UNCHANGED poolVars

\* ... and change it in a later transaction.
DeleteKey ==
    /\ admin.op = "delete"
    /\ \/ RemoveSecret(admin.key)
       \/ ~Removable(admin.key) /\ UNCHANGED poolVars
    /\ Ask("none", NoKey)

RotateKey ==
    \/ /\ admin.op = "rotate"
       /\ TouchSecret(admin.key)
       /\ Ask("rotated", admin.key)
    \/ /\ admin.op = "rotated"
       /\ \/ MarkSecretRotated(admin.key)
          \/ (admin.key \notin Members \/ RotationBusy(admin.key)) /\ UNCHANGED poolVars
       /\ Ask("none", NoKey)

\* admin_apify_key_pool_drain; the request may be repeated while the key drains.
DrainKey ==
    /\ Free
    /\ \/ \E k \in Members : BeginDrain(k, "standby", run)
       \/ FailOver
    /\ UNCHANGED <<call, rec, admin>>
-----------------------------------------------------------------------------
\* Apify

RunEnds ==
    \E r \in Runs :
       /\ remote[r] = "running"
       /\ remote' = [remote EXCEPT ![r] = "ended"]
       /\ UNCHANGED <<status, role, order, pool, run, call, rec, admin>>

Next ==
    \/ \E c \in Calls : CallStep(c) \/ Crash(c)
    \/ \E w \in Workers : RecStep(w)
    \/ EditPool \/ CheckKey \/ DeleteKey \/ RotateKey \/ DrainKey
    \/ RunEnds

Spec == Init /\ [][Next]_vars
-----------------------------------------------------------------------------
\* A paid run that is alive at Apify is on the ledger as unresolved and its key
\* is a member of the pool, so that somebody will come back for it.
NoLostRun ==
    \A r \in Runs : remote[r] = "running" =>
       run[r].status \in Unresolved /\ run[r].key \in Members

\* The generation barrier: runs that are alive on acquisition keys are all on
\* the same key, whoever started them and however the keys were changed.
OneKeyAtATime ==
    \A r, s \in Runs :
       /\ remote[r] = "running" /\ role[run[r].key] = "acquisition"
       /\ remote[s] = "running" /\ role[run[s].key] = "acquisition"
       => run[r].key = run[s].key

\* What the row q of a run, with m at Apify, may be.  An unresolved run is on a key
\* of the pool; on an acquisition key it is on the active one, and a drain that is
\* under way waits for it.
RunOK(q, m) ==
    /\ q.status \in Unresolved =>
          /\ q.key \in Members
          /\ q.gen <= pool.gen
          /\ role[q.key] = "acquisition" =>
                /\ q.key = pool.active
                /\ pool.status = "draining" => q.gen <= pool.drainGen
    /\ m = "running" => q.status \in Unresolved
    /\ q.status = "none" => m = "none"

LedgerInv == \A r \in Runs : RunOK(run[r], remote[r])

\* The steps in which the call knows that it has started nothing yet
Unstarted == {"quota", "assert", "post", "reject", "depleted", "invalid"}

\* A call owns the run it reserved: nobody else has it, nothing was started for it
\* before the POST, and during the POST nobody settles it.
OwnsRun(x) ==
    /\ x.pc \in Attempt => x.run \in Runs /\ x.key \in Keys
    /\ x.run \in Runs =>
          /\ run[x.run].status # "none"
          /\ x.pc \in Unstarted => remote[x.run] = "none" /\ ~run[x.run].registered
          /\ x.pc = "post" => run[x.run].status \in {"reserved", "start_outcome_unknown"}

OwnerInv ==
    /\ \A c \in Calls : OwnsRun(call[c])
    /\ \A c, d \in Calls : call[c].run = call[d].run /\ call[c].run \in Runs => c = d

\* The inductive invariant
KeyPoolInv == KeyPoolTypeOK /\ LedgerInv /\ OwnerInv

\* The pool opens again after a start in doubt only when every such start on an
\* acquisition key is settled.  (remove_secret, which writes the status from the
\* members alone, is the exception.)
BlockedUntilSettled ==
    [][/\ pool.status = "blocked" /\ pool'.status # "blocked"
       /\ ~(admin.op = "delete" /\ admin'.op = "none")
       => UnknownStarts(run') = {}]_vars

\* A drain survives a start in doubt: when a worker or a call opens the blocked
\* pool again, no key is left in the middle of its drain.  (What the contract
\* says of a drain: "the Worker keeps reconciling", and only its completion
\* enables the next standby.)
DrainKept ==
    [][/\ pool.status = "blocked" /\ pool'.status = "ready"
       /\ UNCHANGED admin
       => \A k \in Keys : status'[k] # "draining"]_vars
=============================================================================
