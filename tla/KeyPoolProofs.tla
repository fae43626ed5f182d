--------------------------- MODULE KeyPoolProofs ---------------------------
(***************************************************************************)
(* Proofs about the module KeyPool, for every set of keys, runs, calls and *)
(* workers and every MaxGen.  The transactions on the members are proved   *)
(* first, then the moves of the ledger, then the steps of the processes.   *)
(***************************************************************************)
EXTENDS KeyPool, FiniteSetTheorems, TLAPS
-----------------------------------------------------------------------------
\* Orders of the members

\* ORDER BY position LIMIT 1 returns a member of the set, or NULL.
LEMMA FirstIsMember ==
    ASSUME NEW o, NEW ks
    PROVE  First(o, ks) \in ks \cup {NoKey}
  BY DEF First

\* The next active key is a standby among the keys offered, or NULL.
LEMMA CandidateIsStandby ==
    ASSUME NEW st, NEW ks
    PROVE  LET chosen == Candidate(st, ks) IN
           \/ chosen = NoKey
           \/ chosen \in ks /\ st[chosen] = "standby" /\ role[chosen] = "acquisition"
<1> DEFINE able == {k \in ks : st[k] = "standby" /\ role[k] = "acquisition"}
<1>1. First(order, able) \in able \cup {NoKey}
  BY FirstIsMember
<1> QED
  BY <1>1 DEF Candidate

\* What an order is, fact by fact
LEMMA OrderFacts ==
    ASSUME NEW ks, NEW o \in Orders(ks)
    PROVE  /\ o \in [Keys -> SUBSET ks]
           /\ \A k \in Keys : k \notin o[k] /\ (k \notin ks => o[k] = {})
           /\ \A k, x \in ks : k = x \/ x \in o[k] \/ k \in o[x]
           /\ \A k \in ks : \A x \in o[k] : o[x] \subseteq o[k]
  BY DEF Orders

\* _compact_positions leaves the keys ks in an order, provided that two of them
\* with the same rank both had a position before.
LEMMA RankedOrders ==
    ASSUME NEW old \in SUBSET Keys, order \in Orders(old),
           NEW ks \in SUBSET Keys, NEW rank \in [Keys -> Nat],
           \A k, x \in ks : k # x /\ rank[k] = rank[x] => k \in old /\ x \in old
    PROVE  Ranked(ks, rank) \in Orders(ks)
<1>1. /\ order \in [Keys -> SUBSET old]
      /\ \A k \in Keys : k \notin order[k] /\ (k \notin old => order[k] = {})
      /\ \A k, x \in old : k = x \/ x \in order[k] \/ k \in order[x]
      /\ \A k \in old : \A x \in order[k] : order[x] \subseteq order[k]
  BY OrderFacts
<1>2. PICK o : o = Ranked(ks, rank)
  OBVIOUS
<1>3. \A k \in Keys : o[k] = {x \in ks : /\ k \in ks
                                         /\ \/ rank[k] < rank[x]
                                            \/ rank[k] = rank[x] /\ x \in order[k]}
  BY <1>2 DEF Ranked
<1>4. o \in [Keys -> SUBSET ks]
  BY <1>2 DEF Ranked
<1>5. \A k \in Keys : k \notin o[k] /\ (k \notin ks => o[k] = {})
  BY <1>1, <1>3
<1>6. ASSUME NEW k \in ks, NEW x \in ks
      PROVE  k = x \/ x \in o[k] \/ k \in o[x]
  <2>1. k \in Keys /\ x \in Keys /\ rank[k] \in Nat /\ rank[x] \in Nat
    OBVIOUS
  <2>2. rank[k] < rank[x] \/ rank[x] < rank[k] \/ rank[k] = rank[x]
    BY <2>1
  <2> QED
    BY <1>1, <1>3, <2>1, <2>2
<1>7. ASSUME NEW k \in ks, NEW x \in o[k], NEW y \in o[x]
      PROVE  y \in o[k]
  <2>1. k \in Keys /\ x \in ks /\ x \in Keys /\ y \in ks /\ y \in Keys
    BY <1>4
  <2>2. rank[k] \in Nat /\ rank[x] \in Nat /\ rank[y] \in Nat
    BY <2>1
  <2>3. rank[k] < rank[x] \/ (rank[k] = rank[x] /\ x \in order[k])
    BY <1>3, <2>1
  <2>4. rank[x] < rank[y] \/ (rank[x] = rank[y] /\ y \in order[x])
    BY <1>3, <2>1
  <2>5. rank[k] < rank[y] \/ (rank[k] = rank[y] /\ x \in order[k] /\ y \in order[x])
    BY <2>2, <2>3, <2>4
  <2>6. x \in order[k] /\ y \in order[x] => y \in order[k]
    BY <1>1, <2>1
  <2> QED
    BY <1>3, <2>1, <2>5, <2>6
<1> QED
  BY <1>2, <1>4, <1>5, <1>6, <1>7 DEF Orders

\* A key that is put first or last leaves an order of all of them.
LEMMA MovedOrders ==
    ASSUME NEW old \in SUBSET Keys, order \in Orders(old),
           NEW ks \in SUBSET Keys, NEW k, ks \ {k} \subseteq old
    PROVE  ToFront(k, ks) \in Orders(ks) /\ ToEnd(k, ks) \in Orders(ks)
<1>1. ASSUME NEW rank \in [Keys -> Nat],
             \A x \in Keys : x # k => rank[x] # rank[k] \/ k \notin Keys
      PROVE  Ranked(ks, rank) \in Orders(ks)
  <2>1. \A x, y \in ks : x # y /\ rank[x] = rank[y] => x \in old /\ y \in old
    BY <1>1
  <2> QED
    BY <2>1, RankedOrders
<1>2. PICK front : front = [x \in Keys |-> IF x = k THEN 0 ELSE 1]
  OBVIOUS
<1>3. PICK end : end = [x \in Keys |-> IF x = k THEN 1 ELSE 0]
  OBVIOUS
<1>4. Ranked(ks, front) \in Orders(ks)
  BY <1>1, <1>2
<1>5. Ranked(ks, end) \in Orders(ks)
  BY <1>1, <1>3
<1> QED
  BY <1>2, <1>3, <1>4, <1>5 DEF ToFront, ToEnd

-----------------------------------------------------------------------------
\* The transactions on the members

\* The rows of runs that are on the ledger may stay as they are after the step.
Carried ==
    \A q \in RunRows : \A m \in {"none", "running", "ended"} :
       (\E r \in Runs : q = run[r] /\ m = remote[r]) => RunOK(q, m)'

\* What MembersOK says of the pool's row
LEMMA PoolFields ==
    ASSUME NEW p \in PoolRows
    PROVE  /\ p.status \in {"empty", "ready", "draining", "blocked", "exhausted"}
           /\ p.active \in Keys \cup {NoKey} /\ p.draining \in Keys \cup {NoKey}
           /\ p.drainGen \in Nat /\ p.gen \in Nat
           /\ p.target \in {"standby", "depleted", "invalid"}
           /\ p.reason \in Reasons /\ p.evidence \in SUBSET Keys
  BY DEF PoolRows

\* An update that moves updated_at changes nothing else that is modelled.
LEMMA WrittenRow ==
    ASSUME NEW p \in PoolRows
    PROVE  /\ Written(p) \in PoolRows
           /\ Written(p).status = p.status /\ Written(p).active = p.active
           /\ Written(p).draining = p.draining /\ Written(p).drainGen = p.drainGen
           /\ Written(p).gen = p.gen /\ Written(p).reason = p.reason
           /\ Written(p).target = p.target
  BY DEF Written, PoolRows

\* The row of a pool whose next active key is k
LEMMA ActivatedRow ==
    ASSUME pool \in PoolRows, NEW k \in Keys
    PROVE  /\ Activated(k) \in PoolRows /\ Activated(k).gen = pool.gen + 1
           /\ Activated(k).status = "ready" /\ Activated(k).active = k
           /\ Activated(k).draining = pool.draining
           /\ Activated(k).drainGen = pool.drainGen
<1>1. pool.gen \in Nat /\ pool.gen + 1 \in Nat /\ "none" \in Reasons
  BY PoolFields DEF Reasons
<1>2. PICK n : n = pool.gen + 1
  OBVIOUS
<1>3. PICK x : x = [pool EXCEPT !.gen = n, !.status = "ready", !.active = k,
                                !.reason = "none"]
  OBVIOUS
<1>4. /\ x.gen = n /\ x.status = "ready" /\ x.active = k
      /\ x.draining = pool.draining /\ x.drainGen = pool.drainGen
  BY <1>3 DEF PoolRows
<1>5. x \in PoolRows
  BY <1>1, <1>2, <1>3 DEF PoolRows
<1>6. Activated(k) = Written(x)
  BY <1>2, <1>3 DEF Activated
<1> QED
  BY <1>2, <1>4, <1>5, <1>6, WrittenRow

\* The row of a pool whose members changed
LEMMA CountedRow ==
    ASSUME pool \in PoolRows
    PROVE  /\ Counted \in PoolRows /\ Counted.gen = pool.gen + 1
           /\ Counted.status = pool.status /\ Counted.active = pool.active
           /\ Counted.draining = pool.draining /\ Counted.drainGen = pool.drainGen
<1>1. PICK x : x = [pool EXCEPT !.gen = @ + 1]
  OBVIOUS
<1>2. /\ x \in PoolRows /\ x.gen = pool.gen + 1 /\ x.status = pool.status
      /\ x.active = pool.active /\ x.draining = pool.draining
      /\ x.drainGen = pool.drainGen
  BY <1>1 DEF PoolRows
<1> QED
  BY <1>1, <1>2, WrittenRow DEF Counted

\* append_secret
LEMMA AppendKeeps ==
    ASSUME MembersOK, LedgerOK, LedgerInv, NEW k \in Keys, AppendSecret(k)
    PROVE  MembersOK' /\ Carried
<1>1. pool \in PoolRows /\ status \in [Keys -> Statuses] /\ order \in Orders(Members)
  BY DEF MembersOK
<1>2. /\ pool' \in PoolRows /\ pool'.gen = pool.gen + 1
      /\ pool'.status = IF Idle THEN "ready" ELSE pool.status
      /\ pool'.active = IF Idle THEN k ELSE pool.active
      /\ pool'.draining = pool.draining /\ pool'.drainGen = pool.drainGen
  <2>1. CASE Idle
    BY <1>1, <2>1, ActivatedRow DEF AppendSecret
  <2>2. CASE ~Idle
    BY <1>1, <2>2, CountedRow DEF AppendSecret
  <2> QED
    BY <2>1, <2>2
<1>3. /\ status[k] = "absent"
      /\ status' = [status EXCEPT ![k] = IF Idle THEN "active" ELSE "standby"]
      /\ role' = [role EXCEPT ![k] = "acquisition"]
  BY DEF AppendSecret
<1>4. Members' = Members \cup {k} /\ k \notin Members
  BY <1>1, <1>3 DEF Members
<1>5. order' \in Orders(Members')
  BY <1>1, <1>4, MovedOrders DEF AppendSecret, Members
<1>6. status' \in [Keys -> Statuses] /\ role' \in [Keys -> {"acquisition", "validation"}]
  BY <1>1, <1>3 DEF MembersOK, Statuses
<1>7. \A x, y \in ValidationKeys' : x = y
  <2>1. ValidationKeys' \subseteq ValidationKeys
    BY <1>3, <1>4 DEF ValidationKeys, MembersOK, Members
  <2> QED
    BY <2>1 DEF MembersOK
<1>8. \A x \in Keys : status'[x] \in {"active", "draining"} => pool'.active = x
  <2>1. Idle => pool.active = NoKey
    BY DEF Idle
  <2> QED
    BY <1>1, <1>2, <1>3, <2>1, KeyPoolAssumption DEF MembersOK
<1>9. pool'.status = "draining" => pool'.draining = pool'.active /\ pool'.active \in Members'
  BY <1>2, <1>4 DEF MembersOK
<1>10. Carried
  <2> SUFFICES ASSUME NEW q \in RunRows, NEW m \in {"none", "running", "ended"},
                      NEW r \in Runs, q = run[r], m = remote[r]
               PROVE  RunOK(q, m)'
    BY DEF Carried
  <2>1. RunOK(q, m)
    BY DEF LedgerInv
  <2>2. q.gen \in Nat /\ pool.gen \in Nat
    BY <1>1, PoolFields DEF RunRows
  <2>3. Idle => pool.active = NoKey
    BY DEF Idle
  <2>4. q.status \in Unresolved => q.key \in Members /\ q.key # k /\ q.key # NoKey
    BY <1>4, <2>1, KeyPoolAssumption DEF RunOK, Members
  <2> QED
    BY <1>2, <1>3, <1>4, <2>1, <2>2, <2>3, <2>4 DEF RunOK, MembersOK
<1> QED
  BY <1>2, <1>5, <1>6, <1>7, <1>8, <1>9, <1>10 DEF MembersOK

\* The runs that hold up the acquisition keys
Pending == {r \in Runs : /\ run[r].status \in Unresolved
                         /\ role[run[r].key] = "acquisition"}

\* A pending run is on the active key; without one there is none, and a drain
\* waits for all of them.
LEMMA PendingOnActive ==
    ASSUME MembersOK, LedgerOK, LedgerInv
    PROVE  /\ \A r \in Pending : run[r].key = pool.active
           /\ pool.active = NoKey => Pending = {}
           /\ pool.status = "draining" => AcquisitionRuns(run, pool.drainGen) = Pending
<1>1. ASSUME NEW r \in Pending
      PROVE  /\ run[r].key \in Members /\ run[r].key = pool.active
             /\ pool.status = "draining" => run[r].gen <= pool.drainGen
  BY <1>1 DEF LedgerInv, RunOK, Pending
<1> QED
  BY <1>1, KeyPoolAssumption DEF Members, AcquisitionRuns, Pending

\* The ledger may stay as it is when a step keeps the keys that have runs, their
\* roles, and, while a run is pending, the active key.
LEMMA CarriedOver ==
    ASSUME LedgerOK, LedgerInv, pool.gen \in Nat, pool'.gen \in Nat, pool.gen <= pool'.gen,
           \A k \in Keys : BusyRuns(k) # {} => k \in Members' /\ role'[k] = role[k],
           \A r \in Pending : /\ pool'.active = pool.active
                              /\ pool'.status = "draining" => run[r].gen <= pool'.drainGen
    PROVE  Carried
<1> SUFFICES ASSUME NEW q \in RunRows, NEW m \in {"none", "running", "ended"},
                    NEW r \in Runs, q = run[r], m = remote[r]
             PROVE  RunOK(q, m)'
  BY DEF Carried
<1>1. RunOK(q, m)
  BY DEF LedgerInv
<1>2. q.gen \in Nat
  BY DEF RunRows
<1>3. ASSUME q.status \in Unresolved
      PROVE  /\ q.key \in Members' /\ role'[q.key] = role[q.key] /\ q.gen <= pool'.gen
             /\ role[q.key] = "acquisition" =>
                   /\ q.key = pool'.active
                   /\ pool'.status = "draining" => q.gen <= pool'.drainGen
  <2>1. q.key \in Members /\ q.key \in Keys /\ r \in BusyRuns(q.key)
    BY <1>1, <1>3 DEF RunOK, Members, BusyRuns
  <2>2. role[q.key] = "acquisition" => r \in Pending
    BY <1>3 DEF Pending
  <2> QED
    BY <1>1, <1>2, <1>3, <2>1, <2>2 DEF RunOK
<1> QED
  BY <1>1, <1>3 DEF RunOK

\* reorder
LEMMA ReorderKeeps ==
    ASSUME MembersOK, LedgerOK, LedgerInv, NEW requested, Reorder(requested)
    PROVE  MembersOK' /\ Carried
<1>1. pool \in PoolRows /\ pool.gen \in Nat /\ pool.drainGen \in Nat
  BY PoolFields DEF MembersOK
<1>2. /\ pool' \in PoolRows /\ pool'.gen = pool.gen + 1 /\ pool'.status = pool.status
      /\ pool'.active = pool.active /\ pool'.draining = pool.draining
      /\ pool'.drainGen = pool.drainGen
  BY <1>1, CountedRow DEF Reorder
<1>3. status' = status /\ role' = role /\ order' \in Orders(Members)
  BY DEF Reorder
<1>4. Members' = Members /\ ValidationKeys' = ValidationKeys
  BY <1>3 DEF Members, ValidationKeys
<1>5. MembersOK'
  BY <1>2, <1>3, <1>4 DEF MembersOK
<1>6. \A k \in Keys : BusyRuns(k) # {} => k \in Members' /\ role'[k] = role[k]
  BY <1>3, <1>4 DEF BusyRuns, LedgerInv, RunOK
<1>7. \A r \in Pending : pool'.status = "draining" => run[r].gen <= pool'.drainGen
  BY <1>2 DEF LedgerInv, RunOK, Pending
<1> QED
  BY <1>1, <1>2, <1>5, <1>6, <1>7, CarriedOver

\* A key with an unresolved run is a member of the pool.
LEMMA BusyIsMember ==
    ASSUME LedgerInv, NEW k, BusyRuns(k) # {}
    PROVE  k \in Members
  BY DEF BusyRuns, LedgerInv, RunOK

\* A drain that is under way waits for the pending runs.
LEMMA DrainCovers ==
    ASSUME LedgerInv, pool.status = "draining", NEW r \in Pending
    PROVE  run[r].gen <= pool.drainGen
  BY DEF LedgerInv, RunOK, Pending

\* set_validation_key
LEMMA SetValidationKeeps ==
    ASSUME MembersOK, LedgerOK, LedgerInv, NEW k \in Members \cup {NoKey},
           SetValidationKey(k)
    PROVE  MembersOK' /\ Carried
<1>1. pool \in PoolRows /\ pool.gen \in Nat /\ pool.drainGen \in Nat
  BY PoolFields DEF MembersOK
<1>2. /\ pool' \in PoolRows /\ pool'.gen = pool.gen + 1 /\ pool'.status = pool.status
      /\ pool'.active = pool.active /\ pool'.draining = pool.draining
      /\ pool'.drainGen = pool.drainGen
  BY <1>1, CountedRow DEF SetValidationKey
<1>3. /\ status' = status /\ order' = order
      /\ role' = [x \in Keys |-> IF x = k THEN "validation"
                                 ELSE IF x \in ValidationKeys THEN "acquisition" ELSE role[x]]
  BY DEF SetValidationKey
<1>4. Members' = Members
  BY <1>3 DEF Members
<1>5. \A x, y \in ValidationKeys' : x = y
  BY <1>3, <1>4 DEF ValidationKeys, Members
<1>6. MembersOK'
  BY <1>2, <1>3, <1>4, <1>5 DEF MembersOK
<1>7. \A x \in Keys : BusyRuns(x) # {} => x \in Members' /\ role'[x] = role[x]
  <2> SUFFICES ASSUME NEW x \in Keys, BusyRuns(x) # {}
               PROVE  x \in Members' /\ role'[x] = role[x]
    OBVIOUS
  <2>1. x \in Members
    BY BusyIsMember
  <2>2. x # k
    BY <2>1, KeyPoolAssumption DEF SetValidationKey, Members
  <2>3. x \notin ValidationKeys
    BY DEF SetValidationKey
  <2> QED
    BY <1>3, <1>4, <2>1, <2>2, <2>3
<1> QED
  BY <1>1, <1>2, <1>6, <1>7, CarriedOver, DrainCovers

\* mark_secret_rotated
LEMMA RotatedKeeps ==
    ASSUME MembersOK, LedgerOK, LedgerInv, NEW k \in Keys, MarkSecretRotated(k)
    PROVE  MembersOK' /\ Carried
<1> DEFINE remains == role[k] # "validation" /\ pool.active = k
           activate == role[k] # "validation" /\ pool.active = NoKey
<1>1. pool \in PoolRows /\ pool.gen \in Nat /\ pool.drainGen \in Nat
  BY PoolFields DEF MembersOK
<1>2. /\ k \in Members /\ status[k] # "absent" /\ status[k] # "draining"
      /\ pool.status # "draining" /\ BusyRuns(k) = {}
  BY DEF MarkSecretRotated, RotationBusy, Members
<1>3. /\ status' = [status EXCEPT ![k] = IF remains \/ activate THEN "active" ELSE "standby"]
      /\ order' = IF remains THEN order
                  ELSE IF activate THEN ToFront(k, Members) ELSE ToEnd(k, Members)
      /\ pool' = IF activate THEN Activated(k) ELSE Counted
      /\ role' = role
  BY DEF MarkSecretRotated
<1>4. /\ pool' \in PoolRows /\ pool'.gen = pool.gen + 1
      /\ pool'.status = IF activate THEN "ready" ELSE pool.status
      /\ pool'.active = IF activate THEN k ELSE pool.active
  <2>1. CASE activate
    BY <1>1, <1>3, <2>1, ActivatedRow
  <2>2. CASE ~activate
    BY <1>1, <1>3, <2>2, CountedRow
  <2> QED
    BY <2>1, <2>2
<1>5. status' \in [Keys -> Statuses] /\ Members' = Members
  BY <1>2, <1>3 DEF MembersOK, Members, Statuses
<1>6. order' \in Orders(Members)
  BY <1>3, MovedOrders DEF MembersOK, Members
<1>7. ValidationKeys' = ValidationKeys
  BY <1>3, <1>5 DEF ValidationKeys
<1>8. ASSUME NEW x \in Keys, status'[x] \in {"active", "draining"}
      PROVE  pool'.active = x
  <2>1. CASE x = k
    BY <1>3, <1>4, <1>8, <2>1 DEF MembersOK
  <2>2. CASE x # k
    <3>1. pool.active = x
      BY <1>3, <1>8, <2>2 DEF MembersOK
    <3> QED
      BY <1>4, <3>1, KeyPoolAssumption
  <2> QED
    BY <2>1, <2>2
<1>9. MembersOK'
  BY <1>2, <1>3, <1>4, <1>5, <1>6, <1>7, <1>8 DEF MembersOK
<1>10. \A x \in Keys : BusyRuns(x) # {} => x \in Members' /\ role'[x] = role[x]
  BY <1>3, <1>5, BusyIsMember
<1>11. \A r \in Pending : pool'.active = pool.active /\ pool'.status # "draining"
  BY <1>2, <1>4, PendingOnActive
<1> QED
  BY <1>1, <1>4, <1>9, <1>10, <1>11, CarriedOver

\* record_member_quota
LEMMA QuotaKeeps ==
    ASSUME MembersOK, LedgerOK, LedgerInv, NEW k \in Keys, NEW remaining,
           RecordMemberQuota(k, remaining)
    PROVE  MembersOK' /\ Carried
<1> DEFINE recovers == remaining = "some" /\ status[k] \in {"depleted", "invalid"}
           spent == remaining = "zero" /\ status[k] \notin {"active", "draining"}
<1>1. pool \in PoolRows /\ pool.gen \in Nat /\ pool.drainGen \in Nat
  BY PoolFields DEF MembersOK
<1>2. k \in Members /\ status[k] # "absent"
  BY DEF RecordMemberQuota, Members
<1>3. /\ status' = [status EXCEPT ![k] = IF spent THEN "depleted"
                                         ELSE IF recovers
                                         THEN IF Idle THEN "active" ELSE "standby"
                                         ELSE status[k]]
      /\ order' = IF ~recovers THEN order
                  ELSE IF Idle THEN ToFront(k, Members) ELSE ToEnd(k, Members)
      /\ pool' = IF recovers /\ Idle THEN Activated(k) ELSE pool
      /\ role' = role
  BY DEF RecordMemberQuota
<1>4. /\ pool' \in PoolRows /\ pool'.gen \in Nat /\ pool.gen <= pool'.gen
      /\ pool'.status = IF recovers /\ Idle THEN "ready" ELSE pool.status
      /\ pool'.active = IF recovers /\ Idle THEN k ELSE pool.active
      /\ pool'.draining = pool.draining /\ pool'.drainGen = pool.drainGen
  <2>1. CASE recovers /\ Idle
    BY <1>1, <1>3, <2>1, ActivatedRow
  <2>2. CASE ~(recovers /\ Idle)
    BY <1>1, <1>3, <2>2
  <2> QED
    BY <2>1, <2>2
<1>5. status' \in [Keys -> Statuses] /\ Members' = Members
  BY <1>2, <1>3 DEF MembersOK, Members, Statuses
<1>6. order' \in Orders(Members)
  BY <1>3, MovedOrders DEF MembersOK, Members
<1>7. ValidationKeys' = ValidationKeys
  BY <1>3, <1>5 DEF ValidationKeys
<1>8. Idle => pool.active = NoKey
  BY DEF Idle
<1>9. ASSUME NEW x \in Keys, status'[x] \in {"active", "draining"}
      PROVE  pool'.active = x
  <2>1. CASE x = k
    BY <1>3, <1>4, <1>9, <2>1 DEF MembersOK
  <2>2. CASE x # k
    <3>1. pool.active = x
      BY <1>3, <1>9, <2>2 DEF MembersOK
    <3> QED
      BY <1>4, <1>8, <3>1, KeyPoolAssumption
  <2> QED
    BY <2>1, <2>2
<1>10. pool'.status = "draining" => pool'.draining = pool'.active /\ pool'.active \in Members
  BY <1>4 DEF MembersOK
<1>11. MembersOK'
  BY <1>3, <1>4, <1>5, <1>6, <1>7, <1>9, <1>10 DEF MembersOK
<1>12. \A x \in Keys : BusyRuns(x) # {} => x \in Members' /\ role'[x] = role[x]
  BY <1>3, <1>5, BusyIsMember
<1>13. \A r \in Pending : /\ pool'.active = pool.active
                          /\ pool'.status = "draining" => run[r].gen <= pool'.drainGen
  <2>1. Pending # {} => ~Idle
    BY <1>8, PendingOnActive
  <2> QED
    BY <1>4, <2>1, DrainCovers
<1> QED
  BY <1>1, <1>4, <1>11, <1>12, <1>13, CarriedOver

\* remove_secret
LEMMA RemoveKeeps ==
    ASSUME MembersOK, LedgerOK, LedgerInv, NEW k \in Keys, RemoveSecret(k)
    PROVE  MembersOK' /\ Carried
<1> DEFINE left == Members \ {k}
           chosen == IF pool.active = NoKey /\ pool.status \notin {"draining", "blocked"}
                     THEN Candidate(status, left) ELSE NoKey
           active == IF pool.active # NoKey THEN pool.active ELSE chosen
           outcome == IF active # NoKey THEN "ready"
                      ELSE IF \E x \in left : role[x] = "acquisition"
                           THEN "exhausted" ELSE "empty"
<1>1. pool \in PoolRows /\ pool.gen \in Nat /\ pool.drainGen \in Nat
  BY PoolFields DEF MembersOK
<1>2. /\ status[k] \notin {"absent", "active", "draining"} /\ BusyRuns(k) = {}
      /\ k \in Members
  BY DEF RemoveSecret, Removable, Members
<1>3. /\ status' = [x \in Keys |-> IF x = k THEN "absent"
                                   ELSE IF x = chosen THEN "active" ELSE status[x]]
      /\ order' = Ranked(left, [x \in Keys |-> 0])
      /\ pool' = Written([pool EXCEPT !.gen = @ + 1, !.active = active, !.status = outcome])
      /\ role' = role
  BY DEF RemoveSecret
<1>4. \/ chosen = NoKey
      \/ pool.active = NoKey /\ chosen \in left /\ chosen \in Keys
  BY CandidateIsStandby DEF Members
<1>5. active \in Keys \cup {NoKey}
  BY <1>1, <1>4, PoolFields
<1>6. /\ pool' \in PoolRows /\ pool'.gen = pool.gen + 1 /\ pool'.status = outcome
      /\ pool'.active = active
  <2>1. PICK n \in Nat : n = pool.gen + 1
    BY <1>1
  <2>2. PICK a \in Keys \cup {NoKey} : a = active
    BY <1>5
  <2>3. PICK o \in {"empty", "ready", "draining", "blocked", "exhausted"} : o = outcome
    OBVIOUS
  <2>4. PICK p : p = [pool EXCEPT !.gen = n, !.active = a, !.status = o]
    OBVIOUS
  <2>5. p.gen = n /\ p.status = o /\ p.active = a /\ p \in PoolRows
    BY <1>1, <2>4 DEF PoolRows
  <2>6. pool' = Written(p)
    BY <1>3, <2>1, <2>2, <2>3, <2>4
  <2> QED
    BY <2>1, <2>2, <2>3, <2>5, <2>6, WrittenRow
<1>7. /\ pool'.status # "draining"
      /\ pool.active # NoKey => pool'.active = pool.active
      /\ pool.active = NoKey => pool'.active = chosen
  BY <1>6
<1> HIDE DEF chosen, active, outcome
<1>8. Members' = left
  <2>1. \A x \in Keys : status'[x] # "absent" <=> x # k /\ (x = chosen \/ status[x] # "absent")
    BY <1>3
  <2>2. \A x \in Keys : x = chosen => x \in Members
    BY <1>4, KeyPoolAssumption
  <2> QED
    BY <2>1, <2>2 DEF Members
<1>9. status' \in [Keys -> Statuses]
  BY <1>3 DEF MembersOK, Statuses
<1>10. order' \in Orders(left)
  <2>1. PICK rank : rank = [x \in Keys |-> 0]
    OBVIOUS
  <2>2. rank \in [Keys -> Nat]
    BY <2>1
  <2> QED
    BY <1>3, <2>1, <2>2, RankedOrders DEF MembersOK, Members
<1>11. ValidationKeys' \subseteq ValidationKeys
  BY <1>3, <1>8 DEF ValidationKeys
<1>12. ASSUME NEW x \in Keys, status'[x] \in {"active", "draining"}
       PROVE  pool'.active = x
  <2>1. x # k
    BY <1>3, <1>12
  <2>2. CASE x = chosen
    BY <1>4, <1>7, <2>2, KeyPoolAssumption
  <2>3. CASE x # chosen
    <3>1. pool.active = x
      BY <1>3, <1>12, <2>1, <2>3 DEF MembersOK
    <3> QED
      BY <1>7, <3>1, KeyPoolAssumption
  <2> QED
    BY <2>2, <2>3
<1>13. MembersOK'
  BY <1>3, <1>6, <1>7, <1>8, <1>9, <1>10, <1>11, <1>12 DEF MembersOK
<1>14. \A x \in Keys : BusyRuns(x) # {} => x \in Members' /\ role'[x] = role[x]
  BY <1>2, <1>3, <1>8, BusyIsMember
<1>15. \A r \in Pending : pool'.active = pool.active /\ pool'.status # "draining"
  BY <1>7, PendingOnActive
<1> QED
  BY <1>1, <1>6, <1>13, <1>14, <1>15, CarriedOver

\* _begin_drain_in_transaction
LEMMA BeginDrainKeeps ==
    ASSUME MembersOK, LedgerOK, LedgerInv, NEW k \in Keys,
           NEW target \in {"standby", "depleted", "invalid"}, NEW rn,
           BeginDrain(k, target, rn)
    PROVE  MembersOK' /\ Carried
<1> DEFINE aside == pool.status # "draining" /\ status[k] \notin {"active", "draining"}
<1>1. pool \in PoolRows /\ pool.gen \in Nat /\ pool.drainGen \in Nat
  BY PoolFields DEF MembersOK
<1>2. /\ k \in Members /\ status[k] # "absent" /\ role' = role /\ order' = order
      /\ status' = [status EXCEPT ![k] = IF DrainStarts(k) THEN "draining"
                                         ELSE IF aside THEN target ELSE status[k]]
  BY DEF BeginDrain, Members
<1>3. /\ pool' \in PoolRows /\ pool'.gen = pool.gen /\ pool'.active = pool.active
      /\ pool'.status = IF DrainStarts(k) THEN "draining" ELSE pool.status
      /\ pool'.draining = IF DrainStarts(k) THEN k ELSE pool.draining
      /\ pool'.drainGen = IF DrainStarts(k) THEN pool.gen ELSE pool.drainGen
  <2>1. CASE DrainStarts(k)
    <3>1. PICK n \in Nat : n = pool.gen
      BY <1>1
    <3>2. PICK p : p = [pool EXCEPT !.status = "draining", !.draining = k, !.drainGen = n,
                                    !.target = target, !.reason = "none"]
      OBVIOUS
    <3>3. "none" \in Reasons
      BY DEF Reasons
    <3>4. /\ p.gen = pool.gen /\ p.active = pool.active /\ p.status = "draining"
          /\ p.draining = k /\ p.drainGen = n
      BY <1>1, <3>2 DEF PoolRows
    <3>5. p \in PoolRows
      BY <1>1, <3>2, <3>3 DEF PoolRows
    <3>6. pool' = Written(p)
      BY <2>1, <3>1, <3>2 DEF BeginDrain
    <3> QED
      BY <2>1, <3>1, <3>4, <3>5, <3>6, WrittenRow
  <2>2. CASE ~DrainStarts(k)
    BY <1>1, <2>2 DEF BeginDrain
  <2> QED
    BY <2>1, <2>2
<1>4. status' \in [Keys -> Statuses] /\ Members' = Members
  BY <1>2 DEF MembersOK, Members, Statuses
<1>5. ValidationKeys' = ValidationKeys
  BY <1>2, <1>4 DEF ValidationKeys
<1>6. \A x \in Keys : status'[x] \in {"active", "draining"} => pool'.active = x
  BY <1>2, <1>3 DEF MembersOK, DrainStarts
<1>7. pool'.status = "draining" => pool'.draining = pool'.active /\ pool'.active \in Members
  BY <1>2, <1>3 DEF MembersOK, DrainStarts
<1>8. MembersOK'
  BY <1>2, <1>3, <1>4, <1>5, <1>6, <1>7 DEF MembersOK
<1>9. \A x \in Keys : BusyRuns(x) # {} => x \in Members' /\ role'[x] = role[x]
  BY <1>2, <1>4, BusyIsMember
<1>10. \A r \in Pending : pool'.status = "draining" => run[r].gen <= pool'.drainGen
  <2>1. \A r \in Pending : run[r].gen <= pool.gen
    BY DEF Pending, LedgerInv, RunOK
  <2> QED
    BY <1>3, <2>1, DrainCovers
<1> QED
  BY <1>1, <1>3, <1>8, <1>9, <1>10, CarriedOver

\* complete_acquisition_drain_and_failover
LEMMA FailOverKeeps ==
    ASSUME MembersOK, LedgerOK, LedgerInv, FailOver
    PROVE  MembersOK' /\ Carried
<1> DEFINE old == pool.draining
           settled == [status EXCEPT ![old] = pool.target]
           chosen == Candidate(settled, Members \ {old})
           rank == [k \in Keys |-> IF k = chosen THEN 0 ELSE IF k = old THEN 3
                                   ELSE IF status[k] = "standby" THEN 1 ELSE 2]
           outcome == IF chosen = NoKey THEN "exhausted" ELSE "ready"
<1>1. /\ pool \in PoolRows /\ pool.gen \in Nat /\ pool.drainGen \in Nat
      /\ pool.target \in {"standby", "depleted", "invalid"}
  BY PoolFields DEF MembersOK
<1>2. old = pool.active /\ old \in Members /\ old \in Keys /\ status[old] # "absent"
  BY DEF FailOver, CanFailOver, MembersOK, Members
<1>3. Pending = {}
  BY PendingOnActive DEF FailOver, CanFailOver, DrainPending
<1>4. /\ status' = [k \in Keys |-> IF k = chosen THEN "active" ELSE settled[k]]
      /\ order' = Ranked(Members, rank)
      /\ pool' = Written([pool EXCEPT !.gen = @ + 1, !.active = chosen, !.draining = NoKey,
                                      !.drainGen = 0, !.target = "standby",
                                      !.reason = "none", !.status = outcome])
      /\ role' = role
  BY DEF FailOver
<1>5. chosen = NoKey \/ (chosen \in Members /\ chosen \in Keys /\ chosen # old)
  BY CandidateIsStandby DEF Members
<1>6. order' \in Orders(Members)
  <2>1. PICK f : f = rank
    OBVIOUS
  <2>2. f \in [Keys -> Nat]
    BY <2>1
  <2> QED
    BY <1>4, <2>1, <2>2, RankedOrders DEF MembersOK, Members
<1>7. /\ pool' \in PoolRows /\ pool'.gen = pool.gen + 1 /\ pool'.active = chosen
      /\ pool'.status # "draining"
  <2>1. PICK n \in Nat : n = pool.gen + 1
    BY <1>1
  <2>2. PICK a \in Keys \cup {NoKey} : a = chosen
    BY <1>5
  <2>3. PICK o \in {"empty", "ready", "blocked", "exhausted"} : o = outcome
    OBVIOUS
  <2>4. PICK p : p = [pool EXCEPT !.gen = n, !.active = a, !.draining = NoKey,
                                  !.drainGen = 0, !.target = "standby",
                                  !.reason = "none", !.status = o]
    OBVIOUS
  <2>5. "none" \in Reasons
    BY DEF Reasons
  <2>6. p.gen = n /\ p.status = o /\ p.active = a
    BY <1>1, <2>4 DEF PoolRows
  <2>7. p \in PoolRows
    BY <1>1, <2>4, <2>5 DEF PoolRows
  <2>8. pool' = Written(p)
    BY <1>4, <2>1, <2>2, <2>3, <2>4
  <2> QED
    BY <2>1, <2>2, <2>3, <2>6, <2>7, <2>8, WrittenRow
<1> HIDE DEF chosen, rank, outcome
<1>8. \A k \in Keys : status'[k] = IF k = chosen THEN "active"
                                   ELSE IF k = old THEN pool.target ELSE status[k]
  BY <1>2, <1>4 DEF MembersOK
<1>9. status' \in [Keys -> Statuses]
  BY <1>1, <1>4, <1>8 DEF MembersOK, Statuses
<1>10. Members' = Members
  <2>1. \A k \in Keys : status'[k] = "absent" <=> status[k] = "absent"
    BY <1>1, <1>2, <1>5, <1>8, KeyPoolAssumption DEF Members
  <2> QED
    BY <2>1 DEF Members
<1>11. ValidationKeys' = ValidationKeys
  BY <1>4, <1>10 DEF ValidationKeys
<1>12. \A x \in Keys : status'[x] \in {"active", "draining"} => pool'.active = x
  BY <1>1, <1>2, <1>7, <1>8 DEF MembersOK
<1>13. MembersOK'
  BY <1>4, <1>6, <1>7, <1>9, <1>10, <1>11, <1>12 DEF MembersOK
<1>14. \A x \in Keys : BusyRuns(x) # {} => x \in Members' /\ role'[x] = role[x]
  BY <1>4, <1>10, BusyIsMember
<1> QED
  BY <1>1, <1>3, <1>7, <1>13, <1>14, CarriedOver

-----------------------------------------------------------------------------
\* The ledger

\* The pool's row, when only its status may have changed, to another one than
\* draining
PoolStays ==
    /\ pool' \in PoolRows /\ pool.gen <= pool'.gen /\ pool'.active = pool.active
    /\ pool'.draining = pool.draining /\ pool'.drainGen = pool.drainGen
    /\ pool'.status = "draining" => pool.status = "draining"

\* A step that leaves the members alone and the active key where it is
LEMMA MembersStay ==
    ASSUME MembersOK, LedgerOK, LedgerInv, UNCHANGED <<status, role, order>>, PoolStays
    PROVE  MembersOK' /\ Carried
<1>1. Members' = Members /\ ValidationKeys' = ValidationKeys
  BY DEF Members, ValidationKeys
<1>2. MembersOK'
  BY <1>1 DEF MembersOK, PoolStays
<1>3. pool.gen \in Nat /\ pool'.gen \in Nat
  BY PoolFields DEF PoolStays, MembersOK
<1>4. \A x \in Keys : BusyRuns(x) # {} => x \in Members' /\ role'[x] = role[x]
  BY <1>1, BusyIsMember
<1>5. \A r \in Pending : /\ pool'.active = pool.active
                         /\ pool'.status = "draining" => run[r].gen <= pool'.drainGen
  BY DrainCovers DEF PoolStays
<1> QED
  BY <1>2, <1>3, <1>4, <1>5, CarriedOver DEF PoolStays

\* Nothing happens to the pool's row, or it is blocked.
LEMMA BlockedStays ==
    ASSUME MembersOK, NEW why \in Reasons, pool' = pool \/ pool' = BlockPool(why)
    PROVE  PoolStays
<1>1. pool \in PoolRows /\ pool.gen \in Nat
  BY PoolFields DEF MembersOK
<1>2. CASE pool' = pool
  BY <1>1, <1>2 DEF PoolStays
<1>3. CASE pool' = BlockPool(why)
  <2>1. PICK p : p = [pool EXCEPT !.status = "blocked", !.reason = why]
    OBVIOUS
  <2>2. /\ p \in PoolRows /\ p.gen = pool.gen /\ p.active = pool.active
        /\ p.draining = pool.draining /\ p.drainGen = pool.drainGen /\ p.status = "blocked"
    BY <1>1, <2>1 DEF PoolRows
  <2>3. pool' = Written(p)
    BY <1>3, <2>1 DEF BlockPool
  <2> QED
    BY <1>1, <2>2, <2>3, WrittenRow DEF PoolStays
<1> QED
  BY <1>2, <1>3

\* _release_unknown_start_block
LEMMA ReleasedStays ==
    ASSUME MembersOK, NEW rn, NEW proof \in SUBSET Keys, pool' = ReleasedBlock(rn, proof)
    PROVE  /\ PoolStays
           /\ pool.status = "blocked" /\ pool'.status # "blocked" => UnknownStarts(rn) = {}
<1> DEFINE opens == /\ UnknownStarts(rn) = {} /\ pool.status = "blocked"
                    /\ pool.reason = "unknown_start"
           outcome == IF pool.active = NoKey THEN "exhausted" ELSE "ready"
<1>1. pool \in PoolRows /\ pool.gen \in Nat /\ pool.evidence \in SUBSET Keys
  BY PoolFields DEF MembersOK
<1>2. CASE opens
  <2>1. PICK n \in Nat : n = pool.gen + 1
    BY <1>1
  <2>2. PICK o \in {"exhausted", "ready"} : o = outcome
    OBVIOUS
  <2>3. PICK p : p = [pool EXCEPT !.gen = n, !.reason = "none", !.status = o]
    OBVIOUS
  <2>4. "none" \in Reasons
    BY DEF Reasons
  <2>5. /\ p \in PoolRows /\ p.gen = n /\ p.active = pool.active
        /\ p.draining = pool.draining /\ p.drainGen = pool.drainGen /\ p.status = o
    BY <1>1, <2>3, <2>4 DEF PoolRows
  <2>6. pool' = Written(p)
    BY <1>2, <2>1, <2>2, <2>3 DEF ReleasedBlock
  <2> QED
    BY <1>1, <1>2, <2>1, <2>5, <2>6, WrittenRow DEF PoolStays
<1>3. CASE ~opens
  <2>1. PICK e \in SUBSET Keys : e = IF pool.status = "blocked" THEN pool.evidence \cup proof
                                     ELSE pool.evidence
    BY <1>1
  <2>2. pool' = [pool EXCEPT !.evidence = e]
    BY <1>3, <2>1 DEF ReleasedBlock
  <2>3. /\ pool' \in PoolRows /\ pool'.gen = pool.gen /\ pool'.active = pool.active
        /\ pool'.draining = pool.draining /\ pool'.drainGen = pool.drainGen
        /\ pool'.status = pool.status
    BY <1>1, <2>2 DEF PoolRows
  <2> QED
    BY <1>1, <2>3 DEF PoolStays
<1> QED
  BY <1>2, <1>3

\* How the row of a run may move in a step
RowMoves(r) ==
    /\ \/ run'[r] = run[r]
       \/ /\ run[r].status \in Unresolved /\ run'[r].status \in Unresolved
          /\ run'[r].key = run[r].key /\ run'[r].gen = run[r].gen
       \/ run'[r].status \in Terminal
    /\ remote'[r] = "running" => run'[r].status \in Unresolved
    /\ run'[r].status = "none" => remote'[r] = "none"

\* The invariant of the ledger follows run by run.
LEMMA LedgerFollows ==
    ASSUME LedgerOK, LedgerOK', LedgerInv, Carried, \A r \in Runs : RowMoves(r)
    PROVE  LedgerInv'
<1> SUFFICES ASSUME NEW r \in Runs
             PROVE  RunOK(run[r], remote[r])'
  BY DEF LedgerInv
<1>1. PICK q \in RunRows : q = run[r]
  BY DEF LedgerOK
<1>2. PICK m \in {"none", "running", "ended"} : m = remote[r]
  BY DEF LedgerOK
<1>3. RunOK(q, m)'
  BY <1>1, <1>2 DEF Carried
<1>4. RowMoves(r)
  OBVIOUS
<1>5. run'[r].status \in Terminal => run'[r].status \notin Unresolved
  BY DEF Terminal, Unresolved
<1> QED
  BY <1>1, <1>2, <1>3, <1>4, <1>5 DEF RunOK, RowMoves

\* A run that nothing happens to
LEMMA RowStays ==
    ASSUME LedgerInv, NEW r \in Runs, run'[r] = run[r],
           remote'[r] = remote[r] \/ (remote'[r] = "ended" /\ run[r].status # "none")
    PROVE  RowMoves(r)
  BY DEF LedgerInv, RunOK, RowMoves

\* An update of the status of one run
LEMMA RunStatusRow ==
    ASSUME LedgerOK, NEW r \in Runs, NEW s \in Terminal \cup Unresolved, NEW rn,
           rn = RunStatus(r, s)
    PROVE  /\ rn \in [Runs -> RunRows]
           /\ \A x \in Runs : x # r => rn[x] = run[x]
           /\ rn[r].status = s
           /\ s \notin Terminal => /\ rn[r].key = run[r].key /\ rn[r].gen = run[r].gen
                                   /\ rn[r].registered = run[r].registered
           /\ s \in Terminal => ~rn[r].registered
<1>1. run \in [Runs -> RunRows] /\ run[r] \in RunRows
  BY DEF LedgerOK
<1>2. NoRun \in RunRows
  BY DEF NoRun, RunRows, Terminal, Unresolved
<1>3. PICK b \in RunRows : b = IF s \in Terminal THEN NoRun ELSE run[r]
  BY <1>1, <1>2
<1>4. PICK q : q = [b EXCEPT !.status = s]
  OBVIOUS
<1>5. /\ q \in RunRows /\ q.status = s /\ q.key = b.key /\ q.gen = b.gen
      /\ q.registered = b.registered
  BY <1>4 DEF RunRows
<1>6. rn = [run EXCEPT ![r] = q]
  BY <1>3, <1>4 DEF RunStatus
<1>7. rn \in [Runs -> RunRows] /\ rn[r] = q /\ \A x \in Runs : x # r => rn[x] = run[x]
  BY <1>1, <1>5, <1>6
<1>8. s \in Terminal => b = NoRun /\ b.registered = FALSE
  BY <1>3 DEF NoRun
<1>9. s \notin Terminal => b = run[r]
  BY <1>3
<1> QED
  BY <1>5, <1>7, <1>8, <1>9

\* The run r ends in rn or stays as it is; nothing happens to the others.
Settles(rn, r) ==
    /\ rn \in [Runs -> RunRows]
    /\ \A x \in Runs : x # r => rn[x] = run[x]
    /\ rn[r] = run[r] \/ (rn[r].status \in Terminal /\ ~rn[r].registered)

\* release_reservation, and mark_run_terminal of a run that may have ended
LEMMA SettlesRun ==
    ASSUME LedgerOK, NEW r \in Runs
    PROVE  /\ Settles(Released(r), r)
           /\ run[r].status = "reserved" => Released(r)[r].status \in Terminal
           /\ Settles(Moved(r, "ended"), r)
           /\ Moved(r, "ended")[r].status \in Terminal
<1>1. run \in [Runs -> RunRows]
  BY DEF LedgerOK
<1>2. "start_rejected" \in Terminal /\ "ended" \in Terminal
  BY DEF Terminal
<1>3. PICK rn : rn = RunStatus(r, "start_rejected")
  OBVIOUS
<1>4. Settles(rn, r) /\ rn[r].status \in Terminal
  BY <1>2, <1>3, RunStatusRow DEF Settles
<1>5. PICK en : en = RunStatus(r, "ended")
  OBVIOUS
<1>6. Settles(en, r) /\ en[r].status \in Terminal
  BY <1>2, <1>5, RunStatusRow DEF Settles
<1>7. Settles(run, r)
  BY <1>1 DEF Settles
<1>8. Released(r) = (IF run[r].status = "reserved" THEN rn ELSE run)
  BY <1>3 DEF Released
<1>9. Moved(r, "ended") = (IF run[r].status \in Terminal THEN run ELSE en)
  BY <1>5 DEF Moved
<1> QED
  BY <1>4, <1>6, <1>7, <1>8, <1>9

\* The run r stays in doubt or alive, on its key; nothing happens to the others.
Lingers(rn, r) ==
    /\ rn \in [Runs -> RunRows]
    /\ \A x \in Runs : x # r => rn[x] = run[x]
    /\ \/ rn[r] = run[r]
       \/ /\ run[r].status \in Unresolved /\ rn[r].status \in Unresolved
          /\ rn[r].key = run[r].key /\ rn[r].gen = run[r].gen
          /\ rn[r].registered = run[r].registered

\* A run on the ledger is unresolved unless it has ended.
LEMMA OnLedger ==
    ASSUME LedgerOK, NEW r \in Runs, run[r].status # "none"
    PROVE  run[r].status \in Terminal \/ run[r].status \in Unresolved
  BY DEF LedgerOK, RunRows

\* mark_run_aborting, block_run_reconciliation and report_start_outcome_unknown
LEMMA LingersRun ==
    ASSUME LedgerOK, NEW r \in Runs, run[r].status # "none",
           NEW s \in {"aborting", "start_outcome_unknown"}
    PROVE  /\ Lingers(Moved(r, s), r)
           /\ run[r].status \notin Terminal => Lingers(RunStatus(r, s), r)
<1>1. run \in [Runs -> RunRows]
  BY DEF LedgerOK
<1>2. s \in Unresolved /\ s \notin Terminal
  BY DEF Unresolved, Terminal
<1>3. PICK rn : rn = RunStatus(r, s)
  OBVIOUS
<1>4. run[r].status \notin Terminal => Lingers(rn, r)
  BY <1>2, <1>3, RunStatusRow, OnLedger DEF Lingers
<1>5. Lingers(run, r)
  BY <1>1 DEF Lingers
<1>6. Moved(r, s) = (IF run[r].status \in Terminal THEN run ELSE rn)
  BY <1>3 DEF Moved
<1> QED
  BY <1>3, <1>4, <1>5, <1>6

\* A step that settles r: whatever was started for it has ended, or nothing was.
LEMMA SettlesMoves ==
    ASSUME LedgerOK, LedgerInv, NEW r \in Runs, run[r].status # "none", Settles(run', r),
           remote' \in [Runs -> {"none", "running", "ended"}],
           \A x \in Runs : x # r => remote'[x] = remote[x],
           run'[r].status \in Terminal => remote'[r] # "running",
           remote'[r] \in {remote[r], "ended"}
    PROVE  LedgerOK' /\ \A x \in Runs : RowMoves(x)
<1>1. LedgerOK'
  BY DEF LedgerOK, Settles
<1>2. ASSUME NEW x \in Runs, x # r
      PROVE  RowMoves(x)
  BY <1>2, RowStays DEF Settles
<1>3. RowMoves(r)
  <2>1. CASE run'[r] = run[r]
    BY <2>1, RowStays
  <2>2. CASE run'[r].status \in Terminal
    BY <2>2 DEF RowMoves, Terminal
  <2> QED
    BY <2>1, <2>2 DEF Settles
<1> QED
  BY <1>1, <1>2, <1>3

\* A step that leaves r in doubt or alive
LEMMA LingersMoves ==
    ASSUME LedgerOK, LedgerInv, NEW r \in Runs, run[r].status # "none", Lingers(run', r),
           remote' = remote
    PROVE  LedgerOK' /\ \A x \in Runs : RowMoves(x)
<1>1. LedgerOK'
  BY DEF LedgerOK, Lingers
<1>2. ASSUME NEW x \in Runs, x # r
      PROVE  RowMoves(x)
  BY <1>2, RowStays DEF Lingers
<1>3. RowMoves(r)
  <2>1. CASE run'[r] = run[r]
    BY <2>1, RowStays
  <2>2. CASE run'[r] # run[r]
    BY <2>2 DEF RowMoves, Lingers, Unresolved
  <2> QED
    BY <2>1, <2>2
<1> QED
  BY <1>1, <1>2, <1>3

-----------------------------------------------------------------------------
\* Calls and the runs they own

CallRows == [pc : Between \cup Attempt, run : Runs \cup {NoReservation},
             key : Keys \cup {NoKey}, gen : Nat, tried : SUBSET Keys]

InPost(r) == \E d \in Calls : call[d].run = r /\ call[d].pc = "post"

\* What others may do to the run a call owns
Undisturbed(r) ==
    /\ run[r].status # "none" => run'[r].status # "none"
    /\ ~run[r].registered => /\ ~run'[r].registered
                             /\ remote[r] = "none" => remote'[r] = "none"
    /\ /\ InPost(r) /\ ~run[r].registered
       /\ run[r].status \in {"reserved", "start_outcome_unknown"}
       => run'[r].status \in {"reserved", "start_outcome_unknown"}

\* A call that makes no step still owns its run.
LEMMA OwnsStill ==
    ASSUME ProcessesOK, NEW d \in Calls, OwnsRun(call[d]), NEW x, x = call[d],
           x.run \in Runs => Undisturbed(x.run)
    PROVE  OwnsRun(x)'
<1>1. x.pc = "post" => x.pc \in Unstarted /\ InPost(x.run)
  BY DEF Unstarted, InPost
<1> QED
  BY <1>1 DEF OwnsRun, Undisturbed

\* A step of somebody else
LEMMA OwnersStay ==
    ASSUME ProcessesOK, OwnerInv, call' = call, \A r \in Runs : Undisturbed(r)
    PROVE  OwnerInv'
<1>1. ASSUME NEW d \in Calls
      PROVE  OwnsRun(call[d])'
  <2>1. PICK x : x = call[d]
    OBVIOUS
  <2>2. OwnsRun(x)'
    BY <2>1, OwnsStill DEF OwnerInv
  <2>3. call'[d] = x
    BY <2>1
  <2> QED
    BY <2>2, <2>3 DEF OwnsRun
<1> QED
  BY <1>1 DEF OwnerInv

\* A step of the call c, which ends with the row x
LEMMA OwnersFollow ==
    ASSUME ProcessesOK, OwnerInv, NEW c \in Calls, NEW x \in CallRows,
           call' = [call EXCEPT ![c] = x],
           x.run \in Runs => \/ x.run = call[c].run
                             \/ \A d \in Calls : call[d].run # x.run,
           OwnsRun(x)',
           \A r \in Runs : r # call[c].run => Undisturbed(r) \/ \A d \in Calls : call[d].run # r
    PROVE  OwnerInv'
<1>1. call'[c] = x /\ \A d \in Calls : d # c => call'[d] = call[d]
  BY DEF ProcessesOK
<1>2. ASSUME NEW d \in Calls
      PROVE  OwnsRun(call[d])'
  <2>1. CASE d = c
    BY <1>1, <2>1 DEF OwnsRun
  <2>2. CASE d # c
    <3>1. PICK y : y = call[d]
      OBVIOUS
    <3>2. y.run \in Runs => Undisturbed(y.run)
      BY <2>2, <3>1 DEF OwnerInv
    <3>3. OwnsRun(y)'
      BY <3>1, <3>2, OwnsStill DEF OwnerInv
    <3>4. call'[d] = y
      BY <1>1, <2>2, <3>1
    <3> QED
      BY <3>3, <3>4 DEF OwnsRun
  <2> QED
    BY <2>1, <2>2
<1>3. ASSUME NEW d \in Calls, NEW e \in Calls, call'[d].run = call'[e].run,
             call'[d].run \in Runs
      PROVE  d = e
  BY <1>1, <1>3 DEF OwnerInv
<1> QED
  BY <1>2, <1>3 DEF OwnerInv

\* Where Go leads
LEMMA GoRow ==
    ASSUME ProcessesOK, NEW c \in Calls, NEW pc \in Between \cup Attempt, Go(c, pc)
    PROVE  /\ ProcessesOK' /\ rec' = rec /\ admin' = admin
           /\ \E x \in CallRows :
                 /\ call' = [call EXCEPT ![c] = x]
                 /\ x.pc = pc
                 /\ pc \in {"done", "acquire"} => x.run = NoReservation
                 /\ pc \notin {"done", "acquire"} => /\ x.run = call[c].run
                                                     /\ x.key = call[c].key
<1>1. call \in [Calls -> CallRows] /\ call[c] \in CallRows
  BY DEF ProcessesOK, CallRows
<1>2. PICK x : x = CASE pc = "done" -> Caller("done", {})
                     [] pc = "acquire" -> Caller("acquire", call[c].tried)
                     [] OTHER -> [call[c] EXCEPT !.pc = pc]
  OBVIOUS
<1>3. call' = [call EXCEPT ![c] = x] /\ rec' = rec /\ admin' = admin
  BY <1>2 DEF Go
<1>4. /\ x \in CallRows /\ x.pc = pc
      /\ pc \in {"done", "acquire"} => x.run = NoReservation
      /\ pc \notin {"done", "acquire"} => x.run = call[c].run /\ x.key = call[c].key
  <2>1. CASE pc = "done"
    <3>1. x = Caller("done", {})
      BY <1>2, <2>1
    <3> QED
      BY <2>1, <3>1 DEF Caller, CallRows, Between
  <2>2. CASE pc = "acquire"
    <3>1. x = Caller("acquire", call[c].tried) /\ call[c].tried \in SUBSET Keys
      BY <1>1, <1>2, <2>2 DEF CallRows
    <3> QED
      BY <2>2, <3>1 DEF Caller, CallRows, Between
  <2>3. CASE pc \notin {"done", "acquire"}
    <3>1. x = [call[c] EXCEPT !.pc = pc]
      BY <1>2, <2>3
    <3> QED
      BY <1>1, <2>3, <3>1 DEF CallRows
  <2> QED
    BY <2>1, <2>2, <2>3
<1>5. call' \in [Calls -> CallRows]
  BY <1>1, <1>3, <1>4
<1> QED
  BY <1>3, <1>4, <1>5 DEF ProcessesOK, CallRows

\* A step of a call that changes no run but its own
LEMMA GoOwns ==
    ASSUME ProcessesOK, OwnerInv, NEW c \in Calls,
           NEW pc \in {"done", "acquire"} \cup Attempt, Go(c, pc),
           \A r \in Runs : r # Own(c) => run'[r] = run[r] /\ remote'[r] = remote[r],
           pc \in Attempt => call[c].pc \in Attempt /\ run'[Own(c)].status # "none",
           pc \in Unstarted => remote'[Own(c)] = "none" /\ ~run'[Own(c)].registered,
           pc = "post" => run'[Own(c)].status \in {"reserved", "start_outcome_unknown"}
    PROVE  ProcessesOK' /\ OwnerInv'
<1>1. pc \in Between \cup Attempt
  BY DEF Between
<1>2. PICK x \in CallRows :
         /\ call' = [call EXCEPT ![c] = x]
         /\ x.pc = pc
         /\ pc \in {"done", "acquire"} => x.run = NoReservation
         /\ pc \notin {"done", "acquire"} => x.run = call[c].run /\ x.key = call[c].key
  BY <1>1, GoRow
<1>3. {"done", "acquire"} \cap (Attempt \cup Unstarted) = {}
  BY DEF Attempt, Unstarted
<1>4. OwnsRun(x)'
  <2>1. OwnsRun(call[c])
    BY DEF OwnerInv
  <2> QED
    BY <1>2, <1>3, <2>1, ReservationAssumption DEF OwnsRun, Own
<1>5. \A r \in Runs : r # call[c].run => Undisturbed(r)
  BY DEF Undisturbed, Own
<1>6. x.run \in Runs => x.run = call[c].run
  BY <1>2, ReservationAssumption
<1> QED
  BY <1>1, <1>2, <1>4, <1>5, <1>6, GoRow, OwnersFollow

\* What a step has to show
LEMMA Preserved ==
    ASSUME KeyPoolInv, MembersOK', Carried, LedgerOK', \A r \in Runs : RowMoves(r),
           ProcessesOK', OwnerInv'
    PROVE  KeyPoolInv'
  BY LedgerFollows DEF KeyPoolInv, KeyPoolTypeOK

\* A step that leaves the ledger alone
LEMMA LedgerStays ==
    ASSUME KeyPoolInv, run' = run, remote' = remote
    PROVE  LedgerOK' /\ \A r \in Runs : RowMoves(r)
  BY RowStays DEF KeyPoolInv, KeyPoolTypeOK, LedgerOK

\* A step that leaves the whole pool alone
LEMMA PoolUntouched ==
    ASSUME KeyPoolInv, UNCHANGED poolVars
    PROVE  MembersOK' /\ Carried /\ LedgerOK' /\ \A r \in Runs : RowMoves(r)
<1>1. PoolStays
  BY PoolFields DEF PoolStays, KeyPoolInv, KeyPoolTypeOK, MembersOK, poolVars
<1> QED
  BY <1>1, MembersStay, LedgerStays DEF KeyPoolInv, KeyPoolTypeOK, poolVars

\* The call goes on, or ends, without any effect on the pool.
LEMMA OnlyGoes ==
    ASSUME KeyPoolInv, UNCHANGED poolVars, NEW c \in Calls,
           NEW pc \in {"done", "acquire"} \cup Attempt, Go(c, pc),
           pc \in Attempt => call[c].pc \in Attempt,
           pc \in Unstarted => call[c].pc \in Unstarted,
           pc = "post" => run[Own(c)].status = "reserved"
    PROVE  KeyPoolInv'
<1>1. ProcessesOK' /\ OwnerInv'
  <2>1. run' = run /\ remote' = remote
    BY DEF poolVars
  <2>2. OwnsRun(call[c])
    BY DEF KeyPoolInv, OwnerInv
  <2>3. call[c].pc \in Unstarted => call[c].pc \in Attempt
    BY DEF Unstarted, Attempt
  <2> QED
    BY <2>1, <2>2, <2>3, GoOwns DEF KeyPoolInv, KeyPoolTypeOK, OwnsRun, Own
<1> QED
  BY <1>1, PoolUntouched, Preserved

\* The call settles its own run and goes on.
LEMMA SettlesAndGoes ==
    ASSUME KeyPoolInv, NEW c \in Calls, call[c].pc \in Attempt,
           NEW pc \in {"done", "acquire"} \cup Attempt, Go(c, pc),
           pc \notin Unstarted, MembersOK', Carried,
           Settles(run', Own(c)),
           remote' \in [Runs -> {"none", "running", "ended"}],
           \A x \in Runs : x # Own(c) => remote'[x] = remote[x],
           run'[Own(c)].status \in Terminal => remote'[Own(c)] # "running",
           remote'[Own(c)] \in {remote[Own(c)], "ended"}
    PROVE  KeyPoolInv'
<1>1. Own(c) \in Runs /\ run[Own(c)].status # "none"
  BY DEF KeyPoolInv, OwnerInv, OwnsRun, Own
<1>2. PICK r \in Runs : r = Own(c)
  BY <1>1
<1>3. LedgerOK' /\ \A x \in Runs : RowMoves(x)
  BY <1>1, <1>2, SettlesMoves DEF KeyPoolInv, KeyPoolTypeOK
<1>4. run'[r].status # "none"
  BY <1>1, <1>2 DEF Settles, Terminal
<1>5. pc # "post"
  BY DEF Unstarted
<1>6. ProcessesOK' /\ OwnerInv'
  BY <1>2, <1>4, <1>5, GoOwns DEF KeyPoolInv, KeyPoolTypeOK, Settles
<1> QED
  BY <1>3, <1>6, Preserved

\* The call leaves its own run in doubt, or alive, and goes on.
LEMMA LingersAndGoes ==
    ASSUME KeyPoolInv, NEW c \in Calls, call[c].pc \in Attempt,
           NEW pc \in {"done", "acquire"} \cup Attempt, Go(c, pc),
           pc \notin Unstarted, MembersOK', Carried,
           Lingers(run', Own(c)), remote' = remote
    PROVE  KeyPoolInv'
<1>1. Own(c) \in Runs /\ run[Own(c)].status # "none"
  BY DEF KeyPoolInv, OwnerInv, OwnsRun, Own
<1>2. PICK r \in Runs : r = Own(c)
  BY <1>1
<1>3. LedgerOK' /\ \A x \in Runs : RowMoves(x)
  BY <1>1, <1>2, LingersMoves DEF KeyPoolInv, KeyPoolTypeOK
<1>4. run'[r].status # "none"
  BY <1>1, <1>2 DEF Lingers, Unresolved
<1>5. pc # "post"
  BY DEF Unstarted
<1>6. ProcessesOK' /\ OwnerInv'
  BY <1>2, <1>4, <1>5, GoOwns DEF KeyPoolInv, KeyPoolTypeOK, Lingers
<1> QED
  BY <1>3, <1>6, Preserved

-----------------------------------------------------------------------------
\* The steps of a call

\* A key a call is given
LEMMA LendsMember ==
    ASSUME MembersOK, NEW c \in Calls, NEW k \in Lends(c)
    PROVE  /\ k \in Members /\ k \in Keys
           /\ role[k] = "acquisition" => k = pool.active /\ pool.status = "ready"
  BY DEF Lends, ValidationKeys, Members, MembersOK, PoolRows

\* acquire_credential
LEMMA AcquireKeeps ==
    ASSUME KeyPoolInv, NEW c \in Calls, Acquire(c)
    PROVE  KeyPoolInv'
<1>1. PICK k \in Lends(c), r \in Runs, pc \in {"quota", "assert"} :
         /\ At(c, "acquire")
         /\ Reserve(r, k, Purpose(c))
         /\ call' = [call EXCEPT ![c] =
                       [pc |-> pc, run |-> r, key |-> k, gen |-> pool.gen,
                        tried |-> call[c].tried \cup {k}]]
         /\ UNCHANGED <<rec, admin>>
  BY DEF Acquire
<1>2. /\ MembersOK /\ LedgerOK /\ ProcessesOK /\ LedgerInv /\ OwnerInv
  BY DEF KeyPoolInv, KeyPoolTypeOK
<1>3. /\ k \in Members /\ k \in Keys
      /\ role[k] = "acquisition" => k = pool.active /\ pool.status = "ready"
  BY <1>2, LendsMember
<1>4. pool.gen \in Nat /\ pool \in PoolRows
  BY <1>2, PoolFields DEF MembersOK
<1>5. UNCHANGED <<status, role, order, pool, remote>> /\ run[r].status = "none"
  BY <1>1 DEF Reserve
<1>6. PICK q : q = [status |-> "reserved", key |-> k, gen |-> pool.gen,
                    purpose |-> Purpose(c), registered |-> FALSE, held |-> TRUE]
  OBVIOUS
<1>7. /\ q.status = "reserved" /\ q.key = k /\ q.gen = pool.gen /\ ~q.registered
      /\ q \in RunRows
  BY <1>3, <1>4, <1>6 DEF RunRows, Unresolved, Purpose
<1>8. run' = [run EXCEPT ![r] = q]
  BY <1>1, <1>6 DEF Reserve
<1>9. LedgerOK' /\ run'[r] = q /\ \A x \in Runs : x # r => run'[x] = run[x]
  BY <1>2, <1>5, <1>7, <1>8 DEF LedgerOK
<1>10. MembersOK' /\ Members' = Members
  BY <1>2, <1>5 DEF MembersOK, Members, ValidationKeys
<1>11. remote[r] = "none"
  BY <1>2, <1>5 DEF LedgerInv, RunOK
<1>12. LedgerInv'
  <2> SUFFICES ASSUME NEW x \in Runs
               PROVE  RunOK(run[x], remote[x])'
    BY DEF LedgerInv
  <2>1. CASE x = r
    BY <1>3, <1>4, <1>5, <1>7, <1>9, <1>10, <1>11, <2>1 DEF RunOK
  <2>2. CASE x # r
    BY <1>2, <1>5, <1>9, <1>10, <2>2 DEF LedgerInv, RunOK
  <2> QED
    BY <2>1, <2>2
<1>13. PICK x : x = [pc |-> pc, run |-> r, key |-> k, gen |-> pool.gen,
                     tried |-> call[c].tried \cup {k}]
  OBVIOUS
<1>14. call[c] \in CallRows /\ call \in [Calls -> CallRows] /\ call[c].tried \in SUBSET Keys
  BY <1>2 DEF ProcessesOK, CallRows
<1>15. /\ x \in CallRows /\ x.pc = pc /\ x.run = r /\ x.key = k
       /\ call' = [call EXCEPT ![c] = x]
  BY <1>1, <1>3, <1>4, <1>13, <1>14 DEF CallRows, Attempt
<1>16. ProcessesOK'
  <2>1. call' \in [Calls -> CallRows]
    BY <1>14, <1>15
  <2> QED
    BY <1>1, <1>2, <2>1 DEF ProcessesOK, CallRows
<1>17. OwnsRun(x)'
  BY <1>3, <1>5, <1>7, <1>9, <1>11, <1>15 DEF OwnsRun
<1>18. \A d \in Calls : call[d].run # r
  BY <1>2, <1>5 DEF OwnerInv, OwnsRun
<1>19. \A y \in Runs : y # call[c].run =>
          Undisturbed(y) \/ \A d \in Calls : call[d].run # y
  BY <1>5, <1>9, <1>18 DEF Undisturbed
<1>20. OwnerInv'
  BY <1>2, <1>15, <1>17, <1>18, <1>19, OwnersFollow
<1> QED
  BY <1>9, <1>10, <1>12, <1>16, <1>20 DEF KeyPoolInv, KeyPoolTypeOK

\* acquire_credential that finds the key spent
LEMMA AcquireSpentKeeps ==
    ASSUME KeyPoolInv, NEW c \in Calls, AcquireSpent(c)
    PROVE  KeyPoolInv'
<1>1. PICK k \in Lends(c) :
         /\ At(c, "acquire")
         /\ BeginDrain(k, "depleted", run)
         /\ call' = [call EXCEPT ![c] = [call[c] EXCEPT !.pc = "failover",
                                                        !.tried = @ \cup {k}]]
         /\ UNCHANGED <<rec, admin>>
  BY DEF AcquireSpent
<1>2. /\ MembersOK /\ LedgerOK /\ ProcessesOK /\ LedgerInv /\ OwnerInv
  BY DEF KeyPoolInv, KeyPoolTypeOK
<1>3. k \in Keys
  BY <1>2, LendsMember
<1>4. MembersOK' /\ Carried
  BY <1>1, <1>2, <1>3, BeginDrainKeeps
<1>5. run' = run /\ remote' = remote
  BY <1>1 DEF BeginDrain
<1>6. call[c] \in CallRows /\ call \in [Calls -> CallRows] /\ call[c].tried \in SUBSET Keys
  BY <1>2 DEF ProcessesOK, CallRows
<1>7. PICK tried \in SUBSET Keys : tried = call[c].tried \cup {k}
  BY <1>3, <1>6
<1>8. PICK x : x = [call[c] EXCEPT !.pc = "failover", !.tried = tried]
  OBVIOUS
<1>9. /\ x \in CallRows /\ x.pc = "failover" /\ x.run = call[c].run
      /\ call' = [call EXCEPT ![c] = x]
  <2>1. x \in CallRows /\ x.pc = "failover" /\ x.run = call[c].run
    BY <1>6, <1>8 DEF CallRows, Between
  <2>2. call' = [call EXCEPT ![c] = x]
    BY <1>1, <1>7, <1>8
  <2> QED
    BY <2>1, <2>2
<1>10. ProcessesOK'
  <2>1. call' \in [Calls -> CallRows]
    BY <1>6, <1>9
  <2> QED
    BY <1>1, <1>2, <2>1 DEF ProcessesOK, CallRows
<1>11. OwnsRun(x)'
  BY <1>2, <1>5, <1>9 DEF OwnerInv, OwnsRun, Attempt, Unstarted
<1>12. \A r \in Runs : Undisturbed(r)
  BY <1>5 DEF Undisturbed
<1>13. OwnerInv'
  BY <1>2, <1>9, <1>11, <1>12, OwnersFollow
<1> QED
  BY <1>4, <1>5, <1>10, <1>13, LedgerStays, Preserved

\* complete_drain_and_failover
LEMMA CallFailOverKeeps ==
    ASSUME KeyPoolInv, NEW c \in Calls, CallFailOver(c)
    PROVE  KeyPoolInv'
<1>1. PICK pc \in {"done", "acquire"} : Go(c, pc) /\ (FailOver \/ UNCHANGED poolVars)
  BY DEF CallFailOver
<1>2. {"done", "acquire"} \cap (Attempt \cup Unstarted) = {} /\ pc # "post"
  BY DEF Attempt, Unstarted
<1>3. CASE UNCHANGED poolVars
  BY <1>1, <1>2, <1>3, OnlyGoes
<1>4. CASE FailOver
  <2>1. MembersOK' /\ Carried
    BY <1>4, FailOverKeeps DEF KeyPoolInv, KeyPoolTypeOK
  <2>2. run' = run /\ remote' = remote
    BY <1>4 DEF FailOver
  <2>3. ProcessesOK' /\ OwnerInv'
    BY <1>1, <1>2, <2>2, GoOwns DEF KeyPoolInv, KeyPoolTypeOK
  <2> QED
    BY <2>1, <2>2, <2>3, LedgerStays, Preserved
<1> QED
  BY <1>1, <1>3, <1>4

\* Before the POST nothing was started for the reservation of a call.
LEMMA NothingStarted ==
    ASSUME KeyPoolInv, NEW c \in Calls, call[c].pc \in Unstarted
    PROVE  Own(c) \in Runs /\ remote[Own(c)] = "none" /\ ~run[Own(c)].registered
<1>1. OwnsRun(call[c]) /\ call[c].pc \in Attempt
  BY DEF KeyPoolInv, OwnerInv, Unstarted, Attempt
<1> QED
  BY <1>1 DEF OwnsRun, Own

\* A reservation is released and the call goes on.
LEMMA ReleasesAndGoes ==
    ASSUME KeyPoolInv, NEW c \in Calls, call[c].pc \in Unstarted,
           NEW pc \in {"done", "acquire"} \cup Attempt, Go(c, pc), pc \notin Unstarted,
           MembersOK', Carried, run' = Released(Own(c)), remote' = remote
    PROVE  KeyPoolInv'
<1>1. Own(c) \in Runs /\ remote[Own(c)] = "none"
  BY NothingStarted
<1>2. call[c].pc \in Attempt
  BY DEF Unstarted, Attempt
<1>3. Settles(run', Own(c))
  BY <1>1, SettlesRun DEF KeyPoolInv, KeyPoolTypeOK
<1>4. remote' \in [Runs -> {"none", "running", "ended"}]
  BY DEF KeyPoolInv, KeyPoolTypeOK, LedgerOK
<1> QED
  BY <1>1, <1>2, <1>3, <1>4, SettlesAndGoes

\* RunOnly leaves the members and the pool's row alone.
LEMMA RunOnlyStays ==
    ASSUME KeyPoolInv, NEW rn, RunOnly(rn)
    PROVE  MembersOK' /\ Carried /\ run' = rn
<1>1. PoolStays
  BY PoolFields DEF PoolStays, KeyPoolInv, KeyPoolTypeOK, MembersOK, RunOnly
<1> QED
  BY <1>1, MembersStay DEF KeyPoolInv, KeyPoolTypeOK, RunOnly

\* _refresh_quota_snapshot
LEMMA QuotaStepKeeps ==
    ASSUME KeyPoolInv, NEW c \in Calls, Quota(c)
    PROVE  KeyPoolInv'
<1>1. call[c].pc = "quota" /\ call[c].pc \in Unstarted /\ call[c].pc \in Attempt
  BY DEF Quota, At, Unstarted, Attempt
<1>2. ASSUME NEW pc \in {"assert", "depleted", "invalid"}, Go(c, pc), UNCHANGED poolVars
      PROVE  KeyPoolInv'
  <2>1. pc \in Attempt /\ pc # "post"
    BY DEF Attempt
  <2> QED
    BY <1>1, <1>2, <2>1, OnlyGoes
<1>3. ASSUME RunOnly(Released(Own(c))), remote' = remote, Go(c, "done")
      PROVE  KeyPoolInv'
  <2>1. "done" \notin Unstarted
    BY DEF Unstarted
  <2> QED
    BY <1>1, <1>3, <2>1, RunOnlyStays, ReleasesAndGoes
<1> QED
  BY <1>2, <1>3 DEF Quota

\* assert_lease_startable
LEMMA AssertStartableKeeps ==
    ASSUME KeyPoolInv, NEW c \in Calls, AssertStartable(c)
    PROVE  KeyPoolInv'
<1>1. call[c].pc = "assert" /\ call[c].pc \in Unstarted /\ call[c].pc \in Attempt
  BY DEF AssertStartable, At, Unstarted, Attempt
<1>2. ASSUME run[Own(c)].status = "reserved", Go(c, "post"), UNCHANGED poolVars
      PROVE  KeyPoolInv'
  <2>1. "post" \in Attempt
    BY DEF Attempt
  <2> QED
    BY <1>1, <1>2, <2>1, OnlyGoes
<1>3. ASSUME NEW pc \in {"done", "retry"}, RunOnly(Released(Own(c))), remote' = remote,
             Go(c, pc)
      PROVE  KeyPoolInv'
  <2>1. pc \notin Unstarted /\ pc \in {"done", "acquire"} \cup Attempt
    BY DEF Unstarted, Attempt
  <2> QED
    BY <1>1, <1>3, <2>1, RunOnlyStays, ReleasesAndGoes
<1> QED
  BY <1>2, <1>3 DEF AssertStartable

\* The POST, which may start a run whether or not its answer arrives, and the
\* death of the call, which may happen during the POST
LEMMA PostKeeps ==
    ASSUME KeyPoolInv, NEW c \in Calls, UNCHANGED <<status, role, order, pool, run>>,
           NEW pc \in {"done", "register", "unknown", "reject", "depleted", "invalid"},
           Go(c, pc),
           \/ remote' = remote
           \/ /\ call[c].pc = "post" /\ pc \in {"done", "register", "unknown"}
              /\ remote' = [remote EXCEPT ![Own(c)] = "running"],
           pc # "done" => call[c].pc = "post"
    PROVE  KeyPoolInv'
<1>1. CASE remote' = remote
  <2>1. UNCHANGED poolVars
    BY <1>1 DEF poolVars
  <2>2. pc \in {"done", "acquire"} \cup Attempt /\ "post" \in Attempt /\ "post" \in Unstarted
    BY DEF Attempt, Unstarted
  <2>3. "done" \notin Attempt /\ "done" \notin Unstarted
    BY DEF Attempt, Unstarted
  <2> QED
    BY <2>1, <2>2, <2>3, OnlyGoes
<1>2. CASE remote' # remote
  <2>1. /\ call[c].pc = "post" /\ pc \in {"done", "register", "unknown"}
        /\ remote' = [remote EXCEPT ![Own(c)] = "running"]
    BY <1>2
  <2>2. "post" \in Unstarted /\ "post" \in Attempt /\ pc \in {"done", "acquire"} \cup Attempt
        /\ pc \notin Unstarted
    BY <2>1 DEF Unstarted, Attempt
  <2>3. Own(c) \in Runs /\ run[Own(c)].status \in {"reserved", "start_outcome_unknown"}
    BY <2>1, <2>2, NothingStarted DEF KeyPoolInv, OwnerInv, OwnsRun, Own
  <2>4. /\ remote' \in [Runs -> {"none", "running", "ended"}]
        /\ remote'[Own(c)] = "running"
        /\ \A x \in Runs : x # Own(c) => remote'[x] = remote[x]
    BY <2>1, <2>3 DEF KeyPoolInv, KeyPoolTypeOK, LedgerOK
  <2>5. LedgerOK'
    BY <2>4 DEF KeyPoolInv, KeyPoolTypeOK, LedgerOK
  <2>6. ASSUME NEW x \in Runs
        PROVE  RowMoves(x)
    <3>1. CASE x = Own(c)
      BY <2>3, <2>4, <3>1 DEF RowMoves, Unresolved
    <3>2. CASE x # Own(c)
      BY <2>4, <3>2, RowStays DEF KeyPoolInv
    <3> QED
      BY <3>1, <3>2
  <2>7. PoolStays
    BY PoolFields DEF PoolStays, KeyPoolInv, KeyPoolTypeOK, MembersOK
  <2>8. MembersOK' /\ Carried
    BY <2>7, MembersStay DEF KeyPoolInv, KeyPoolTypeOK
  <2>9. ProcessesOK' /\ OwnerInv'
    BY <2>1, <2>2, <2>3, <2>4, GoOwns DEF KeyPoolInv, KeyPoolTypeOK
  <2> QED
    BY <2>5, <2>6, <2>8, <2>9, Preserved
<1> QED
  BY <1>1, <1>2

\* report_start_outcome_unknown and block_run_reconciliation
LEMMA DoubtStays ==
    ASSUME KeyPoolInv, NEW r \in Runs, run[r].status # "none", NEW k,
           ReportStartOutcomeUnknown(r) \/ BlockRunReconciliation(r, k)
    PROVE  MembersOK' /\ Carried /\ Lingers(run', r) /\ remote' = remote
<1>1. "unknown_start" \in Reasons /\ "reconcile_required" \in Reasons
  BY DEF Reasons
<1>2. run \in [Runs -> RunRows] /\ pool \in PoolRows
  BY DEF KeyPoolInv, KeyPoolTypeOK, LedgerOK, MembersOK
<1>3. Lingers(run, r)
  BY <1>2 DEF Lingers
<1>4. CASE ReportStartOutcomeUnknown(r)
  <2>1. UNCHANGED <<status, role, order, remote>>
    BY <1>4 DEF ReportStartOutcomeUnknown, poolVars
  <2>2. pool' = pool \/ pool' = BlockPool("unknown_start")
    BY <1>4 DEF ReportStartOutcomeUnknown, poolVars
  <2>3. Lingers(run', r)
    <3>1. CASE run[r].status \in Terminal
      BY <1>3, <1>4, <3>1 DEF ReportStartOutcomeUnknown, poolVars, Lingers
    <3>2. CASE run[r].status \notin Terminal
      BY <1>4, <3>2, LingersRun DEF ReportStartOutcomeUnknown, KeyPoolInv, KeyPoolTypeOK
    <3> QED
      BY <3>1, <3>2
  <2> QED
    BY <1>1, <2>1, <2>2, <2>3, BlockedStays, MembersStay DEF KeyPoolInv, KeyPoolTypeOK
<1>5. CASE BlockRunReconciliation(r, k)
  <2>1. UNCHANGED <<status, role, order, remote>>
    BY <1>5 DEF BlockRunReconciliation
  <2>2. pool' = pool \/ pool' = BlockPool("reconcile_required")
    BY <1>5 DEF BlockRunReconciliation
  <2>3. Lingers(run', r)
    BY <1>5, LingersRun DEF BlockRunReconciliation, KeyPoolInv, KeyPoolTypeOK
  <2> QED
    BY <1>1, <2>1, <2>2, <2>3, BlockedStays, MembersStay DEF KeyPoolInv, KeyPoolTypeOK
<1> QED
  BY <1>4, <1>5

\* A call in an attempt owns a run that is on the ledger.
LEMMA OwnsOne ==
    ASSUME KeyPoolInv, NEW c \in Calls, call[c].pc \in Attempt
    PROVE  Own(c) \in Runs /\ run[Own(c)].status # "none" /\ call[c].key \in Keys
  BY DEF KeyPoolInv, OwnerInv, OwnsRun, Own

\* A call reports its start as unknown and ends.
LEMMA DoubtAndDone ==
    ASSUME KeyPoolInv, NEW c \in Calls, call[c].pc \in Attempt, Go(c, "done"), NEW k,
           ReportStartOutcomeUnknown(Own(c)) \/ BlockRunReconciliation(Own(c), k)
    PROVE  KeyPoolInv'
<1>1. Own(c) \in Runs /\ run[Own(c)].status # "none"
  BY OwnsOne
<1>2. "done" \notin Unstarted
  BY DEF Unstarted
<1> QED
  BY <1>1, <1>2, DoubtStays, LingersAndGoes

\* _handle_credential_failure
LEMMA CredentialFailureKeeps ==
    ASSUME KeyPoolInv, NEW c \in Calls, CredentialFailure(c)
    PROVE  KeyPoolInv'
<1> DEFINE k == call[c].key
           dedicated == k \in Members /\ role[k] = "validation"
<1>1. PICK kind \in {"depleted", "invalid"} :
         /\ At(c, kind)
         /\ \/ Go(c, "done") /\ UNCHANGED poolVars
            \/ /\ dedicated
               /\ run' = Released(Own(c))
               /\ status' = [status EXCEPT ![k] = kind]
               /\ Go(c, "acquire")
               /\ UNCHANGED <<role, order, pool, remote>>
            \/ /\ BeginDrain(k, kind, Released(Own(c)))
               /\ Go(c, IF DrainHolds(k) THEN "stop" ELSE "acquire")
  BY DEF CredentialFailure
<1>2. call[c].pc = kind /\ kind \in Unstarted /\ kind \in Attempt
  BY <1>1 DEF At, Unstarted, Attempt
<1>3. k \in Keys /\ Own(c) \in Runs
  BY <1>2, OwnsOne
<1>4. {"done", "acquire", "stop"} \cap Unstarted = {} /\ "stop" \in Attempt
      /\ {"done", "acquire"} \cap Attempt = {}
  BY DEF Unstarted, Attempt
<1>5. CASE Go(c, "done") /\ UNCHANGED poolVars
  BY <1>4, <1>5, OnlyGoes
<1>6. ASSUME dedicated, run' = Released(Own(c)), status' = [status EXCEPT ![k] = kind],
             Go(c, "acquire"), UNCHANGED <<role, order, pool, remote>>
      PROVE  KeyPoolInv'
  <2>1. status \in [Keys -> Statuses] /\ status[k] # "absent" /\ pool \in PoolRows
    BY <1>6 DEF KeyPoolInv, KeyPoolTypeOK, MembersOK, Members
  <2>2. status' \in [Keys -> Statuses] /\ Members' = Members
    BY <1>6, <2>1 DEF Members, Statuses
  <2>3. ValidationKeys' = ValidationKeys
    BY <1>6, <2>2 DEF ValidationKeys
  <2>4. \A x \in Keys : status'[x] \in {"active", "draining"} => pool.active = x
    BY <1>6, <2>1 DEF KeyPoolInv, KeyPoolTypeOK, MembersOK
  <2>5. MembersOK'
    BY <1>6, <2>2, <2>3, <2>4 DEF KeyPoolInv, KeyPoolTypeOK, MembersOK
  <2>6. \A x \in Keys : BusyRuns(x) # {} => x \in Members' /\ role'[x] = role[x]
    BY <1>6, <2>2, BusyIsMember DEF KeyPoolInv
  <2>7. pool.gen \in Nat
    BY <2>1, PoolFields
  <2>8. Carried
    BY <1>6, <2>6, <2>7, CarriedOver, DrainCovers DEF KeyPoolInv, KeyPoolTypeOK
  <2> QED
    BY <1>2, <1>4, <1>6, <2>5, <2>8, ReleasesAndGoes
<1>7. ASSUME BeginDrain(k, kind, Released(Own(c))),
             NEW pc \in {"stop", "acquire"}, Go(c, pc)
      PROVE  KeyPoolInv'
  <2>1. MembersOK' /\ Carried
    BY <1>3, <1>7, BeginDrainKeeps DEF KeyPoolInv, KeyPoolTypeOK
  <2>2. run' = Released(Own(c)) /\ remote' = remote
    BY <1>7 DEF BeginDrain
  <2> QED
    BY <1>2, <1>4, <1>7, <2>1, <2>2, ReleasesAndGoes
<1> QED
  BY <1>1, <1>5, <1>6, <1>7

\* abort_run
LEMMA AbortMoves ==
    ASSUME KeyPoolInv, NEW r \in Runs, run[r].status # "none", AbortRun(r)
    PROVE  /\ MembersOK' /\ Carried /\ LedgerOK' /\ \A x \in Runs : RowMoves(x)
           /\ \A x \in Runs : x # r => run'[x] = run[x] /\ remote'[x] = remote[x]
           /\ run'[r].status # "none"
<1>1. LedgerOK /\ LedgerInv /\ remote \in [Runs -> {"none", "running", "ended"}]
  BY DEF KeyPoolInv, KeyPoolTypeOK, LedgerOK
<1>2. ASSUME remote' = [remote EXCEPT ![r] = "ended"], RunOnly(Moved(r, "ended"))
      PROVE  /\ MembersOK' /\ Carried /\ LedgerOK' /\ \A x \in Runs : RowMoves(x)
             /\ \A x \in Runs : x # r => run'[x] = run[x] /\ remote'[x] = remote[x]
             /\ run'[r].status # "none"
  <2>1. MembersOK' /\ Carried /\ run' = Moved(r, "ended")
    BY <1>2, RunOnlyStays
  <2>2. Settles(run', r) /\ run'[r].status \in Terminal
    BY <1>1, <2>1, SettlesRun
  <2>3. /\ remote' \in [Runs -> {"none", "running", "ended"}] /\ remote'[r] = "ended"
        /\ \A x \in Runs : x # r => remote'[x] = remote[x]
    BY <1>1, <1>2
  <2>4. LedgerOK' /\ \A x \in Runs : RowMoves(x)
    BY <1>1, <2>2, <2>3, SettlesMoves
  <2> QED
    BY <2>1, <2>2, <2>3, <2>4 DEF Settles, Terminal
<1>3. ASSUME RunOnly(Moved(r, "aborting")), remote' = remote
      PROVE  /\ MembersOK' /\ Carried /\ LedgerOK' /\ \A x \in Runs : RowMoves(x)
             /\ \A x \in Runs : x # r => run'[x] = run[x] /\ remote'[x] = remote[x]
             /\ run'[r].status # "none"
  <2>1. MembersOK' /\ Carried /\ run' = Moved(r, "aborting")
    BY <1>3, RunOnlyStays
  <2>2. Lingers(run', r)
    BY <1>1, <2>1, LingersRun
  <2>3. LedgerOK' /\ \A x \in Runs : RowMoves(x)
    BY <1>1, <1>3, <2>2, LingersMoves
  <2> QED
    BY <1>3, <2>1, <2>2, <2>3 DEF Lingers, Unresolved
<1> QED
  BY <1>2, <1>3 DEF AbortRun

\* A registered run is aborted: no call is before or in the POST for it.
LEMMA AbortUndisturbed ==
    ASSUME KeyPoolInv, NEW r \in Runs, run[r].status # "none", Known(r), AbortRun(r)
    PROVE  \A x \in Runs : Undisturbed(x)
<1>1. run[r].registered
  BY DEF Known
<1> QED
  BY <1>1, AbortMoves DEF Undisturbed

\* The loop of report_acquisition_credential_failure
LEMMA StopRunsKeeps ==
    ASSUME KeyPoolInv, NEW c \in Calls, StopRuns(c)
    PROVE  KeyPoolInv'
<1>1. PICK r \in AcquisitionRuns(run, pool.drainGen) :
         /\ At(c, "stop")
         /\ \/ /\ Known(r)
               /\ AbortRun(r)
               /\ Go(c, IF Confirmed(r) THEN "stop" ELSE "done")
            \/ Go(c, "done") /\ UNCHANGED poolVars
  BY DEF StopRuns
<1>2. r \in Runs /\ run[r].status # "none" /\ call[c].pc = "stop"
  BY <1>1 DEF AcquisitionRuns, Unresolved, At
<1>3. "stop" \in Attempt /\ {"stop", "done"} \cap Unstarted = {} /\ "done" \notin Attempt
  BY DEF Attempt, Unstarted
<1>4. CASE Go(c, "done") /\ UNCHANGED poolVars
  BY <1>3, <1>4, OnlyGoes
<1>5. ASSUME Known(r), AbortRun(r), NEW pc \in {"stop", "done"}, Go(c, pc)
      PROVE  KeyPoolInv'
  <2>1. /\ MembersOK' /\ Carried /\ LedgerOK' /\ \A x \in Runs : RowMoves(x)
        /\ \A x \in Runs : x # r => run'[x] = run[x] /\ remote'[x] = remote[x]
        /\ run'[r].status # "none"
    BY <1>2, <1>5, AbortMoves
  <2>2. \A x \in Runs : Undisturbed(x)
    BY <1>2, <1>5, AbortUndisturbed
  <2>3. pc \in Between \cup Attempt
    BY <1>3 DEF Between
  <2>4. PICK x \in CallRows :
           /\ call' = [call EXCEPT ![c] = x]
           /\ x.pc = pc
           /\ pc \in {"done", "acquire"} => x.run = NoReservation
           /\ pc \notin {"done", "acquire"} => x.run = call[c].run /\ x.key = call[c].key
    BY <1>5, <2>3, GoRow DEF KeyPoolInv, KeyPoolTypeOK
  <2>5. ProcessesOK'
    BY <1>5, <2>3, GoRow DEF KeyPoolInv, KeyPoolTypeOK
  <2>6. OwnsRun(x)'
    <3>1. x.run \in Runs => x.run = call[c].run /\ run'[x.run].status # "none"
      BY <2>1, <2>4, ReservationAssumption, <1>2 DEF KeyPoolInv, OwnerInv, OwnsRun
    <3>2. x.pc \in Attempt => x.run \in Runs /\ x.key \in Keys
      BY <1>2, <1>3, <2>4, OwnsOne DEF Own
    <3>3. x.pc \notin Unstarted /\ x.pc # "post"
      BY <1>3, <2>4 DEF Unstarted
    <3> QED
      BY <3>1, <3>2, <3>3 DEF OwnsRun
  <2>7. x.run \in Runs => x.run = call[c].run
    BY <2>4, ReservationAssumption
  <2>8. OwnerInv'
    BY <2>2, <2>4, <2>6, <2>7, OwnersFollow DEF KeyPoolInv, KeyPoolTypeOK
  <2> QED
    BY <2>1, <2>5, <2>8, Preserved
<1> QED
  BY <1>1, <1>4, <1>5

\* register_run
LEMMA RegisterKeeps ==
    ASSUME KeyPoolInv, NEW c \in Calls, Register(c)
    PROVE  KeyPoolInv'
<1>1. call[c].pc = "register" /\ "register" \in Attempt
  BY DEF Register, At, Attempt
<1>2. Own(c) \in Runs /\ run[Own(c)].status # "none"
  BY <1>1, OwnsOne
<1>3. {"wait", "overtaken", "salvage"} \subseteq Attempt
      /\ {"wait", "overtaken", "salvage"} \cap Unstarted = {}
  BY DEF Attempt, Unstarted
<1>4. CASE Go(c, "salvage") /\ UNCHANGED poolVars
  BY <1>1, <1>3, <1>4, OnlyGoes
<1>5. ASSUME run[Own(c)].status = "reserved",
             RunOnly([run EXCEPT ![Own(c)] = [@ EXCEPT !.status = "running",
                                                       !.registered = TRUE]]),
             NEW pc \in {"wait", "overtaken"}, Go(c, pc), remote' = remote
      PROVE  KeyPoolInv'
  <2>1. MembersOK' /\ Carried
    BY <1>5, RunOnlyStays
  <2>2. PICK r \in Runs : r = Own(c)
    BY <1>2
  <2>3. run \in [Runs -> RunRows] /\ run[r] \in RunRows
    BY DEF KeyPoolInv, KeyPoolTypeOK, LedgerOK
  <2>4. PICK q : q = [run[r] EXCEPT !.status = "running", !.registered = TRUE]
    OBVIOUS
  <2>5. q \in RunRows /\ q.status = "running" /\ q.key = run[r].key /\ q.gen = run[r].gen
    BY <2>3, <2>4 DEF RunRows, Unresolved
  <2>6. run' = [run EXCEPT ![r] = q]
    BY <1>5, <2>2, <2>4 DEF RunOnly
  <2>7. /\ run' \in [Runs -> RunRows] /\ run'[r] = q
        /\ \A x \in Runs : x # r => run'[x] = run[x]
    BY <2>3, <2>5, <2>6
  <2>8. LedgerOK'
    BY <1>5, <2>7 DEF KeyPoolInv, KeyPoolTypeOK, LedgerOK
  <2>9. ASSUME NEW x \in Runs
        PROVE  RowMoves(x)
    <3>1. CASE x = r
      BY <1>5, <2>2, <2>5, <2>7, <3>1 DEF RowMoves, Unresolved
    <3>2. CASE x # r
      BY <1>5, <2>7, <3>2, RowStays DEF KeyPoolInv
    <3> QED
      BY <3>1, <3>2
  <2>10. run'[r].status # "none" /\ pc # "post" /\ pc \in Attempt /\ pc \notin Unstarted
    BY <1>3, <2>5, <2>7
  <2>11. ProcessesOK' /\ OwnerInv'
    BY <1>1, <1>5, <2>2, <2>7, <2>10, GoOwns DEF KeyPoolInv, KeyPoolTypeOK
  <2> QED
    BY <2>1, <2>8, <2>9, <2>11, Preserved
<1> QED
  BY <1>4, <1>5 DEF Register

\* _confirm_unknown_start
LEMMA ConfirmSettles ==
    ASSUME KeyPoolInv, NEW r \in Runs, NEW s \in Terminal, ConfirmUnknownStart(r, s)
    PROVE  /\ MembersOK' /\ Carried
           /\ Settles(run', r) /\ run'[r].status \in Terminal
           /\ run[r].status = "start_outcome_unknown"
<1>1. /\ run[r].status = "start_outcome_unknown" /\ run' = RunStatus(r, s)
      /\ UNCHANGED <<status, role, order>>
  BY DEF ConfirmUnknownStart
<1>2. run[r].key \in Keys
  BY <1>1 DEF KeyPoolInv, LedgerInv, RunOK, Unresolved, Members
<1>3. PICK proof \in SUBSET Keys : proof = IF s = "start_rejected" THEN {run[r].key} ELSE {}
  BY <1>2
<1>4. PICK rn : rn = RunStatus(r, s)
  OBVIOUS
<1>5. pool' = ReleasedBlock(rn, proof)
  BY <1>3, <1>4 DEF ConfirmUnknownStart
<1>6. PoolStays
  BY <1>5, ReleasedStays DEF KeyPoolInv, KeyPoolTypeOK
<1>7. MembersOK' /\ Carried
  BY <1>1, <1>6, MembersStay DEF KeyPoolInv, KeyPoolTypeOK
<1>8. Settles(run', r) /\ run'[r].status \in Terminal
  BY <1>1, RunStatusRow DEF KeyPoolInv, KeyPoolTypeOK, Settles
<1> QED
  BY <1>1, <1>7, <1>8

\* reconcile_failed_run_registration
LEMMA SalvageKeeps ==
    ASSUME KeyPoolInv, NEW c \in Calls, Salvage(c)
    PROVE  KeyPoolInv'
<1>1. call[c].pc \in Attempt /\ Go(c, "done")
  BY DEF Salvage, At, Attempt
<1>2. Own(c) \in Runs /\ run[Own(c)].status # "none"
  BY <1>1, OwnsOne
<1>3. "done" \notin Unstarted /\ "ended" \in Terminal
  BY DEF Unstarted, Terminal
<1>4. ASSUME remote' = [remote EXCEPT ![Own(c)] = "ended"],
             ConfirmUnknownStart(Own(c), "ended")
      PROVE  KeyPoolInv'
  <2>1. MembersOK' /\ Carried /\ Settles(run', Own(c))
    BY <1>2, <1>3, <1>4, ConfirmSettles
  <2>2. /\ remote' \in [Runs -> {"none", "running", "ended"}]
        /\ remote'[Own(c)] = "ended"
        /\ \A x \in Runs : x # Own(c) => remote'[x] = remote[x]
    BY <1>2, <1>4 DEF KeyPoolInv, KeyPoolTypeOK, LedgerOK
  <2> QED
    BY <1>1, <1>3, <2>1, <2>2, SettlesAndGoes
<1>5. CASE ReportStartOutcomeUnknown(Own(c))
  BY <1>1, <1>5, DoubtAndDone
<1> QED
  BY <1>4, <1>5 DEF Salvage

\* _wait_for_run
LEMMA WaitKeeps ==
    ASSUME KeyPoolInv, NEW c \in Calls, Wait(c)
    PROVE  KeyPoolInv'
<1>1. call[c].pc \in Attempt
  BY DEF Wait, At, Attempt
<1>2. Own(c) \in Runs /\ run[Own(c)].status # "none"
  BY <1>1, OwnsOne
<1>3. {"dataset", "retry", "timeout"} \subseteq Attempt
      /\ {"dataset", "retry", "timeout"} \cap Unstarted = {}
  BY DEF Attempt, Unstarted
<1>4. ASSUME remote[Own(c)] # "running", RunOnly(Moved(Own(c), "ended")), remote' = remote,
             NEW pc \in {"dataset", "retry"}, Go(c, pc)
      PROVE  KeyPoolInv'
  <2>1. MembersOK' /\ Carried /\ Settles(run', Own(c))
    BY <1>2, <1>4, RunOnlyStays, SettlesRun DEF KeyPoolInv, KeyPoolTypeOK
  <2>2. remote' \in [Runs -> {"none", "running", "ended"}]
    BY <1>4 DEF KeyPoolInv, KeyPoolTypeOK, LedgerOK
  <2> QED
    BY <1>1, <1>3, <1>4, <2>1, <2>2, SettlesAndGoes
<1>5. CASE Go(c, "timeout") /\ UNCHANGED poolVars
  BY <1>1, <1>3, <1>5, OnlyGoes
<1>6. CASE BlockRunReconciliation(Own(c), call[c].key) /\ Go(c, "done")
  BY <1>1, <1>6, DoubtAndDone
<1> QED
  BY <1>4, <1>5, <1>6 DEF Wait

\* A run that was overtaken by a drain, or that takes too long
LEMMA AbortKeeps ==
    ASSUME KeyPoolInv, NEW c \in Calls, Abort(c)
    PROVE  KeyPoolInv'
<1>1. call[c].pc \in Attempt /\ AbortRun(Own(c))
  BY DEF Abort, At, Attempt
<1>2. PICK pc \in {"retry", "done"} : Go(c, pc)
  BY DEF Abort
<1>3. Own(c) \in Runs /\ run[Own(c)].status # "none"
  BY <1>1, OwnsOne
<1>4. /\ MembersOK' /\ Carried /\ LedgerOK' /\ \A x \in Runs : RowMoves(x)
      /\ \A x \in Runs : x # Own(c) => run'[x] = run[x] /\ remote'[x] = remote[x]
      /\ run'[Own(c)].status # "none"
  BY <1>1, <1>3, AbortMoves
<1>5. pc \in {"done", "acquire"} \cup Attempt /\ pc \notin Unstarted /\ pc # "post"
  BY DEF Attempt, Unstarted
<1>6. ProcessesOK' /\ OwnerInv'
  BY <1>1, <1>2, <1>4, <1>5, GoOwns DEF KeyPoolInv, KeyPoolTypeOK
<1> QED
  BY <1>4, <1>6, Preserved

\* Every step of a call, and its death, preserves the invariant.
LEMMA CallKeeps ==
    ASSUME KeyPoolInv, NEW c \in Calls, CallStep(c) \/ Crash(c)
    PROVE  KeyPoolInv'
<1>1. {"done", "acquire"} \cap (Attempt \cup Unstarted) = {}
  BY DEF Attempt, Unstarted
<1>2. CASE AcquireRefused(c) \/ Retry(c)
  <2>1. PICK pc \in {"done", "acquire"} : Go(c, pc) /\ UNCHANGED poolVars
    BY <1>2 DEF AcquireRefused, Retry
  <2> QED
    BY <1>1, <2>1, OnlyGoes
<1>3. CASE Post(c)
  <2>1. UNCHANGED <<status, role, order, pool, run>> /\ call[c].pc = "post"
    BY <1>3 DEF Post, At
  <2>2. PICK pc \in {"register", "unknown", "reject", "depleted", "invalid"} :
           /\ Go(c, pc)
           /\ \/ remote' = remote
              \/ /\ pc \in {"register", "unknown"}
                 /\ remote' = [remote EXCEPT ![Own(c)] = "running"]
    BY <1>3 DEF Post
  <2> QED
    BY <2>1, <2>2, PostKeeps
<1>4. CASE Crash(c)
  <2>1. UNCHANGED <<status, role, order, pool, run>> /\ Go(c, "done")
    BY <1>4 DEF Crash
  <2>2. \/ remote' = remote
        \/ call[c].pc = "post" /\ remote' = [remote EXCEPT ![Own(c)] = "running"]
    BY <1>4 DEF Crash, At
  <2> QED
    BY <2>1, <2>2, PostKeeps
<1>5. CASE LostAnswer(c)
  <2>1. call[c].pc \in Attempt /\ Go(c, "done") /\ ReportStartOutcomeUnknown(Own(c))
    BY <1>5 DEF LostAnswer, At, Attempt
  <2> QED
    BY <2>1, DoubtAndDone
<1>6. CASE StartRejected(c)
  <2>1. /\ call[c].pc \in Unstarted /\ Go(c, "done") /\ remote' = remote
        /\ RunOnly(Released(Own(c)))
    BY <1>6 DEF StartRejected, At, Unstarted
  <2> QED
    BY <1>1, <2>1, RunOnlyStays, ReleasesAndGoes
<1>7. CASE Dataset(c)
  <2>1. call[c].pc \in Attempt /\ Go(c, "done")
    BY <1>7 DEF Dataset, At, Attempt
  <2>2. CASE UNCHANGED poolVars
    BY <1>1, <2>1, <2>2, OnlyGoes
  <2>3. CASE BlockRunReconciliation(Own(c), call[c].key)
    BY <2>1, <2>3, DoubtAndDone
  <2> QED
    BY <1>7, <2>2, <2>3 DEF Dataset
<1> QED
  BY <1>2, <1>3, <1>4, <1>5, <1>6, <1>7, AcquireKeeps, AcquireSpentKeeps,
     CallFailOverKeeps, QuotaStepKeeps, AssertStartableKeeps, CredentialFailureKeeps,
     StopRunsKeeps, RegisterKeeps, SalvageKeeps, WaitKeeps, AbortKeeps
  DEF CallStep

-----------------------------------------------------------------------------
\* The steps of the workers, the administrator and Apify

RecSteps == {"idle", "validation", "blocked", "drain", "stop", "quota"}

\* The request of the administrator stays, ends, or is about a key.
AdminMoves == \/ admin' = admin
              \/ admin' \in [op : {"none"}, key : {NoKey}]
              \/ admin' \in [op : {"delete", "rotate", "rotated"}, key : Keys]

\* A step of somebody who is not a call
LEMMA OthersKeep ==
    ASSUME KeyPoolInv, call' = call, rec' \in [Workers -> RecSteps],
           AdminMoves,
           MembersOK', Carried, LedgerOK', \A r \in Runs : RowMoves(r),
           \A r \in Runs : Undisturbed(r)
    PROVE  KeyPoolInv'
<1>1. admin' \in [op : {"none", "delete", "rotate", "rotated"}, key : Keys \cup {NoKey}]
      /\ (admin'.op # "none" => admin'.key # NoKey)
  BY KeyPoolAssumption DEF KeyPoolInv, KeyPoolTypeOK, ProcessesOK, AdminMoves
<1>2. ProcessesOK'
  BY <1>1 DEF KeyPoolInv, KeyPoolTypeOK, ProcessesOK, RecSteps
<1>3. OwnerInv'
  BY OwnersStay DEF KeyPoolInv, KeyPoolTypeOK
<1> QED
  BY <1>2, <1>3, Preserved

\* ... that leaves the ledger alone
LEMMA OthersEdit ==
    ASSUME KeyPoolInv, call' = call, rec' \in [Workers -> RecSteps],
           AdminMoves,
           MembersOK', Carried, run' = run, remote' = remote
    PROVE  KeyPoolInv'
<1>1. \A r \in Runs : Undisturbed(r)
  BY DEF Undisturbed
<1> QED
  BY <1>1, LedgerStays, OthersKeep

\* ... or the whole pool
LEMMA OthersWait ==
    ASSUME KeyPoolInv, call' = call, rec' \in [Workers -> RecSteps],
           AdminMoves,
           UNCHANGED poolVars
    PROVE  KeyPoolInv'
  BY PoolUntouched, OthersEdit DEF poolVars

\* Where GoRec leads
LEMMA GoRecRow ==
    ASSUME KeyPoolInv, NEW w \in Workers, NEW pc \in RecSteps, GoRec(w, pc)
    PROVE  call' = call /\ AdminMoves /\ rec' \in [Workers -> RecSteps]
  BY DEF GoRec, AdminMoves, KeyPoolInv, KeyPoolTypeOK, ProcessesOK, RecSteps

\* block_unregistered_reservations
LEMMA BlockUnregisteredMoves ==
    ASSUME KeyPoolInv, BlockUnregistered
    PROVE  /\ MembersOK' /\ Carried /\ LedgerOK'
           /\ \A r \in Runs : RowMoves(r) /\ Undisturbed(r)
<1> DEFINE taken(r) == run[r].status = "reserved" /\ run[r].key \in Members
<1>1. /\ run' = [r \in Runs |-> IF taken(r)
                                THEN [run[r] EXCEPT !.status = "start_outcome_unknown"]
                                ELSE run[r]]
      /\ UNCHANGED <<status, role, order, remote>>
      /\ pool' = pool \/ pool' = BlockPool("unknown_start")
  BY DEF BlockUnregistered
<1>2. "unknown_start" \in Reasons
  BY DEF Reasons
<1>3. MembersOK' /\ Carried
  BY <1>1, <1>2, BlockedStays, MembersStay DEF KeyPoolInv, KeyPoolTypeOK
<1>4. run \in [Runs -> RunRows] /\ LedgerInv
  BY DEF KeyPoolInv, KeyPoolTypeOK, LedgerOK
<1>5. ASSUME NEW r \in Runs
      PROVE  /\ run'[r] \in RunRows
             /\ run'[r] = run[r] \/ /\ run[r].status = "reserved"
                                    /\ run'[r].status = "start_outcome_unknown"
                                    /\ run'[r].key = run[r].key /\ run'[r].gen = run[r].gen
                                    /\ run'[r].registered = run[r].registered
  <2>1. run[r] \in RunRows
    BY <1>4
  <2>2. PICK q : q = [run[r] EXCEPT !.status = "start_outcome_unknown"]
    OBVIOUS
  <2>3. /\ q \in RunRows /\ q.status = "start_outcome_unknown" /\ q.key = run[r].key
        /\ q.gen = run[r].gen /\ q.registered = run[r].registered
    BY <2>1, <2>2 DEF RunRows, Unresolved
  <2>4. run'[r] = IF taken(r) THEN q ELSE run[r]
    BY <1>1, <2>2
  <2> QED
    BY <2>1, <2>3, <2>4
<1>6. run' \in [Runs -> RunRows]
  BY <1>1, <1>5
<1>7. LedgerOK'
  BY <1>1, <1>6 DEF KeyPoolInv, KeyPoolTypeOK, LedgerOK
<1>8. ASSUME NEW r \in Runs
      PROVE  RowMoves(r) /\ Undisturbed(r)
  <2>1. CASE run'[r] = run[r]
    BY <1>1, <1>4, <2>1, RowStays DEF Undisturbed
  <2>2. CASE run'[r] # run[r]
    BY <1>1, <1>5, <2>2 DEF RowMoves, Undisturbed, Unresolved
  <2> QED
    BY <2>1, <2>2
<1> QED
  BY <1>3, <1>7, <1>8

\* A start that is proved absent while its call is not in the POST
LEMMA ProvedAbsentMoves ==
    ASSUME KeyPoolInv, NEW r \in Runs, ProvedAbsent(r)
    PROVE  /\ MembersOK' /\ Carried /\ LedgerOK'
           /\ \A x \in Runs : RowMoves(x) /\ Undisturbed(x)
<1>1. /\ remote' = remote /\ remote[r] = "none" /\ SettledPost(r)
      /\ ConfirmUnknownStart(r, "start_rejected") /\ "start_rejected" \in Terminal
  BY DEF ProvedAbsent, Terminal
<1>2. /\ MembersOK' /\ Carried /\ Settles(run', r) /\ run'[r].status \in Terminal
      /\ run[r].status = "start_outcome_unknown"
  BY <1>1, ConfirmSettles
<1>3. remote' \in [Runs -> {"none", "running", "ended"}]
  BY <1>1 DEF KeyPoolInv, KeyPoolTypeOK, LedgerOK
<1>4. LedgerOK' /\ \A x \in Runs : RowMoves(x)
  BY <1>1, <1>2, <1>3, SettlesMoves DEF KeyPoolInv, KeyPoolTypeOK
<1>5. ~InPost(r)
  BY <1>1 DEF SettledPost, InPost, Own, At
<1>6. \A x \in Runs : Undisturbed(x)
  BY <1>1, <1>2, <1>5 DEF Undisturbed, Settles, Terminal
<1> QED
  BY <1>2, <1>4, <1>6

\* reconcile_settled_unknown_start_block
LEMMA SettledStays ==
    ASSUME MembersOK, pool' = SettledPool
    PROVE  /\ PoolStays
           /\ pool.status = "blocked" /\ pool'.status # "blocked" => UnknownStarts(run) = {}
<1>1. CASE pool' = pool
  BY <1>1, PoolFields DEF PoolStays, MembersOK
<1>2. CASE pool' = ReleasedBlock(run, {})
  BY <1>2, ReleasedStays
<1> QED
  BY <1>1, <1>2 DEF SettledPool

\* A registered run that has ended is written off.
LEMMA RegisteredMoves ==
    ASSUME KeyPoolInv, NEW r \in Runs, run[r].status # "none", run[r].registered,
           remote[r] = "ended", RunOnly(Moved(r, "ended")), remote' = remote
    PROVE  /\ MembersOK' /\ Carried /\ LedgerOK'
           /\ \A x \in Runs : RowMoves(x) /\ Undisturbed(x)
<1>1. MembersOK' /\ Carried /\ run' = Moved(r, "ended")
  BY RunOnlyStays
<1>2. Settles(run', r) /\ run'[r].status \in Terminal
  BY <1>1, SettlesRun DEF KeyPoolInv, KeyPoolTypeOK
<1>3. remote' \in [Runs -> {"none", "running", "ended"}]
  BY DEF KeyPoolInv, KeyPoolTypeOK, LedgerOK
<1>4. LedgerOK' /\ \A x \in Runs : RowMoves(x)
  BY <1>2, <1>3, SettlesMoves DEF KeyPoolInv, KeyPoolTypeOK
<1>5. \A x \in Runs : Undisturbed(x)
  BY <1>2 DEF Undisturbed, Settles, Terminal
<1> QED
  BY <1>1, <1>4, <1>5

\* Every step of a worker's reconciliation preserves the invariant.
LEMMA RecKeeps ==
    ASSUME KeyPoolInv, NEW w \in Workers, RecStep(w)
    PROVE  KeyPoolInv'
<1>1. rec \in [Workers -> RecSteps] /\ MembersOK /\ LedgerOK /\ LedgerInv
  BY DEF KeyPoolInv, KeyPoolTypeOK, ProcessesOK, RecSteps
<1>2. CASE ReconcileStarts(w)
  <2>1. BlockUnregistered /\ GoRec(w, "validation") /\ "validation" \in RecSteps
    BY <1>2 DEF ReconcileStarts, RecSteps
  <2> QED
    BY <2>1, GoRecRow, BlockUnregisteredMoves, OthersKeep
<1>3. CASE Prove(w)
  <2>1. ASSUME NEW r \in Runs, ProvedAbsent(r), UNCHANGED <<call, rec, admin>>
        PROVE  KeyPoolInv'
    BY <1>1, <2>1, ProvedAbsentMoves, OthersKeep DEF AdminMoves
  <2>2. ASSUME GoRec(w, "idle"), UNCHANGED poolVars
        PROVE  KeyPoolInv'
    <3>1. "idle" \in RecSteps
      BY DEF RecSteps
    <3> QED
      BY <2>2, <3>1, GoRecRow, OthersWait
  <2> QED
    BY <1>3, <2>1, <2>2 DEF Prove, InDoubt
<1>4. CASE ReconcileBlocked(w)
  <2>1. PICK pc \in {"drain", "blocked", "idle"} : GoRec(w, pc)
    BY <1>4 DEF ReconcileBlocked
  <2>2. pool' = SettledPool /\ UNCHANGED <<status, role, order, run, remote>>
    BY <1>4 DEF ReconcileBlocked
  <2>3. MembersOK' /\ Carried
    BY <1>1, <2>2, SettledStays, MembersStay
  <2>4. pc \in RecSteps
    BY DEF RecSteps
  <2> QED
    BY <2>1, <2>2, <2>3, <2>4, GoRecRow, OthersEdit
<1>5. CASE ReconcileRegistered(w)
  <2>1. ASSUME NEW r \in AcquisitionRuns(run, pool.gen), Known(r), remote[r] = "ended",
               RunOnly(Moved(r, "ended")), UNCHANGED <<remote, call, rec, admin>>
        PROVE  KeyPoolInv'
    <3>1. r \in Runs /\ run[r].status # "none" /\ run[r].registered
      BY <2>1 DEF AcquisitionRuns, Unresolved, Known
    <3> QED
      BY <1>1, <2>1, <3>1, RegisteredMoves, OthersKeep DEF AdminMoves
  <2>2. ASSUME NEW pc \in {"idle", "drain"}, GoRec(w, pc), UNCHANGED poolVars
        PROVE  KeyPoolInv'
    <3>1. pc \in RecSteps
      BY DEF RecSteps
    <3> QED
      BY <2>2, <3>1, GoRecRow, OthersWait
  <2> QED
    BY <1>5, <2>1, <2>2 DEF ReconcileRegistered
<1>6. CASE ReconcileDrain(w)
  <2>1. PICK pc \in {"idle", "stop", "quota"} :
           GoRec(w, pc) /\ (BlockUnregistered \/ UNCHANGED poolVars)
    BY <1>6 DEF ReconcileDrain
  <2>2. pc \in RecSteps
    BY DEF RecSteps
  <2> QED
    BY <2>1, <2>2, GoRecRow, BlockUnregisteredMoves, OthersKeep, OthersWait
<1>7. CASE ReconcileStop(w)
  <2>1. PICK r \in AcquisitionRuns(run, pool.drainGen), pc \in {"stop", "idle"} :
           GoRec(w, pc) /\ ((Known(r) /\ AbortRun(r)) \/ UNCHANGED poolVars)
    BY <1>7 DEF ReconcileStop
  <2>2. pc \in RecSteps /\ r \in Runs /\ run[r].status # "none"
    BY DEF RecSteps, AcquisitionRuns, Unresolved
  <2> QED
    BY <2>1, <2>2, GoRecRow, AbortMoves, AbortUndisturbed, OthersKeep, OthersWait
<1>8. CASE ReconcileFailOver(w)
  <2>1. PICK pc \in {"idle", "quota"} : GoRec(w, pc) /\ (FailOver \/ UNCHANGED poolVars)
    BY <1>8 DEF ReconcileFailOver
  <2>2. pc \in RecSteps
    BY DEF RecSteps
  <2>3. FailOver => MembersOK' /\ Carried /\ run' = run /\ remote' = remote
    BY <1>1, FailOverKeeps DEF FailOver
  <2> QED
    BY <2>1, <2>2, <2>3, GoRecRow, OthersEdit, OthersWait
<1>9. CASE ReconcileQuota(w)
  <2>1. ASSUME NEW k \in QuotaCandidates, NEW left, RecordMemberQuota(k, left),
               UNCHANGED <<call, rec, admin>>
        PROVE  KeyPoolInv'
    <3>1. k \in Keys /\ run' = run /\ remote' = remote
      BY <2>1 DEF QuotaCandidates, Members, RecordMemberQuota
    <3> QED
      BY <1>1, <2>1, <3>1, QuotaKeeps, OthersEdit DEF AdminMoves
  <2>2. ASSUME NEW k \in QuotaCandidates, BeginDrain(k, "invalid", run),
               UNCHANGED <<call, rec, admin>>
        PROVE  KeyPoolInv'
    <3>1. k \in Keys /\ run' = run /\ remote' = remote
      BY <2>2 DEF QuotaCandidates, Members, BeginDrain
    <3> QED
      BY <1>1, <2>2, <3>1, BeginDrainKeeps, OthersEdit DEF AdminMoves
  <2>3. ASSUME GoRec(w, "idle"), UNCHANGED poolVars
        PROVE  KeyPoolInv'
    <3>1. "idle" \in RecSteps
      BY DEF RecSteps
    <3> QED
      BY <2>3, <3>1, GoRecRow, OthersWait
  <2> QED
    BY <1>9, <2>1, <2>2, <2>3 DEF ReconcileQuota
<1> QED
  BY <1>2, <1>3, <1>4, <1>5, <1>6, <1>7, <1>8, <1>9 DEF RecStep


-----------------------------------------------------------------------------
\* The administrator and Apify

\* A request that changes the members in one transaction
LEMMA EditKeeps ==
    ASSUME KeyPoolInv, EditPool \/ DrainKey
    PROVE  KeyPoolInv'
<1>1. /\ MembersOK /\ LedgerOK /\ LedgerInv
      /\ rec \in [Workers -> RecSteps] /\ UNCHANGED <<call, rec, admin>>
  BY DEF KeyPoolInv, KeyPoolTypeOK, ProcessesOK, RecSteps, EditPool, DrainKey
<1>2. ASSUME MembersOK', Carried, run' = run, remote' = remote
      PROVE  KeyPoolInv'
  BY <1>1, <1>2, OthersEdit DEF AdminMoves
<1>3. ASSUME NEW k \in Keys, AppendSecret(k)
      PROVE  KeyPoolInv'
  BY <1>1, <1>2, <1>3, AppendKeeps DEF AppendSecret
<1>4. ASSUME NEW k \in Keys, NEW left, RecordMemberQuota(k, left)
      PROVE  KeyPoolInv'
  BY <1>1, <1>2, <1>4, QuotaKeeps DEF RecordMemberQuota
<1>5. ASSUME NEW requested, Reorder(requested)
      PROVE  KeyPoolInv'
  BY <1>1, <1>2, <1>5, ReorderKeeps DEF Reorder
<1>6. ASSUME NEW k \in Members \cup {NoKey}, SetValidationKey(k)
      PROVE  KeyPoolInv'
  BY <1>1, <1>2, <1>6, SetValidationKeeps DEF SetValidationKey
<1>7. ASSUME NEW k \in Members, BeginDrain(k, "standby", run)
      PROVE  KeyPoolInv'
  <2>1. k \in Keys /\ run' = run /\ remote' = remote
    BY <1>7 DEF Members, BeginDrain
  <2> QED
    BY <1>1, <1>2, <1>7, <2>1, BeginDrainKeeps
<1>8. CASE FailOver
  BY <1>1, <1>2, <1>8, FailOverKeeps DEF FailOver
<1> QED
  BY <1>3, <1>4, <1>5, <1>6, <1>7, <1>8 DEF EditPool, DrainKey

\* touch_secret_ref: the pending runs of the key lose the version they had.
LEMMA TouchMoves ==
    ASSUME KeyPoolInv, NEW k, TouchSecret(k)
    PROVE  /\ MembersOK' /\ Carried /\ LedgerOK'
           /\ \A r \in Runs : RowMoves(r) /\ Undisturbed(r)
<1>1. /\ MembersOK /\ LedgerOK /\ LedgerInv /\ run \in [Runs -> RunRows]
      /\ UNCHANGED <<status, role, order, pool, remote>>
  BY DEF KeyPoolInv, KeyPoolTypeOK, LedgerOK, TouchSecret
<1>2. MembersOK' /\ Carried
  BY <1>1, MembersStay, PoolFields DEF PoolStays, MembersOK
<1>3. ASSUME NEW r \in Runs
      PROVE  /\ run'[r] \in RunRows
             /\ \/ run'[r] = run[r]
                \/ /\ run[r].status \in Unresolved
                   /\ run'[r].status = run[r].status /\ run'[r].key = run[r].key
                   /\ run'[r].gen = run[r].gen /\ run'[r].registered = run[r].registered
  <2>1. PICK q : q = [run[r] EXCEPT !.held = FALSE]
    OBVIOUS
  <2>2. /\ q \in RunRows /\ q.status = run[r].status /\ q.key = run[r].key
        /\ q.gen = run[r].gen /\ q.registered = run[r].registered
    BY <1>1, <2>1 DEF RunRows
  <2>3. run'[r] = IF r \in BusyRuns(k) THEN q ELSE run[r]
    BY <2>1 DEF TouchSecret
  <2>4. r \in BusyRuns(k) => run[r].status \in Unresolved
    BY DEF BusyRuns
  <2> QED
    BY <1>1, <2>2, <2>3, <2>4
<1>4. LedgerOK'
  BY <1>1, <1>3 DEF LedgerOK, TouchSecret
<1>5. ASSUME NEW r \in Runs
      PROVE  RowMoves(r) /\ Undisturbed(r)
  <2>1. CASE run'[r] = run[r]
    BY <1>1, <2>1, RowStays DEF Undisturbed
  <2>2. CASE run'[r] # run[r]
    BY <1>1, <1>3, <2>2 DEF RowMoves, Undisturbed, Unresolved
  <2> QED
    BY <2>1, <2>2
<1> QED
  BY <1>2, <1>4, <1>5

\* Deleting and rotating a key, between whose transactions others work
LEMMA RequestKeeps ==
    ASSUME KeyPoolInv, CheckKey \/ DeleteKey \/ RotateKey
    PROVE  KeyPoolInv'
<1>1. /\ MembersOK /\ LedgerOK /\ LedgerInv /\ rec \in [Workers -> RecSteps]
      /\ admin.op # "none" => admin.key \in Keys
  BY DEF KeyPoolInv, KeyPoolTypeOK, ProcessesOK, RecSteps
<1>2. ASSUME Ask("none", NoKey)
      PROVE  call' = call /\ rec' = rec /\ AdminMoves
  BY <1>2 DEF Ask, AdminMoves
<1>3. CASE CheckKey
  <2>1. PICK op \in {"delete", "rotate"}, k \in Members : Ask(op, k) /\ UNCHANGED poolVars
    BY <1>3 DEF CheckKey
  <2>2. call' = call /\ rec' = rec /\ AdminMoves
    BY <2>1 DEF Ask, AdminMoves, Members
  <2> QED
    BY <1>1, <2>1, <2>2, OthersWait
<1>4. CASE DeleteKey
  <2>1. /\ admin.key \in Keys /\ call' = call /\ rec' = rec /\ AdminMoves
        /\ RemoveSecret(admin.key) \/ UNCHANGED poolVars
    BY <1>1, <1>2, <1>4 DEF DeleteKey
  <2>2. CASE RemoveSecret(admin.key)
    BY <1>1, <2>1, <2>2, RemoveKeeps, OthersEdit DEF RemoveSecret
  <2> QED
    BY <1>1, <2>1, <2>2, OthersWait
<1>5. CASE admin.op = "rotate" /\ TouchSecret(admin.key) /\ Ask("rotated", admin.key)
  <2>1. call' = call /\ rec' = rec /\ AdminMoves
    BY <1>1, <1>5 DEF Ask, AdminMoves
  <2> QED
    BY <1>1, <1>5, <2>1, TouchMoves, OthersKeep
<1>6. CASE /\ admin.op = "rotated" /\ Ask("none", NoKey)
           /\ MarkSecretRotated(admin.key) \/ UNCHANGED poolVars
  <2>1. admin.key \in Keys /\ call' = call /\ rec' = rec /\ AdminMoves
    BY <1>1, <1>2, <1>6
  <2>2. CASE MarkSecretRotated(admin.key)
    BY <1>1, <2>1, <2>2, RotatedKeeps, OthersEdit DEF MarkSecretRotated
  <2> QED
    BY <1>1, <1>6, <2>1, <2>2, OthersWait
<1> QED
  BY <1>3, <1>4, <1>5, <1>6 DEF RotateKey

\* A run ends at Apify.
LEMMA RunEndsKeeps ==
    ASSUME KeyPoolInv, RunEnds
    PROVE  KeyPoolInv'
<1>1. PICK r \in Runs : /\ remote[r] = "running"
                        /\ remote' = [remote EXCEPT ![r] = "ended"]
  BY DEF RunEnds
<1>2. /\ MembersOK /\ LedgerOK /\ LedgerInv /\ rec \in [Workers -> RecSteps]
      /\ UNCHANGED <<status, role, order, pool, run, call, rec>> /\ AdminMoves
  BY DEF KeyPoolInv, KeyPoolTypeOK, ProcessesOK, RecSteps, RunEnds, AdminMoves
<1>3. MembersOK' /\ Carried
  BY <1>2, MembersStay, PoolFields DEF PoolStays, MembersOK
<1>4. LedgerOK'
  BY <1>1, <1>2 DEF LedgerOK
<1>5. \A x \in Runs : remote'[x] = IF x = r THEN "ended" ELSE remote[x]
  BY <1>1, <1>2 DEF LedgerOK
<1>6. run[r].status # "none"
  BY <1>1, <1>2 DEF LedgerInv, RunOK, Unresolved
<1>7. \A x \in Runs : RowMoves(x) /\ Undisturbed(x)
  BY <1>1, <1>2, <1>5, <1>6, RowStays DEF Undisturbed
<1> QED
  BY <1>2, <1>3, <1>4, <1>7, OthersKeep


-----------------------------------------------------------------------------
\* The theorems

\* A step that changes nothing
LEMMA StutterKeeps ==
    ASSUME KeyPoolInv, UNCHANGED vars
    PROVE  KeyPoolInv'
<1>1. rec' \in [Workers -> RecSteps] /\ call' = call /\ AdminMoves /\ UNCHANGED poolVars
  BY DEF KeyPoolInv, KeyPoolTypeOK, ProcessesOK, RecSteps, vars, poolVars, AdminMoves
<1> QED
  BY <1>1, OthersWait

\* The pool an administrator has configured before anything is called
LEMMA InitInv ==
    ASSUME Init
    PROVE  KeyPoolInv
<1> DEFINE first == First(order, Configured)
<1>1. first \in Configured \cup {NoKey} /\ Configured \subseteq Keys
  BY FirstIsMember, KeyPoolAssumption
<1>2. 1 + Cardinality(Configured) \in Nat
  BY KeyPoolAssumption, FS_CardinalityType
<1>3. /\ status \in [Keys -> Statuses]
      /\ \A k \in Keys : /\ status[k] # "absent" <=> k \in Configured
                         /\ status[k] \in {"active", "draining"} => k = first
  BY DEF Init, KeyPoolInit, Statuses
<1>4. Members = Configured
  BY <1>1, <1>3 DEF Members
<1>5. pool \in PoolRows /\ pool.status # "draining" /\ pool.active = first
  BY <1>1, <1>2 DEF Init, KeyPoolInit, PoolRows, Reasons
<1>6. /\ role \in [Keys -> {"acquisition", "validation"}] /\ ValidationKeys = {}
      /\ order \in Orders(Configured)
  BY DEF Init, KeyPoolInit, ValidationKeys, Members
<1>7. MembersOK
  BY <1>3, <1>4, <1>5, <1>6 DEF MembersOK
<1>8. /\ run = [r \in Runs |-> NoRun] /\ remote = [r \in Runs |-> "none"]
      /\ NoRun \in RunRows /\ NoRun.status = "none" /\ "none" \notin Unresolved
  BY DEF Init, KeyPoolInit, NoRun, RunRows, Unresolved
<1>9. LedgerOK
  BY <1>8 DEF LedgerOK
<1>10. LedgerInv
  BY <1>8 DEF LedgerInv, RunOK
<1>11. /\ call = [c \in Calls |-> Caller("acquire", {})]
       /\ Caller("acquire", {}) \in CallRows
       /\ Caller("acquire", {}).run = NoReservation
       /\ Caller("acquire", {}).pc = "acquire" /\ "acquire" \notin Attempt
  BY DEF Init, Caller, CallRows, Between, Attempt
<1>12. ProcessesOK
  BY <1>11 DEF Init, ProcessesOK, CallRows
<1>13. OwnerInv
  BY <1>11, ReservationAssumption DEF OwnerInv, OwnsRun
<1> QED
  BY <1>7, <1>9, <1>10, <1>12, <1>13 DEF KeyPoolInv, KeyPoolTypeOK

\* The members, the ledger and the processes stay consistent with each other in
\* every interleaving of the calls, the workers' reconciliation, the administrator
\* and Apify, and whenever a call dies: what is pending on an acquisition key is on
\* the active key, a drain waits for all of it, and every call owns its reservation.
THEOREM KeyPoolInvariant == Spec => []KeyPoolInv
<1>1. Init => KeyPoolInv
  BY InitInv
<1>2. KeyPoolInv /\ [Next]_vars => KeyPoolInv'
  BY CallKeeps, RecKeeps, EditKeeps, RequestKeeps, RunEndsKeeps, StutterKeeps DEF Next
<1> QED
  BY <1>1, <1>2, PTL DEF Spec

\* The rows of the pool, of its members and of its ledger have their types, at most
\* one key is dedicated to validation, and the key whose status is active or
\* draining is the one the pool's row names.
THEOREM KeyPoolTypes == Spec => []KeyPoolTypeOK
<1>1. KeyPoolInv => KeyPoolTypeOK
  BY DEF KeyPoolInv
<1> QED
  BY <1>1, KeyPoolInvariant, PTL

\* A paid run that is alive at Apify is unresolved on the ledger, and its key is
\* still in the pool, however many keys, runs, calls and workers there are.
THEOREM RunsNotLost == Spec => []NoLostRun
<1>1. KeyPoolInv => NoLostRun
  BY DEF KeyPoolInv, LedgerInv, RunOK, NoLostRun
<1> QED
  BY <1>1, KeyPoolInvariant, PTL

\* The generation barrier (begin_drain, complete_drain_and_failover): the runs that
\* are alive on acquisition keys are all on one key.
THEOREM SingleKey == Spec => []OneKeyAtATime
<1>1. KeyPoolInv => OneKeyAtATime
  BY DEF KeyPoolInv, LedgerInv, RunOK, OneKeyAtATime
<1> QED
  BY <1>1, KeyPoolInvariant, PTL


-----------------------------------------------------------------------------
\* Who opens a blocked pool

Opens == pool.status = "blocked" /\ pool'.status # "blocked"

\* The transactions on the members, remove_secret excepted, leave a blocked pool
\* blocked or refuse to work on one.
LEMMA MembersLeaveBlocked ==
    ASSUME MembersOK, NEW k, NEW x, NEW y,
           \/ AppendSecret(k) \/ Reorder(x) \/ SetValidationKey(k) \/ MarkSecretRotated(k)
           \/ RecordMemberQuota(k, x) \/ BeginDrain(k, x, y) \/ FailOver
    PROVE  ~Opens
<1>1. pool \in PoolRows
  BY DEF MembersOK
<1>2. Counted.status = pool.status
  BY <1>1, CountedRow
<1> QED
  BY <1>2 DEF Opens, Idle, AppendSecret, Reorder, SetValidationKey, MarkSecretRotated,
     RotationBusy, RecordMemberQuota, BeginDrain, DrainRefused, DrainStarts, FailOver,
     CanFailOver

\* The transactions that put a run in doubt block the pool or leave it alone.
LEMMA DoubtLeavesBlocked ==
    ASSUME MembersOK, NEW r, NEW k,
           \/ ReportStartOutcomeUnknown(r) \/ BlockRunReconciliation(r, k)
           \/ BlockUnregistered
    PROVE  ~Opens
<1>1. \A why \in Reasons : BlockPool(why).status = "blocked"
  <2>1. ASSUME NEW why \in Reasons
        PROVE  BlockPool(why).status = "blocked"
    <3>1. pool \in PoolRows
      BY DEF MembersOK
    <3>2. PICK p : p = [pool EXCEPT !.status = "blocked", !.reason = why]
      OBVIOUS
    <3>3. p \in PoolRows /\ p.status = "blocked"
      BY <3>1, <3>2 DEF PoolRows
    <3> QED
      BY <3>2, <3>3, WrittenRow DEF BlockPool
  <2> QED
    BY <2>1
<1>2. "unknown_start" \in Reasons /\ "reconcile_required" \in Reasons
  BY DEF Reasons
<1>3. \/ pool' = pool \/ pool' = BlockPool("unknown_start")
      \/ pool' = BlockPool("reconcile_required")
  BY DEF ReportStartOutcomeUnknown, BlockRunReconciliation, BlockUnregistered, poolVars
<1> QED
  BY <1>1, <1>2, <1>3 DEF Opens

\* A start that is settled opens the pool when it was the last one in doubt.
LEMMA ConfirmOpens ==
    ASSUME KeyPoolInv, NEW r \in Runs, NEW s \in Terminal, ConfirmUnknownStart(r, s), Opens
    PROVE  UnknownStarts(run') = {}
<1>1. MembersOK /\ run[r].status = "start_outcome_unknown"
  BY DEF KeyPoolInv, KeyPoolTypeOK, ConfirmUnknownStart
<1>2. run[r].key \in Keys
  BY <1>1 DEF KeyPoolInv, LedgerInv, RunOK, Unresolved, Members
<1>3. PICK proof \in SUBSET Keys : pool' = ReleasedBlock(run', proof)
  BY <1>2 DEF ConfirmUnknownStart
<1> QED
  BY <1>1, <1>3, ReleasedStays DEF Opens

\* Only a settled start opens the pool, whichever call makes the step.
LEMMA CallOpens ==
    ASSUME KeyPoolInv, NEW c \in Calls, CallStep(c) \/ Crash(c), Opens
    PROVE  UnknownStarts(run') = {}
<1>1. MembersOK /\ pool' # pool
  BY DEF KeyPoolInv, KeyPoolTypeOK, Opens
<1>2. CASE Salvage(c)
  <2>1. call[c].pc \in Attempt
    BY <1>2 DEF Salvage, At, Attempt
  <2>2. ConfirmUnknownStart(Own(c), "ended") /\ "ended" \in Terminal
    BY <1>1, <1>2, DoubtLeavesBlocked DEF Salvage, Terminal
  <2> QED
    BY <2>1, <2>2, OwnsOne, ConfirmOpens
<1>3. CASE AcquireSpent(c) \/ CallFailOver(c) \/ CredentialFailure(c)
  BY <1>1, <1>3, MembersLeaveBlocked
  DEF AcquireSpent, CallFailOver, CredentialFailure, poolVars
<1>4. CASE LostAnswer(c) \/ Wait(c) \/ Dataset(c)
  BY <1>1, <1>4, DoubtLeavesBlocked DEF LostAnswer, Wait, Dataset, RunOnly, poolVars
<1>5. CASE \/ Acquire(c) \/ AcquireRefused(c) \/ Quota(c) \/ AssertStartable(c) \/ Post(c)
           \/ StartRejected(c) \/ Retry(c) \/ Crash(c)
  BY <1>1, <1>5 DEF Acquire, Reserve, AcquireRefused, Quota, AssertStartable, Post,
     StartRejected, Retry, Crash, RunOnly, poolVars
<1>6. CASE StopRuns(c) \/ Register(c) \/ Abort(c)
  BY <1>1, <1>6 DEF StopRuns, Register, Abort, AbortRun, RunOnly, poolVars
<1> QED
  BY <1>2, <1>3, <1>4, <1>5, <1>6 DEF CallStep

\* ... or whichever worker reconciles the pool.
LEMMA RecOpens ==
    ASSUME KeyPoolInv, NEW w \in Workers, RecStep(w), Opens
    PROVE  UnknownStarts(run') = {}
<1>1. MembersOK /\ pool' # pool
  BY DEF KeyPoolInv, KeyPoolTypeOK, Opens
<1>2. CASE Prove(w)
  <2>1. PICK r \in Runs : ConfirmUnknownStart(r, "start_rejected")
    BY <1>1, <1>2 DEF Prove, InDoubt, ProvedAbsent, poolVars
  <2> QED
    BY <2>1, ConfirmOpens DEF Terminal
<1>3. CASE ReconcileBlocked(w)
  <2>1. pool' = SettledPool /\ run' = run
    BY <1>3 DEF ReconcileBlocked
  <2> QED
    BY <1>1, <2>1, SettledStays DEF Opens
<1>4. CASE ReconcileStarts(w) \/ ReconcileDrain(w)
  BY <1>1, <1>4, DoubtLeavesBlocked DEF ReconcileStarts, ReconcileDrain, poolVars
<1>5. CASE ReconcileFailOver(w) \/ ReconcileQuota(w)
  BY <1>1, <1>5, MembersLeaveBlocked DEF ReconcileFailOver, ReconcileQuota, poolVars
<1>6. CASE ReconcileRegistered(w) \/ ReconcileStop(w)
  BY <1>1, <1>6 DEF ReconcileRegistered, ReconcileStop, AbortRun, RunOnly, poolVars
<1> QED
  BY <1>2, <1>3, <1>4, <1>5, <1>6 DEF RecStep

\* The requests of the administrator open it only where remove_secret writes the
\* status from the members.
LEMMA RequestOpens ==
    ASSUME KeyPoolInv, EditPool \/ CheckKey \/ DeleteKey \/ RotateKey \/ DrainKey, Opens
    PROVE  admin.op = "delete" /\ admin'.op = "none"
<1>1. MembersOK /\ pool' # pool
  BY DEF KeyPoolInv, KeyPoolTypeOK, Opens
<1>2. CASE EditPool \/ DrainKey
  BY <1>1, <1>2, MembersLeaveBlocked DEF EditPool, DrainKey
<1>3. CASE RotateKey
  BY <1>1, <1>3, MembersLeaveBlocked DEF RotateKey, TouchSecret, poolVars
<1>4. CASE CheckKey
  BY <1>1, <1>4 DEF CheckKey, poolVars
<1>5. CASE DeleteKey
  BY <1>5 DEF DeleteKey, Ask
<1> QED
  BY <1>2, <1>3, <1>4, <1>5

\* A pool that a start in doubt has blocked opens again only when every such start
\* on an acquisition key is settled, unless an administrator deletes a key.
THEOREM OpensWhenSettled == Spec => BlockedUntilSettled
<1> DEFINE A == /\ Opens /\ ~(admin.op = "delete" /\ admin'.op = "none")
                => UnknownStarts(run') = {}
<1>1. KeyPoolInv /\ [Next]_vars => A
  <2>1. ASSUME KeyPoolInv, Next, Opens, ~(admin.op = "delete" /\ admin'.op = "none")
        PROVE  UnknownStarts(run') = {}
    <3>1. CASE RunEnds
      BY <2>1, <3>1 DEF RunEnds, Opens
    <3> QED
      BY <2>1, <3>1, CallOpens, RecOpens, RequestOpens DEF Next
  <2>2. ASSUME UNCHANGED vars
        PROVE  ~Opens
    BY <2>2 DEF vars, Opens
  <2> QED
    BY <2>1, <2>2
<1>2. A => [/\ pool.status = "blocked" /\ pool'.status # "blocked"
            /\ ~(admin.op = "delete" /\ admin'.op = "none")
            => UnknownStarts(run') = {}]_vars
  BY DEF Opens
<1> QED
  BY <1>1, <1>2, KeyPoolInvariant, PTL DEF Spec, BlockedUntilSettled
=============================================================================
