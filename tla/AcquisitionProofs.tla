------------------------- MODULE AcquisitionProofs -------------------------
(***************************************************************************)
(* Proofs about shared acquisition, for any number of coordinators,        *)
(* windows, versions and tokens and for any lease, freshness and back-off. *)
(*                                                                         *)
(* Most steps write no table: one lemma covers them.  Most of those that   *)
(* do write one row and take its claim away: Freed covers them.            *)
(***************************************************************************)
EXTENDS SourceAcquisition, TLAPS

\* What the steps of the clients that write no table do: the client keeps its
\* claim and its context, or gives both up.
Local(c) ==
    /\ UNCHANGED <<rows, snaps>>
    /\ \A d \in Clients \ {c} : /\ pc'[d] = pc[d]
                                /\ ctx'[d] = ctx[d]
                                /\ pub'[d] = pub[d]
                                /\ token'[d] = token[d]
    /\ \/ ctx'[c] = ctx[c] /\ token'[c] = token[c]
       \/ token'[c] = NoToken
    /\ pc'[c] \notin {"idle", "loaded"} => ctx'[c] \in Keys
    /\ pc'[c] = "storing" => pub'[c].key \in Keys
    /\ pc'[c] \notin {"fetching", "storing", "failing"} => token'[c] = NoToken

-----------------------------------------------------------------------------
(* Types.                                                                   *)

\* The key of a context for another identity of the source.
LEMMA KeyOfNow ==
    ASSUME NEW k \in Keys, NEW v \in Versions
    PROVE  [k EXCEPT !.id = v] \in Keys
BY DEF Keys

\* The pool generation of a key is a number.
LEMMA PoolOfKey ==
    ASSUME NEW k \in Keys
    PROVE  k.id["pool"] \in Nat
BY DEF Keys, Versions, Parts

\* The rows the operations write.
LEMMA RowTypes ==
    /\ NoRow \in Row
    /\ Idle \in Row
    /\ Idle.token = NoToken
    /\ Idle.there
BY AcquisitionAssumption DEF NoRow, Idle, Row

\* A claimed row.
LEMMA ClaimedRowType ==
    ASSUME NEW r \in Row, NEW t \in Tokens
    PROVE  /\ ClaimedRow(r, t) \in Row
           /\ ClaimedRow(r, t).token = t
           /\ ClaimedRow(r, t).there
BY AcquisitionAssumption DEF ClaimedRow, Row

\* A row after a failed acquisition.
LEMMA FailedRowType ==
    ASSUME NEW r \in Row
    PROVE  /\ Failed(r) \in Row
           /\ Failed(r).token = NoToken
           /\ Failed(r).there
<1> DEFINE n == IF r.failures < MaxFailures THEN r.failures + 1 ELSE MaxFailures
<1>1. n \in 1 .. MaxFailures
  BY AcquisitionAssumption DEF Row
<1>2. Backoff(n) \in Nat
  BY <1>1, CoolingAssumption
<1>3. Failed(r) = [there |-> TRUE, token |-> NoToken, lock |-> 0, retry |-> Backoff(n),
                   failures |-> n]
  BY DEF Failed
<1> HIDE DEF n
<1> QED BY <1>1, <1>2, <1>3 DEF Row

\* A row a tick later.
LEMMA TickedRow ==
    ASSUME NEW r \in Row
    PROVE  LET q == [r EXCEPT !.lock = Less(@), !.retry = Less(@)]
           IN /\ q \in Row
              /\ q.token = r.token
              /\ q.there = r.there
              /\ q.lock > 0 => r.lock > 0
<1>1. Less(r.lock) \in Nat /\ Less(r.retry) \in Nat /\ (Less(r.lock) > 0 => r.lock > 0)
  BY DEF Less, Row
<1>2. PICK q : q = [r EXCEPT !.lock = Less(r.lock)]
  OBVIOUS
<1>3. q \in Row /\ q.token = r.token /\ q.there = r.there /\ q.retry = r.retry
      /\ q.lock = Less(r.lock)
  BY <1>1, <1>2 DEF Row
<1>4. PICK p : p = [q EXCEPT !.retry = Less(q.retry)]
  OBVIOUS
<1>5. p \in Row /\ p.token = r.token /\ p.there = r.there /\ p.lock = Less(r.lock)
  BY <1>1, <1>3, <1>4 DEF Row
<1>6. p = [r EXCEPT !.lock = Less(@), !.retry = Less(@)]
  BY <1>2, <1>3, <1>4 DEF Row
<1> QED BY <1>1, <1>5, <1>6

-----------------------------------------------------------------------------
(* Steps.                                                                   *)

\* Steps that write no table keep the claims and the rows as they should be.
LEMMA LocalStep ==
    ASSUME AcquisitionInv, NEW c \in Clients, Local(c)
    PROVE  ClaimOK' /\ RowsOK'
<1>1. RowsOK'
  BY DEF AcquisitionInv, RowsOK, Local, Live, Fresh, FreshMeansQuiet
<1>2. ClaimOK'
  BY DEF AcquisitionInv, ClaimOK, Local
<1> QED BY <1>1, <1>2

\* The assignments that lead back to the job.
LEMMA LeaveStep ==
    ASSUME AcquisitionTypeOK, NEW c \in Clients, Leave(c)
    PROVE  /\ pc' \in [Clients -> PCs]
           /\ loaded' \in [Clients -> Nat]
           /\ ctx' \in [Clients -> Keys \cup {NoKey}]
           /\ pub' \in [Clients -> [key : Keys \cup {NoKey}, origin : Origins]]
           /\ token' \in [Clients -> Tokens \cup {NoToken}]
           /\ patience' \in [Clients -> Nat]
           /\ \A d \in Clients \ {c} : /\ pc'[d] = pc[d]
                                       /\ ctx'[d] = ctx[d]
                                       /\ pub'[d] = pub[d]
                                       /\ token'[d] = token[d]
           /\ pc'[c] = "loaded"
           /\ token'[c] = NoToken
<1>1. NoPub \in [key : Keys \cup {NoKey}, origin : Origins]
  BY DEF NoPub, Origins
<1> QED BY <1>1 DEF Leave, Goto, AcquisitionTypeOK, PCs

\* A row is released, and perhaps a fresh snapshot written at a row without
\* a claim, by a client that leaves.
LEMMA FreedStep ==
    ASSUME AcquisitionInv, NEW c \in Clients, Leave(c),
           rows' \in [Keys -> Row],
           \A k \in Keys : rows'[k] = rows[k] \/ rows'[k].token = NoToken,
           \A k \in Keys : Fresh(k)' => rows'[k].token = NoToken /\ rows'[k].there,
           \A k \in Keys : ~rows'[k].there => rows'[k].token = NoToken
    PROVE  ClaimOK' /\ RowsOK'
<1>1. ClaimOK'
  <2>1. \A d \in Clients, k \in Keys :
            token'[d] # NoToken /\ rows'[k].token = token'[d] => ctx'[d] = k
    BY LeaveStep DEF AcquisitionInv, ClaimOK
  <2>2. \A d \in Clients : pc'[d] \notin {"idle", "loaded"} => ctx'[d] \in Keys
    BY LeaveStep DEF AcquisitionInv, ClaimOK
  <2>3. \A d \in Clients : pc'[d] = "storing" => pub'[d].key \in Keys
    BY LeaveStep DEF AcquisitionInv, ClaimOK
  <2>4. \A d, e \in Clients : token'[d] = token'[e] /\ token'[d] # NoToken => d = e
    BY LeaveStep DEF AcquisitionInv, ClaimOK
  <2>5. \A d \in Clients :
            pc'[d] \notin {"fetching", "storing", "failing"} => token'[d] = NoToken
    BY LeaveStep DEF AcquisitionInv, ClaimOK
  <2> QED BY <2>1, <2>2, <2>3, <2>4, <2>5 DEF ClaimOK
<1>2. RowsOK'
  <2>1. \A k \in Keys : Live(k)' => Live(k)
    BY DEF Live
  <2>2. \A k, l \in Keys : Live(k)' /\ Live(l)' /\ k.id = l.id => k = l
    BY <2>1 DEF AcquisitionInv, RowsOK
  <2> QED BY <2>2 DEF RowsOK, FreshMeansQuiet
<1> QED BY <1>1, <1>2

-----------------------------------------------------------------------------
(* The invariant.                                                           *)

\* The empty tables satisfy it.
LEMMA InitInv == Init => AcquisitionInv
<1> SUFFICES ASSUME Init PROVE AcquisitionInv
  OBVIOUS
<1>1. current \in Versions
  BY AcquisitionAssumption DEF Init, Versions
<1>2. NoSnap \in Snap /\ NoSnap.fresh = 0
  BY DEF NoSnap, Snap
<1>3. NoPub \in [key : Keys \cup {NoKey}, origin : Origins]
  BY DEF NoPub, Origins
<1>4. AcquisitionTypeOK
  BY <1>1, <1>2, <1>3, RowTypes DEF Init, AcquisitionTypeOK, PCs
<1>5. ClaimOK
  BY DEF Init, ClaimOK
<1>6. NoRow.token = NoToken
  BY DEF NoRow
<1>7. RowsOK
  BY <1>2, <1>6 DEF Init, RowsOK, FreshMeansQuiet, Live, Fresh
<1> QED BY <1>4, <1>5, <1>7 DEF AcquisitionInv

\* Every step keeps it.
LEMMA NextInv == AcquisitionInv /\ [Next]_vars => AcquisitionInv'
<1> SUFFICES ASSUME AcquisitionInv, [Next]_vars PROVE AcquisitionInv'
  OBVIOUS
<1> USE DEF AcquisitionInv
<1>1. ASSUME NEW c \in Clients, StartJob(c) PROVE AcquisitionInv'
  <2>1. Local(c)
    BY <1>1 DEF StartJob, Goto, Local, tables, ClaimOK, AcquisitionTypeOK
  <2>2. current["cfg"] \in Nat
    BY DEF AcquisitionTypeOK, Versions, Parts
  <2>3. AcquisitionTypeOK'
    BY <1>1, <2>2 DEF StartJob, Goto, AcquisitionTypeOK, PCs, tables
  <2> QED BY <2>1, <2>3, LocalStep
<1>2. ASSUME NEW c \in Clients, EndJob(c) PROVE AcquisitionInv'
  <2>1. Local(c)
    BY <1>2 DEF EndJob, Goto, Local, tables, AcquisitionTypeOK
  <2>2. NoPub \in [key : Keys \cup {NoKey}, origin : Origins]
    BY DEF NoPub, Origins
  <2>3. AcquisitionTypeOK'
    BY <1>2, <2>2 DEF EndJob, Goto, AcquisitionTypeOK, PCs, tables
  <2> QED BY <2>1, <2>3, LocalStep
<1>3. ASSUME NEW c \in Clients, NEW k \in Keys, BeginAcquire(c, k) PROVE AcquisitionInv'
  <2>1. pc'[c] \in {"claiming", "looking"} /\ token'[c] = NoToken
    BY <1>3 DEF BeginAcquire, Goto, AcquisitionTypeOK, ClaimOK
  <2>2. Local(c)
    BY <1>3, <2>1 DEF BeginAcquire, Goto, Local, tables, AcquisitionTypeOK
  <2>3. AcquisitionTypeOK'
    BY <1>3, AcquisitionAssumption DEF BeginAcquire, Goto, AcquisitionTypeOK, PCs, tables
  <2> QED BY <2>2, <2>3, LocalStep
<1>4. ASSUME NEW c \in Clients, Leave(c), UNCHANGED <<current, tables>> PROVE AcquisitionInv'
  <2>1. Local(c)
    BY <1>4, LeaveStep DEF Local, tables
  <2>2. AcquisitionTypeOK'
    BY <1>4, LeaveStep DEF AcquisitionTypeOK, tables
  <2> QED BY <2>1, <2>2, LocalStep
<1>5. ASSUME NEW c \in Clients, NEW p \in PCs, pc[c] \notin {"idle", "loaded"},
             p # "storing",
             p \in {"looking", "claiming"} => pc[c] \in {"looking", "claiming"},
             p \notin {"idle", "loaded"},
             Goto(c, p), UNCHANGED <<current, tables, locals>>
      PROVE  AcquisitionInv'
  <2>1. pc'[c] = p /\ \A d \in Clients \ {c} : pc'[d] = pc[d]
    BY <1>5 DEF Goto, AcquisitionTypeOK
  <2>2. p \notin {"fetching", "storing", "failing"} => token[c] = NoToken
    BY <1>5 DEF ClaimOK, PCs
  <2>3. Local(c)
    BY <1>5, <2>1, <2>2 DEF Local, tables, locals, ClaimOK
  <2>4. AcquisitionTypeOK'
    BY <1>5 DEF Goto, AcquisitionTypeOK, tables, locals
  <2> QED BY <2>3, <2>4, LocalStep
<1>6. ASSUME NEW c \in Clients, _load_fresh(c) PROVE AcquisitionInv'
  BY <1>4, <1>6 DEF _load_fresh
<1>7. ASSUME NEW c \in Clients, NothingFresh(c) PROVE AcquisitionInv'
  BY <1>5, <1>7 DEF NothingFresh, PCs
<1>8. ASSUME NEW c \in Clients, Wait(c) PROVE AcquisitionInv'
  <2>1. CASE Leave(c)
    BY <1>4, <1>8, <2>1 DEF Wait
  <2>2. CASE Again(c)
    BY <1>5, <1>8, <2>2 DEF Wait, MustWait, Again, PCs
  <2> QED BY <1>8, <2>1, <2>2 DEF Wait
<1>9. ASSUME NEW c \in Clients, BackOff(c) PROVE AcquisitionInv'
  BY <1>4, <1>9 DEF BackOff
<1>10. ASSUME NEW c \in Clients, FetchFails(c) PROVE AcquisitionInv'
  BY <1>5, <1>10 DEF FetchFails, PCs
<1>11. ASSUME NEW c \in Clients, StoreFails(c) PROVE AcquisitionInv'
  BY <1>5, <1>11 DEF StoreFails, PCs
<1>12. ASSUME NEW c \in Clients, NEW origin \in Origins, FetchReturns(c, origin)
       PROVE  AcquisitionInv'
  <2>1. ctx[c] \in Keys /\ current \in Versions
    BY <1>12 DEF FetchReturns, ClaimOK, AcquisitionTypeOK
  <2>2. PICK k \in Keys : pub' = [pub EXCEPT ![c] = [key |-> k, origin |-> origin]]
    BY <1>12, <2>1, KeyOfNow DEF FetchReturns
  <2>3. Local(c)
    BY SMTT(30), <1>12, <2>1, <2>2 DEF FetchReturns, Goto, Local, tables, AcquisitionTypeOK
  <2>4. pub' \in [Clients -> [key : Keys \cup {NoKey}, origin : Origins]]
    BY <2>2 DEF AcquisitionTypeOK
  <2>5. pc' \in [Clients -> PCs]
    BY <1>12 DEF FetchReturns, Goto, AcquisitionTypeOK, PCs
  <2>6. AcquisitionTypeOK'
    BY <1>12, <2>4, <2>5 DEF FetchReturns, AcquisitionTypeOK, tables
  <2> QED BY <2>3, <2>6, LocalStep
<1>13. ASSUME NEW c \in Clients, _try_claim(c) PROVE AcquisitionInv'
  <2>1. PICK t \in Tokens : /\ FreshToken(t)
                            /\ rows' = [rows EXCEPT ![ctx[c]] = ClaimedRow(@, t)]
                            /\ token' = [token EXCEPT ![c] = t]
    BY <1>13 DEF _try_claim
  <2>2. ctx[c] \in Keys /\ ~Fresh(ctx[c]) /\ ~Claimed(ctx[c])
    BY <1>13 DEF _try_claim, MustWait, ClaimOK
  <2>3. PICK q : q = ClaimedRow(rows[ctx[c]], t)
    OBVIOUS
  <2>4. q \in Row /\ q.token = t /\ q.there
    BY <2>2, <2>3, ClaimedRowType DEF AcquisitionTypeOK
  <2>5. rows' = [rows EXCEPT ![ctx[c]] = q]
    BY <2>1, <2>3
  <2>6. pc' = [pc EXCEPT ![c] = "fetching"] /\ UNCHANGED <<current, snaps, loaded, ctx, pub, patience>>
    BY <1>13 DEF _try_claim, Goto
  <2>7. AcquisitionTypeOK'
    BY <2>1, <2>2, <2>4, <2>5, <2>6 DEF AcquisitionTypeOK, PCs
  <2>8. ClaimOK'
    <3>1. \A k \in Keys : rows[k].token # t
      BY <2>1 DEF FreshToken
    <3>2. \A d \in Clients : token[d] # t
      BY <2>1 DEF FreshToken
    <3>3. \A d \in Clients, k \in Keys :
              token'[d] # NoToken /\ rows'[k].token = token'[d] => ctx'[d] = k
      BY <2>1, <2>2, <2>4, <2>5, <2>6, <3>1, <3>2 DEF ClaimOK, AcquisitionTypeOK
    <3>4. \A d, e \in Clients : token'[d] = token'[e] /\ token'[d] # NoToken => d = e
      BY <2>1, <3>2 DEF ClaimOK, AcquisitionTypeOK
    <3> QED BY <2>1, <2>2, <2>6, <3>3, <3>4 DEF ClaimOK, AcquisitionTypeOK
  <2>9. RowsOK'
    <3>1. \A k \in Keys \ {ctx[c]} : Live(k)' <=> Live(k)
      BY <2>2, <2>5 DEF Live, AcquisitionTypeOK
    <3>2. \A k \in Keys \ {ctx[c]} : Live(k) => k.id # ctx[c].id
      BY <2>2 DEF Claimed
    <3>3. \A k, l \in Keys : Live(k)' /\ Live(l)' /\ k.id = l.id => k = l
      BY <2>2, <3>1, <3>2 DEF RowsOK
    <3>4. \A k \in Keys : Fresh(k)' <=> Fresh(k)
      BY <2>6 DEF Fresh
    <3>5. \A k \in Keys : Fresh(k)' => rows'[k].token = NoToken
      BY <2>2, <2>5, <3>4 DEF RowsOK, FreshMeansQuiet, AcquisitionTypeOK
    <3>6. \A k \in Keys : ~rows'[k].there => rows'[k].token = NoToken /\ ~Fresh(k)'
      BY <2>2, <2>4, <2>5, <3>4 DEF RowsOK, AcquisitionTypeOK
    <3> QED BY <3>3, <3>5, <3>6 DEF RowsOK, FreshMeansQuiet
  <2> QED BY <2>7, <2>8, <2>9
<1>14. ASSUME NEW c \in Clients, _store_success(c) PROVE AcquisitionInv'
  <2>1. /\ ctx[c] \in Keys /\ pub[c].key \in Keys
        /\ rows[ctx[c]].token # NoToken
        /\ Leave(c)
    BY <1>14 DEF _store_success, Storable, Owns, ClaimOK
  <2>2. rows' = [rows EXCEPT ![ctx[c]] = NoRow, ![pub[c].key] = Idle]
    BY <1>14 DEF _store_success
  <2>3. PICK s \in Snap : snaps' = [snaps EXCEPT ![pub[c].key] = s]
    <3>1. PICK ttl \in Ttls : snaps' = [snaps EXCEPT ![pub[c].key] =
              [fresh |-> ttl, cfg |-> loaded[c], pool |-> ctx[c].id["pool"]]]
      BY <1>14 DEF _store_success
    <3>2. ttl \in Nat /\ loaded[c] \in Nat /\ ctx[c].id["pool"] \in Nat
      BY <2>1, PoolOfKey, AcquisitionAssumption DEF AcquisitionTypeOK
    <3> QED BY <3>1, <3>2 DEF Snap
  <2>4. /\ rows' \in [Keys -> Row]
        /\ rows'[pub[c].key] = Idle
        /\ pub[c].key # ctx[c] => rows'[ctx[c]] = NoRow
        /\ \A k \in Keys \ {ctx[c], pub[c].key} : rows'[k] = rows[k]
    BY <2>1, <2>2, RowTypes DEF AcquisitionTypeOK
  <2>5. \A k \in Keys \ {pub[c].key} : Fresh(k)' <=> Fresh(k)
    BY <2>1, <2>3 DEF Fresh, AcquisitionTypeOK
  <2>6. ~Fresh(ctx[c])
    BY <2>1 DEF RowsOK, FreshMeansQuiet
  <2>7. NoRow.token = NoToken
    BY DEF NoRow
  <2>8. \A k \in Keys : rows'[k] = rows[k] \/ rows'[k].token = NoToken
    BY <2>4, <2>7, RowTypes
  <2>9. \A k \in Keys : Fresh(k)' => rows'[k].token = NoToken /\ rows'[k].there
    <3>1. ASSUME NEW k \in Keys, Fresh(k)' PROVE rows'[k].token = NoToken /\ rows'[k].there
      <4>1. CASE k = pub[c].key
        BY <2>4, <4>1, RowTypes
      <4>2. CASE k # pub[c].key
        <5>1. Fresh(k) /\ k # ctx[c]
          BY <2>5, <2>6, <3>1, <4>2
        <5>2. rows'[k] = rows[k]
          BY <2>4, <4>2, <5>1
        <5> QED BY <5>1, <5>2 DEF RowsOK, FreshMeansQuiet
      <4> QED BY <4>1, <4>2
    <3> QED BY <3>1
  <2>10. \A k \in Keys : ~rows'[k].there => rows'[k].token = NoToken
    BY <2>4, <2>7, RowTypes DEF RowsOK
  <2>11. ClaimOK' /\ RowsOK'
    BY <2>1, <2>4, <2>8, <2>9, <2>10, FreedStep
  <2>12. AcquisitionTypeOK'
    BY <1>14, <2>1, <2>3, <2>4, LeaveStep DEF _store_success, AcquisitionTypeOK
  <2> QED BY <2>11, <2>12
<1>15. ASSUME NEW c \in Clients, NEW q \in Row, Owns(c), ctx[c] \in Keys,
              q.token = NoToken, q.there,
              rows' = [rows EXCEPT ![ctx[c]] = q],
              Leave(c), UNCHANGED <<current, snaps>>
       PROVE  AcquisitionInv'
  <2>1. rows' \in [Keys -> Row]
    BY <1>15 DEF AcquisitionTypeOK
  <2>2. \A k \in Keys : rows'[k] = rows[k] \/ rows'[k].token = NoToken
    BY <1>15 DEF AcquisitionTypeOK
  <2>3. \A k \in Keys : Fresh(k)' => rows'[k].token = NoToken /\ rows'[k].there
    BY <1>15 DEF AcquisitionTypeOK, RowsOK, FreshMeansQuiet, Fresh
  <2>4. \A k \in Keys : ~rows'[k].there => rows'[k].token = NoToken
    BY <1>15 DEF AcquisitionTypeOK, RowsOK
  <2>5. ClaimOK' /\ RowsOK'
    BY <1>15, <2>1, <2>2, <2>3, <2>4, FreedStep
  <2>6. AcquisitionTypeOK'
    BY <1>15, <2>1, LeaveStep DEF AcquisitionTypeOK
  <2> QED BY <2>5, <2>6
<1>16. ASSUME NEW c \in Clients, _record_failure(c) PROVE AcquisitionInv'
  <2>1. ctx[c] \in Keys /\ rows[ctx[c]] \in Row
    BY <1>16 DEF _record_failure, ClaimOK, AcquisitionTypeOK
  <2>2. CASE ~Owns(c)
    BY <1>4, <1>16, <2>2 DEF _record_failure, tables
  <2>3. CASE Owns(c)
    <3>1. PICK q \in Row : q = Failed(rows[ctx[c]]) /\ q.token = NoToken /\ q.there
      BY <2>1, FailedRowType
    <3>2. rows' = [rows EXCEPT ![ctx[c]] = q] /\ Leave(c) /\ UNCHANGED <<current, snaps>>
      BY <1>16, <2>3, <3>1 DEF _record_failure
    <3> QED BY <1>15, <2>1, <2>3, <3>1, <3>2
  <2> QED BY <2>2, <2>3
<1>17. ASSUME NEW c \in Clients, _release_probe(c) PROVE AcquisitionInv'
  <2>1. ctx[c] \in Keys
    BY <1>17 DEF _release_probe, ClaimOK
  <2>2. CASE ~Owns(c)
    BY <1>4, <1>17, <2>2 DEF _release_probe, tables
  <2>3. CASE Owns(c)
    <3>1. rows' = [rows EXCEPT ![ctx[c]] = Idle] /\ Leave(c) /\ UNCHANGED <<current, snaps>>
      BY <1>17, <2>3 DEF _release_probe
    <3> QED BY <1>15, <2>1, <2>3, <3>1, RowTypes
  <2> QED BY <2>2, <2>3
<1>18. ASSUME NEW p \in Parts, ChangeSource(p) PROVE AcquisitionInv'
  <2>1. current' \in Versions
    <3>1. current \in [Parts -> 0 .. MaxVersion] /\ \A g \in Parts \ Changes : current[g] = 0
      BY DEF AcquisitionTypeOK, Versions
    <3>2. current[p] + 1 \in 0 .. MaxVersion
      BY <1>18, <3>1, AcquisitionAssumption DEF ChangeSource
    <3>3. current' \in [Parts -> 0 .. MaxVersion] /\ \A g \in Parts \ Changes : current'[g] = 0
      BY <1>18, <3>1, <3>2 DEF ChangeSource
    <3> QED BY <3>3 DEF Versions
  <2>2. AcquisitionTypeOK'
    BY <1>18, <2>1 DEF ChangeSource, AcquisitionTypeOK, tables, locals
  <2>3. ClaimOK' /\ RowsOK'
    BY <1>18 DEF ChangeSource, tables, locals, ClaimOK, RowsOK, FreshMeansQuiet, Fresh, Live
  <2> QED BY <2>2, <2>3
<1>19. ASSUME Time PROVE AcquisitionInv'
  <2>1. \A k \in Keys : /\ rows'[k] \in Row
                        /\ rows'[k].token = rows[k].token
                        /\ rows'[k].there = rows[k].there
                        /\ rows'[k].lock > 0 => rows[k].lock > 0
    BY <1>19, TickedRow DEF Time, AcquisitionTypeOK
  <2>2. \A k \in Keys : snaps'[k] \in Snap /\ (snaps'[k].fresh > 0 => snaps[k].fresh > 0)
    <3>1. ASSUME NEW k \in Keys
          PROVE  snaps'[k] \in Snap /\ (snaps'[k].fresh > 0 => snaps[k].fresh > 0)
      <4>1. snaps'[k] = [snaps[k] EXCEPT !.fresh = Less(snaps[k].fresh)] /\ snaps[k] \in Snap
        BY <1>19 DEF Time, AcquisitionTypeOK
      <4>2. Less(snaps[k].fresh) \in Nat /\ (Less(snaps[k].fresh) > 0 => snaps[k].fresh > 0)
        BY <4>1 DEF Less, Snap
      <4> QED BY <4>1, <4>2 DEF Snap
    <3> QED BY <3>1
  <2>3. patience' \in [Clients -> Nat]
    <3>1. \A d \in Clients : Less(patience[d]) \in Nat
      BY DEF Less, AcquisitionTypeOK
    <3> QED BY <1>19, <3>1 DEF Time
  <2>4. rows' \in [Keys -> Row]
    BY <1>19, <2>1 DEF Time
  <2>5. snaps' \in [Keys -> Snap]
    BY <1>19, <2>2 DEF Time
  <2>6. AcquisitionTypeOK'
    BY <1>19, <2>3, <2>4, <2>5 DEF Time, AcquisitionTypeOK
  <2>7. ClaimOK'
    BY <1>19, <2>1 DEF Time, ClaimOK
  <2>8. RowsOK'
    <3>1. \A k \in Keys : (Live(k)' => Live(k)) /\ (Fresh(k)' => Fresh(k))
      BY <2>1, <2>2 DEF Live, Fresh
    <3>2. \A k, l \in Keys : Live(k)' /\ Live(l)' /\ k.id = l.id => k = l
      BY <3>1 DEF RowsOK
    <3>3. \A k \in Keys : Fresh(k)' => rows'[k].token = NoToken
      BY <2>1, <3>1 DEF RowsOK, FreshMeansQuiet
    <3>4. \A k \in Keys : ~rows'[k].there => rows'[k].token = NoToken /\ ~Fresh(k)'
      BY <2>1, <3>1 DEF RowsOK
    <3> QED BY <3>2, <3>3, <3>4 DEF RowsOK, FreshMeansQuiet
  <2> QED BY <2>6, <2>7, <2>8
<1>20. CASE UNCHANGED vars
  <2>1. AcquisitionTypeOK'
    BY <1>20 DEF vars, tables, locals, AcquisitionTypeOK
  <2>2. ClaimOK' /\ RowsOK'
    BY <1>20 DEF vars, tables, locals, ClaimOK, RowsOK, FreshMeansQuiet, Fresh, Live
  <2> QED BY <2>1, <2>2
<1>21. ASSUME NEW c \in Clients, Acquire(c) PROVE AcquisitionInv'
  BY <1>6, <1>7, <1>8, <1>9, <1>10, <1>11, <1>12, <1>13, <1>14, <1>16, <1>17, <1>21
  DEF Acquire
<1> QED BY <1>1, <1>2, <1>3, <1>18, <1>19, <1>20, <1>21 DEF Next

\* The rows, the snapshots and the coordinators are always in one of the
\* combinations the invariant allows.
THEOREM AcquisitionInvariant == Spec => []AcquisitionInv
BY InitInv, NextInv, PTL DEF Spec

\* Two users' jobs never fetch one configuration of the source at the same
\* time under live claims (_try_claim).
THEOREM FetchedOnce == Spec => []SingleFlight
<1>1. AcquisitionInv => SingleFlight
  <2> SUFFICES ASSUME AcquisitionInv,
                      NEW c \in Clients, NEW d \in Clients,
                      Owns(c), Live(ctx[c]), Owns(d), Live(ctx[d]), ctx[c].id = ctx[d].id
               PROVE  c = d
    BY DEF SingleFlight
  <2>1. ctx[c] = ctx[d]
    BY DEF Owns, AcquisitionInv, RowsOK
  <2>2. token[c] = token[d] /\ token[c] # NoToken
    BY <2>1 DEF Owns
  <2> QED BY <2>2 DEF AcquisitionInv, ClaimOK
<1> QED BY <1>1, AcquisitionInvariant, PTL

\* Nobody has a claim on a key whose snapshot is fresh (_try_claim looks
\* again under the write lock, _store_success releases what it publishes).
THEOREM NoClaimOnFresh == Spec => []FreshMeansQuiet
<1>1. AcquisitionInv => FreshMeansQuiet
  BY DEF AcquisitionInv, RowsOK
<1> QED BY <1>1, AcquisitionInvariant, PTL

\* No result is published over a fresh snapshot (_store_success compares the
\* token and refuses a key that has a row already).
THEOREM NeverPublishedTwice == Spec => PublishesOnce
<1>1. AcquisitionInv => \A c \in Clients : _store_success(c) => ~Fresh(pub[c].key)
  <2> SUFFICES ASSUME AcquisitionInv, NEW c \in Clients, _store_success(c)
               PROVE  ~Fresh(pub[c].key)
    OBVIOUS
  <2>1. Owns(c) /\ Movable(c) /\ pub[c].key \in Keys
    BY DEF _store_success, Storable, AcquisitionInv, ClaimOK
  <2>2. CASE pub[c].key = ctx[c]
    BY <2>1, <2>2 DEF Owns, AcquisitionInv, RowsOK, FreshMeansQuiet
  <2>3. CASE ~rows[pub[c].key].there
    BY <2>1, <2>3 DEF AcquisitionInv, RowsOK
  <2> QED BY <2>1, <2>2, <2>3 DEF Movable
<1> QED BY <1>1, AcquisitionInvariant, PTL DEF PublishesOnce
============================================================================
