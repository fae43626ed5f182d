--------------------------- MODULE JobQueueProofs ---------------------------
(***************************************************************************)
(* Proofs about the job queue, for any number of jobs, users, workers and  *)
(* tokens.  Every operation but creation, retry and claim is "quiet": it   *)
(* only releases claims and takes rows out of the active ones.  One lemma  *)
(* shows that quiet steps keep the invariant, and one lemma per row        *)
(* transformation shows that it is quiet.                                  *)
(***************************************************************************)
EXTENDS JobQueue, TLAPS

\* Row q may replace row r in a quiet step.
Quiet(r, q) ==
    /\ RowOK(q)
    /\ q.token \in {NoToken, r.token}
    /\ q.token # NoToken => q.worker = r.worker
    /\ q.status \in Active => /\ r.status \in Active
                              /\ q.kind = r.kind
                              /\ q.user = r.user
                              /\ q.sub \in {r.sub, NoSub}

-----------------------------------------------------------------------------
(* Row transformations.                                                     *)

\* Assigning a value of its type to a field keeps the type of a row.
LEMMA SetField ==
    ASSUME NEW r \in Row
    PROVE  /\ \A x \in Workers \cup {NoWorker} : [r EXCEPT !.worker = x] \in Row
           /\ \A x \in Tokens \cup {NoToken} : [r EXCEPT !.token = x] \in Row
           /\ \A x \in Statuses : [r EXCEPT !.status = x] \in Row
           /\ \A x \in Errors : [r EXCEPT !.error = x] \in Row
           /\ \A x \in Kinds : [r EXCEPT !.kind = x] \in Row
           /\ \A x \in BOOLEAN : [r EXCEPT !.stop = x] \in Row
           /\ \A x \in Subscriptions \cup {NoSub} : [r EXCEPT !.sub = x] \in Row
BY DEF Row

\* The same for the counters.
LEMMA SetCounter ==
    ASSUME NEW r \in Row, NEW x \in Nat
    PROVE  /\ [r EXCEPT !.delay = x] \in Row
           /\ [r EXCEPT !.attempts = x] \in Row
BY DEF Row

\* The same for the lock.
LEMMA SetLock ==
    ASSUME NEW r \in Row, NEW x \in Int
    PROVE  [r EXCEPT !.lock = x] \in Row
BY DEF Row

\* A row that is left alone is quiet.
LEMMA QuietSame ==
    ASSUME NEW r \in Row, RowOK(r)
    PROVE  Quiet(r, r)
BY DEF Quiet

\* Releasing a claim keeps the row's type and touches the claim fields only.
LEMMA ReleasedRow ==
    ASSUME NEW r \in Row
    PROVE  /\ Released(r) \in Row
           /\ Released(r).token = NoToken
           /\ Released(r).status = r.status
           /\ Released(r).attempts = r.attempts
           /\ Released(r).max = r.max
           /\ Released(r).kind = r.kind
           /\ Released(r).source = r.source
           /\ Released(r).user = r.user
           /\ Released(r).sub = r.sub
<1>1. PICK r1 \in Row : r1 = [r EXCEPT !.worker = NoWorker]
  BY SetField
<1>2. PICK r2 \in Row : r2 = [r1 EXCEPT !.token = NoToken]
  BY SetField
<1>3. PICK r3 \in Row : r3 = [r2 EXCEPT !.lock = 0]
  <2>1. [r2 EXCEPT !.lock = 0] \in Row
    BY SetLock
  <2> QED BY <2>1
<1>4. Released(r) = r3
  BY <1>1, <1>2, <1>3, Zenon DEF Released
<1> QED
  BY <1>1, <1>2, <1>3, <1>4 DEF Row

\* A cancelled row is terminal and has no claim.
LEMMA QuietCancelled ==
    ASSUME NEW r \in Row, RowOK(r), NEW e \in Errors,
           r.status \notin {"absent", "deleted"}
    PROVE  Quiet(r, Cancelled(r, e))
<1>1. PICK q \in Row : q = Released(r)
  BY ReleasedRow
<1>2. PICK r1 \in Row : r1 = [q EXCEPT !.status = "cancelled"]
  BY SetField DEF Statuses, Terminal
<1>3. PICK r2 \in Row : r2 = [r1 EXCEPT !.stop = TRUE]
  BY SetField
<1>4. PICK r3 \in Row : r3 = [r2 EXCEPT !.error = e]
  BY SetField
<1>5. Cancelled(r, e) = r3
  BY <1>1, <1>2, <1>3, <1>4, Zenon DEF Cancelled
<1>6. /\ r3.status = "cancelled" /\ r3.token = NoToken
      /\ r3.attempts = r.attempts /\ r3.max = r.max
      /\ r3.kind = r.kind /\ r3.sub = r.sub /\ r3.source = r.source
  BY <1>1, <1>2, <1>3, <1>4, ReleasedRow DEF Row
<1> QED
  BY <1>5, <1>6 DEF Quiet, RowOK, Active

\* A row that is not in the table satisfies the row invariant.
LEMMA NoRowOK ==
    ASSUME NEW status \in {"absent", "deleted"}
    PROVE  /\ NoRow(status) \in Row /\ RowOK(NoRow(status))
           /\ NoRow(status).status = status
           /\ NoRow(status).token = NoToken
           /\ NoRow(status).attempts = 0
           /\ NoRow(status).max = 1
           /\ NoRow(status).sub = NoSub
<1>1. PICK q \in Row : q = NewRow("source_test", NoUser, NoSource, NoSub, FALSE, 0, 1)
  <2>1. NewRow("source_test", NoUser, NoSource, NoSub, FALSE, 0, 1) \in Row
    BY DEF NewRow, Row, Statuses, Active, Kinds, Errors
  <2> QED BY <2>1
<1>2. PICK r1 \in Row : r1 = [q EXCEPT !.status = status]
  BY SetField DEF Statuses
<1>3. NoRow(status) = r1
  BY <1>1, <1>2, Zenon DEF NoRow
<1>4. /\ r1.status = status /\ r1.token = NoToken
      /\ r1.attempts = 0 /\ r1.max = 1 /\ r1.sub = NoSub
  BY <1>1, <1>2 DEF NewRow, Row
<1> QED
  BY <1>3, <1>4 DEF RowOK

\* Deleting a row is quiet.
LEMMA QuietDeleted ==
    ASSUME NEW r \in Row, RowOK(r)
    PROVE  Quiet(r, Deleted(r))
<1>1. PICK q \in Row : q = NoRow("deleted")
  BY NoRowOK
<1>2. PICK r1 \in Row : r1 = [q EXCEPT !.kind = r.kind]
  <2>1. r.kind \in Kinds BY DEF Row
  <2> QED BY <2>1, SetField
<1>3. /\ r1.status = "deleted" /\ r1.token = NoToken /\ r1.attempts = 0
      /\ r1.max = 1 /\ r1.sub = NoSub
  BY <1>1, <1>2, NoRowOK DEF Row
<1>4. Deleted(r) = r1
  BY <1>1, <1>2, Zenon DEF Deleted
<1> QED
  BY <1>3, <1>4 DEF Quiet, RowOK, Active

\* The row of a job that ended with a result.
LEMMA QuietEnded ==
    ASSUME NEW r \in Row, RowOK(r), r.status = "running",
           NEW s \in Terminal, NEW e \in Errors
    PROVE  Quiet(r, Ended(r, s, e))
<1>1. PICK q \in Row : q = Released(r)
  BY ReleasedRow
<1>2. PICK r1 \in Row : r1 = [q EXCEPT !.status = s]
  BY SetField DEF Statuses
<1>3. PICK r2 \in Row : r2 = [r1 EXCEPT !.error = e]
  BY SetField
<1>4. Ended(r, s, e) = r2
  BY <1>1, <1>2, <1>3, Zenon DEF Ended
<1>5. /\ r2.status = s /\ r2.token = NoToken
      /\ r2.attempts = r.attempts /\ r2.max = r.max
      /\ r2.kind = r.kind /\ r2.sub = r.sub /\ r2.source = r.source
  BY <1>1, <1>2, <1>3, ReleasedRow DEF Row
<1> QED
  BY <1>4, <1>5 DEF Quiet, RowOK, Active, Terminal

\* A job is put back with an attempt left to spend, whoever puts it back: the
\* counter may be lowered but not raised.
LEMMA PutBackRow ==
    ASSUME NEW r \in Row, NEW e \in Errors, NEW d \in Nat, NEW a \in Nat
    PROVE  /\ PutBack(r, e, d, a) \in Row
           /\ PutBack(r, e, d, a).status = "queued"
           /\ PutBack(r, e, d, a).token = NoToken
           /\ PutBack(r, e, d, a).attempts = a
           /\ PutBack(r, e, d, a).max = r.max
           /\ PutBack(r, e, d, a).kind = r.kind
           /\ PutBack(r, e, d, a).source = r.source
           /\ PutBack(r, e, d, a).user = r.user
           /\ PutBack(r, e, d, a).sub = r.sub
<1>1. PICK q \in Row : q = Released(r)
  BY ReleasedRow
<1>2. PICK r1 \in Row : r1 = [q EXCEPT !.status = "queued"]
  BY SetField DEF Statuses, Active
<1>3. PICK r2 \in Row : r2 = [r1 EXCEPT !.error = e]
  BY SetField
<1>4. PICK r3 \in Row : r3 = [r2 EXCEPT !.delay = d]
  BY SetCounter
<1>5. PICK r4 \in Row : r4 = [r3 EXCEPT !.attempts = a]
  BY SetCounter
<1>6. PutBack(r, e, d, a) = r4
  BY <1>1, <1>2, <1>3, <1>4, <1>5, Zenon DEF PutBack
<1>7. /\ r4.status = "queued" /\ r4.token = NoToken
      /\ r4.attempts = a /\ r4.max = r.max
      /\ r4.kind = r.kind /\ r4.user = r.user /\ r4.sub = r.sub
      /\ r4.source = r.source
  BY <1>1, <1>2, <1>3, <1>4, <1>5, ReleasedRow DEF Row
<1> QED
  BY <1>6, <1>7

\* Putting a running job back with an attempt left is quiet.
LEMMA QuietPutBack ==
    ASSUME NEW r \in Row, RowOK(r), r.status = "running", NEW e \in Errors,
           NEW d \in Nat, NEW a \in Nat, a < r.max
    PROVE  Quiet(r, PutBack(r, e, d, a))
<1>1. PICK q \in Row : q = PutBack(r, e, d, a)
  BY PutBackRow
<1>2. /\ q.status = "queued" /\ q.token = NoToken
      /\ q.attempts = a /\ q.max = r.max
      /\ q.kind = r.kind /\ q.user = r.user /\ q.sub = r.sub
      /\ q.source = r.source
  BY <1>1, PutBackRow
<1>3. r.max \in Nat /\ r.max \in AttemptLimits
  BY DEF Row, RowOK
<1>4. RowOK(q)
  BY <1>2, <1>3 DEF RowOK
<1> QED
  BY <1>1, <1>2, <1>4 DEF Quiet, Active

\* The stop mark, a renewed lease, a forgotten subscription and the passing
\* of time leave claim, budget and activity of a row as they are.
LEMMA QuietMarked ==
    ASSUME NEW r \in Row, RowOK(r)
    PROVE  /\ Quiet(r, [r EXCEPT !.stop = TRUE])
           /\ \A n \in Int : Quiet(r, [r EXCEPT !.lock = n])
           /\ Quiet(r, [r EXCEPT !.sub = NoSub])
           /\ \A n \in Int, d \in Nat : Quiet(r, [r EXCEPT !.lock = n, !.delay = d])
<1> DEFINE Like(q) == /\ q.status = r.status /\ q.token = r.token
                      /\ q.worker = r.worker
                      /\ q.attempts = r.attempts /\ q.max = r.max
                      /\ q.kind = r.kind /\ q.user = r.user
                      /\ q.source = r.source
                      /\ q.sub \in {r.sub, NoSub}
<1>1. ASSUME NEW q \in Row, Like(q)
      PROVE  Quiet(r, q)
  BY <1>1 DEF Quiet, RowOK
<1>2. Quiet(r, [r EXCEPT !.stop = TRUE])
  <2>1. PICK q \in Row : q = [r EXCEPT !.stop = TRUE]
    BY SetField
  <2>2. Like(q)
    BY <2>1 DEF Row
  <2> QED BY <1>1, <2>1, <2>2
<1>3. ASSUME NEW n \in Int
      PROVE  Quiet(r, [r EXCEPT !.lock = n])
  <2>1. PICK q \in Row : q = [r EXCEPT !.lock = n]
    BY SetLock
  <2>2. Like(q)
    BY <2>1 DEF Row
  <2> QED BY <1>1, <2>1, <2>2
<1>4. Quiet(r, [r EXCEPT !.sub = NoSub])
  <2>1. PICK q \in Row : q = [r EXCEPT !.sub = NoSub]
    BY SetField
  <2>2. Like(q)
    BY <2>1 DEF Row
  <2> QED BY <1>1, <2>1, <2>2
<1>5. ASSUME NEW n \in Int, NEW d \in Nat
      PROVE  Quiet(r, [r EXCEPT !.lock = n, !.delay = d])
  <2>1. PICK q \in Row : q = [r EXCEPT !.lock = n]
    BY SetLock
  <2>2. PICK q2 \in Row : q2 = [q EXCEPT !.delay = d]
    BY SetCounter
  <2>3. q2 = [r EXCEPT !.lock = n, !.delay = d]
    BY <2>1, <2>2, Zenon
  <2>4. Like(q2)
    BY <2>1, <2>2 DEF Row
  <2> QED BY <1>1, <2>3, <2>4
<1> QED
  BY <1>2, <1>3, <1>4, <1>5

-----------------------------------------------------------------------------
(* Quiet steps.                                                             *)

\* A step in which every row changes quietly and every worker keeps its claim
\* or lets it go preserves the invariant.
LEMMA QuietStep ==
    ASSUME QueueInv,
           jobs' \in [JobIds -> Row],
           \A j \in JobIds : Quiet(jobs[j], jobs'[j]),
           held' \in [Workers -> [job : 0 .. MaxJobs, token : Tokens \cup {NoToken}]],
           \A w \in Workers : held'[w] \in {held[w], NoHold}
    PROVE  QueueInv'
<1>1. \A j \in JobIds : RowOK(jobs'[j])
  BY DEF Quiet
<1>2. \A w \in Workers : HoldOK(held'[w])
  BY DEF QueueInv, HoldOK
<1>3. TokensDistinct'
  <2>1. ASSUME NEW i \in JobIds, NEW j \in JobIds,
               jobs'[i].token = jobs'[j].token, jobs'[i].token # NoToken
        PROVE  i = j
    BY <2>1 DEF QueueInv, TokensDistinct, Quiet
  <2>2. ASSUME NEW w \in Workers, NEW j \in JobIds,
               held'[w] # NoHold, jobs'[j].token = held'[w].token
        PROVE  j = held'[w].job /\ jobs'[j].worker = w
    <3>1. held'[w] = held[w] /\ held[w].token \in Tokens
      BY <2>2 DEF QueueInv, HoldOK
    <3>2. jobs'[j].token # NoToken
      BY <2>2, <3>1, KeyAssumption
    <3>3. jobs[j].token = held[w].token /\ jobs'[j].worker = jobs[j].worker
      BY <2>2, <3>1, <3>2 DEF Quiet
    <3> QED
      BY <2>2, <3>1, <3>3 DEF QueueInv, TokensDistinct
  <2> QED
    BY <2>1, <2>2 DEF TokensDistinct
<1>4. OneActiveRefresh'
  BY DEF QueueInv, OneActiveRefresh, ActiveRefresh, Quiet
<1>5. OneActiveFetch'
  BY KeyAssumption DEF QueueInv, OneActiveFetch, ActiveFetch, Quiet
<1> QED
  BY <1>1, <1>2, <1>3, <1>4, <1>5 DEF QueueInv

\* The same, for a step that changes the row of one job.
LEMMA QuietOne ==
    ASSUME QueueInv, NEW j \in JobIds, NEW q, Quiet(jobs[j], q),
           jobs' = [jobs EXCEPT ![j] = q],
           held' \in [Workers -> [job : 0 .. MaxJobs, token : Tokens \cup {NoToken}]],
           \A w \in Workers : held'[w] \in {held[w], NoHold}
    PROVE  QueueInv'
<1>1. q \in Row
  BY DEF Quiet, RowOK
<1>2. jobs' \in [JobIds -> Row]
  BY <1>1 DEF QueueInv
<1>3. \A i \in JobIds : Quiet(jobs[i], jobs'[i])
  BY QuietSame DEF QueueInv
<1> QED
  BY <1>2, <1>3, QuietStep

\* A worker that lets its claim go.
LEMMA LettingGo ==
    ASSUME QueueInv, NEW w \in Workers, LetGo(w)
    PROVE  /\ held' \in [Workers -> [job : 0 .. MaxJobs, token : Tokens \cup {NoToken}]]
           /\ \A v \in Workers : held'[v] \in {held[v], NoHold}
BY BoundsAssumption DEF QueueInv, LetGo, NoHold

\* Workers that keep what they hold.
LEMMA HoldingOn ==
    ASSUME QueueInv, UNCHANGED held
    PROVE  /\ held' \in [Workers -> [job : 0 .. MaxJobs, token : Tokens \cup {NoToken}]]
           /\ \A v \in Workers : held'[v] \in {held[v], NoHold}
BY DEF QueueInv

-----------------------------------------------------------------------------
(* Steps that bring a row to life.                                          *)

\* A row becomes active: created or retried, when no other row of its key is.
LEMMA Activation ==
    ASSUME QueueInv, NEW j \in JobIds, NEW q \in Row, RowOK(q),
           q.status = "queued", q.token = NoToken,
           q.kind = "user_feed_refresh" => ActiveRefresh(q.user) = {},
           q.kind = "source_fetch" /\ q.sub # NoSub => ActiveFetch(q.sub) = {},
           jobs[j].status \notin Active,
           jobs' = [jobs EXCEPT ![j] = q], UNCHANGED held
    PROVE  QueueInv'
<1>1. /\ jobs' \in [JobIds -> Row]
      /\ jobs'[j] = q
      /\ \A i \in JobIds \ {j} : jobs'[i] = jobs[i]
  BY DEF QueueInv
<1>2. \A i \in JobIds : RowOK(jobs'[i])
  BY <1>1 DEF QueueInv
<1>3. \A w \in Workers : HoldOK(held'[w])
  BY DEF QueueInv
<1>4. TokensDistinct'
  <2>1. ASSUME NEW i \in JobIds, NEW k \in JobIds,
               jobs'[i].token = jobs'[k].token, jobs'[i].token # NoToken
        PROVE  i = k
    BY <1>1, <2>1 DEF QueueInv, TokensDistinct
  <2>2. ASSUME NEW w \in Workers, NEW i \in JobIds,
               held'[w] # NoHold, jobs'[i].token = held'[w].token
        PROVE  i = held'[w].job /\ jobs'[i].worker = w
    <3>1. held'[w] = held[w] /\ held[w].token # NoToken
      BY <2>2, KeyAssumption DEF QueueInv, HoldOK
    <3>2. i # j
      BY <1>1, <2>2, <3>1
    <3> QED
      BY <1>1, <2>2, <3>1, <3>2 DEF QueueInv, TokensDistinct
  <2> QED
    BY <2>1, <2>2 DEF TokensDistinct
<1>5. OneActiveRefresh'
  BY <1>1 DEF QueueInv, OneActiveRefresh, ActiveRefresh
<1>6. OneActiveFetch'
  BY <1>1, KeyAssumption DEF QueueInv, OneActiveFetch, ActiveFetch
<1> QED
  BY <1>1, <1>2, <1>3, <1>4, <1>5, <1>6 DEF QueueInv

\* The row of a new job.
LEMMA NewRowOK ==
    ASSUME NEW kind \in Kinds, NEW u \in Users, NEW src \in Sources \cup {NoSource},
           NEW s \in Subscriptions \cup {NoSub}, NEW auto \in BOOLEAN,
           NEW p \in Int, NEW m \in AttemptLimits,
           s # NoSub => src = SubSource[s]
    PROVE  LET q == NewRow(kind, u, src, s, auto, p, m)
           IN  /\ q \in Row /\ RowOK(q)
               /\ q.status = "queued" /\ q.token = NoToken
               /\ q.kind = kind /\ q.user = u /\ q.sub = s
<1> DEFINE q == NewRow(kind, u, src, s, auto, p, m)
<1>2. m \in Nat \ {0}
  BY BoundsAssumption
<1>3. q \in Row
  BY <1>2 DEF NewRow, Row, Statuses, Active, Errors
<1>4. RowOK(q)
  BY <1>2, <1>3 DEF NewRow, RowOK
<1> QED
  BY <1>3, <1>4 DEF NewRow

-----------------------------------------------------------------------------
(* One lemma for each operation.                                            *)

\* The empty table satisfies the invariant.
LEMMA InitInv == QueueInit => QueueInv
<1> SUFFICES ASSUME QueueInit PROVE QueueInv
  OBVIOUS
<1>1. \A j \in JobIds : jobs[j] = NoRow("absent")
  BY DEF QueueInit
<1>2. jobs \in [JobIds -> Row] /\ \A j \in JobIds : RowOK(jobs[j])
  BY <1>1, NoRowOK DEF QueueInit
<1>3. /\ held \in [Workers -> [job : 0 .. MaxJobs, token : Tokens \cup {NoToken}]]
      /\ \A w \in Workers : HoldOK(held[w])
  BY BoundsAssumption DEF QueueInit, HoldOK, NoHold
<1>4. TokensDistinct
  BY <1>1, NoRowOK DEF QueueInit, TokensDistinct
<1>5. OneActiveRefresh /\ OneActiveFetch
  BY <1>1, NoRowOK
     DEF OneActiveRefresh, OneActiveFetch, ActiveRefresh, ActiveFetch, Active
<1> QED
  BY <1>2, <1>3, <1>4, <1>5 DEF QueueInv

\* Creation: the if_absent operations test the key, plain jobs have none.
LEMMA CreateInv ==
    ASSUME QueueInv, Create
    PROVE  QueueInv'
<1>0. PICK auto \in Reasons : \E p \in PriorityOf(auto), m \in AttemptLimits :
        \/ \E kind \in Kinds, u \in Users, src \in Sources :
              create_job(kind, u, src, p, m)
        \/ \E u \in Users : create_user_feed_refresh_if_absent(u, auto, p, m)
        \/ \E s \in Subscriptions : create_source_fetch_if_absent(s, auto, p, m)
  BY DEF Create
<1>a. PICK p \in PriorityOf(auto), m \in AttemptLimits :
        \/ \E kind \in Kinds, u \in Users, src \in Sources :
              create_job(kind, u, src, p, m)
        \/ \E u \in Users : create_user_feed_refresh_if_absent(u, auto, p, m)
        \/ \E s \in Subscriptions : create_source_fetch_if_absent(s, auto, p, m)
  BY <1>0
<1>1. auto \in BOOLEAN /\ p \in Int
  BY BoundsAssumption DEF PriorityOf, ScheduledPriority
<1>2. ASSUME NEW q, q \in Row, RowOK(q), q.status = "queued", q.token = NoToken,
             q.kind = "user_feed_refresh" => ActiveRefresh(q.user) = {},
             q.kind = "source_fetch" /\ q.sub # NoSub => ActiveFetch(q.sub) = {},
             Insert(q)
      PROVE  QueueInv'
  <2>1. PICK j \in JobIds : /\ jobs[j].status = "absent"
                            /\ jobs' = [jobs EXCEPT ![j] = q]
                            /\ UNCHANGED held
    BY <1>2 DEF Insert
  <2> QED
    BY <1>2, <2>1, Activation DEF Active
<1>3. ASSUME NEW kind \in Kinds, NEW u \in Users, NEW src \in Sources,
             create_job(kind, u, src, p, m)
      PROVE  QueueInv'
  <2> DEFINE q == NewRow(kind, u, src, NoSub, FALSE, p, m)
  <2>1. /\ q \in Row /\ RowOK(q) /\ q.status = "queued" /\ q.token = NoToken
        /\ q.kind = kind /\ q.sub = NoSub
    <3>1. ASSUME NEW b \in BOOLEAN
          PROVE  LET x == NewRow(kind, u, src, NoSub, b, p, m)
                 IN  /\ x \in Row /\ RowOK(x)
                     /\ x.status = "queued" /\ x.token = NoToken
                     /\ x.kind = kind /\ x.sub = NoSub
      BY <1>1, NewRowOK
    <3> QED
      BY <3>1, Zenon
  <2>2. kind # "user_feed_refresh" /\ Insert(q)
    BY <1>3 DEF create_job
  <2> HIDE DEF q
  <2> QED
    BY <1>2, <2>1, <2>2
<1>4. ASSUME NEW u \in Users, create_user_feed_refresh_if_absent(u, auto, p, m)
      PROVE  QueueInv'
  BY <1>1, <1>2, <1>4, NewRowOK DEF create_user_feed_refresh_if_absent, Kinds
<1>5. ASSUME NEW s \in Subscriptions, create_source_fetch_if_absent(s, auto, p, m)
      PROVE  QueueInv'
  BY <1>1, <1>2, <1>5, NewRowOK, KeyAssumption
     DEF create_source_fetch_if_absent, Kinds
<1> QED
  BY <1>a, <1>3, <1>4, <1>5

\* A user cancels a queued job, or marks a running refresh.
LEMMA CancelInv ==
    ASSUME QueueInv, NEW j \in JobIds, cancel_job(j)
    PROVE  QueueInv'
<1>1. jobs[j] \in Row /\ RowOK(jobs[j]) /\ jobs[j].error \in Errors
  BY DEF QueueInv, Row
<1>2. CASE jobs[j].status = "queued"
            /\ jobs' = [jobs EXCEPT ![j] = Cancelled(@, @.error)]
  BY <1>1, <1>2, QuietCancelled, QuietOne, HoldingOn DEF cancel_job
<1>3. CASE jobs' = [jobs EXCEPT ![j] = [@ EXCEPT !.stop = TRUE]]
  BY <1>1, <1>3, QuietMarked, QuietOne, HoldingOn DEF cancel_job
<1> QED
  BY <1>2, <1>3 DEF cancel_job

\* The row of a job that ended and is put back, the stop mark cleared.
LEMMA Revived ==
    ASSUME NEW r \in Row, RowOK(r), NEW d \in Nat, NEW a \in Nat, a < r.max,
           r.status \in Terminal
    PROVE  LET q == [PutBack(r, "none", d, a) EXCEPT !.stop = FALSE]
           IN  /\ q \in Row /\ RowOK(q)
               /\ q.status = "queued" /\ q.token = NoToken
               /\ q.kind = r.kind /\ q.user = r.user /\ q.sub = r.sub
<1>1. "none" \in Errors
  BY DEF Errors
<1>2. PICK p \in Row : p = PutBack(r, "none", d, a)
  BY <1>1, PutBackRow
<1>3. /\ p.status = "queued" /\ p.token = NoToken
      /\ p.attempts = a /\ p.max = r.max /\ p.source = r.source
      /\ p.kind = r.kind /\ p.user = r.user /\ p.sub = r.sub
  BY <1>1, <1>2, PutBackRow
<1>4. PICK q \in Row : q = [p EXCEPT !.stop = FALSE]
  BY SetField
<1>5. /\ q.status = "queued" /\ q.token = NoToken
      /\ q.attempts = a /\ q.max = r.max /\ q.source = r.source
      /\ q.kind = r.kind /\ q.user = r.user /\ q.sub = r.sub
  BY <1>3, <1>4 DEF Row
<1>6. RowOK(q)
  <2>1. r.max \in Nat \ {0} /\ r.max \in AttemptLimits
    BY DEF Row, RowOK, Terminal
  <2> QED
    BY <1>5, <2>1 DEF RowOK
<1> QED
  BY <1>2, <1>4, <1>5, <1>6

\* A retried row is active again: the key is tested, the counter reset.
LEMMA RetryInv ==
    ASSUME QueueInv, NEW j \in JobIds, retry_job(j)
    PROVE  QueueInv'
<1> DEFINE q == [PutBack(jobs[j], "none", 0, 0) EXCEPT !.stop = FALSE]
<1>1. /\ jobs[j] \in Row /\ RowOK(jobs[j]) /\ 0 < jobs[j].max /\ 0 \in Nat
      /\ jobs[j].status \in Terminal
  BY DEF QueueInv, Row, retry_job, Terminal
<1>2. /\ q \in Row /\ RowOK(q) /\ q.status = "queued" /\ q.token = NoToken
      /\ q.kind = jobs[j].kind /\ q.user = jobs[j].user /\ q.sub = jobs[j].sub
  BY <1>1, Revived
<1>3. /\ jobs' = [jobs EXCEPT ![j] = q]
      /\ UNCHANGED held
      /\ jobs[j].status \notin Active
  BY DEF retry_job, Active
<1> HIDE DEF q
<1>4. /\ q.kind = "user_feed_refresh" => ActiveRefresh(q.user) = {}
      /\ q.kind = "source_fetch" /\ q.sub # NoSub => ActiveFetch(q.sub) = {}
  BY <1>2 DEF retry_job
<1> QED
  BY <1>2, <1>3, <1>4, Activation

\* A recovered fetch is active again: no other job fetches its source, hence
\* none of its subscription, and the attempts it made still count.
LEMMA RecoverResultInv ==
    ASSUME QueueInv, NEW j \in JobIds, recover_observed_result_after_terminal_job(j)
    PROVE  QueueInv'
<1>1. PICK d \in Nat :
        jobs' = [jobs EXCEPT ![j] =
                   [PutBack(@, "none", d, @.attempts) EXCEPT !.stop = FALSE]]
  <2> DEFINE n == IF jobs[j].attempts > 0 THEN jobs[j].attempts ELSE 1
             After(d) ==
               jobs' = [jobs EXCEPT ![j] =
                          [PutBack(@, "none", d, @.attempts) EXCEPT !.stop = FALSE]]
  <2>1. /\ jobs[j].max \in AttemptLimits /\ n \in 1 .. jobs[j].max
        /\ jobs[j].max \in Nat
    BY DEF QueueInv, Row, RowOK, recover_observed_result_after_terminal_job
  <2>2. Backoff(n) \in Nat
    BY <2>1, BackoffAssumption
  <2>3. \E d \in 0 .. Backoff(n) : After(d)
    BY Zenon DEF recover_observed_result_after_terminal_job
  <2> HIDE DEF After, n
  <2>4. \E d \in Nat : After(d)
    BY <2>2, <2>3
  <2> QED
    BY <2>4, Zenon DEF After
<1> DEFINE q == [PutBack(jobs[j], "none", d, jobs[j].attempts) EXCEPT !.stop = FALSE]
<1>2. /\ jobs[j] \in Row /\ RowOK(jobs[j]) /\ jobs[j].attempts \in Nat
      /\ jobs[j].attempts < jobs[j].max /\ jobs[j].status \in Terminal
  BY DEF QueueInv, Row, recover_observed_result_after_terminal_job, Terminal
<1>3. /\ q \in Row /\ RowOK(q) /\ q.status = "queued" /\ q.token = NoToken
      /\ q.kind = jobs[j].kind /\ q.user = jobs[j].user /\ q.sub = jobs[j].sub
  BY <1>2, Revived
<1>4. /\ jobs' = [jobs EXCEPT ![j] = q]
      /\ UNCHANGED held
      /\ jobs[j].status \notin Active
      /\ jobs[j].kind = "source_fetch"
  BY <1>1 DEF recover_observed_result_after_terminal_job, Active
<1> HIDE DEF q
<1>5. ASSUME q.sub # NoSub
      PROVE  ActiveFetch(q.sub) = {}
  <2>1. jobs[j].source = SubSource[q.sub]
    BY <1>2, <1>3, <1>4, <1>5 DEF RowOK
  <2>2. \A i \in ActiveFetch(q.sub) :
          /\ i \in JobIds /\ jobs[i].kind = "source_fetch" /\ jobs[i].status \in Active
          /\ jobs[i].source = SubSource[q.sub]
    BY <1>5 DEF QueueInv, RowOK, ActiveFetch
  <2> QED
    BY <1>4, <2>1, <2>2 DEF recover_observed_result_after_terminal_job
<1> QED
  BY <1>3, <1>4, <1>5, Activation

\* What a worker that passes the claim guard knows.
LEMMA Guarded ==
    ASSUME QueueInv, NEW w \in Workers, ClaimGuard(w)
    PROVE  /\ held[w].job \in JobIds
           /\ jobs[held[w].job] \in Row
           /\ RowOK(jobs[held[w].job])
           /\ jobs[held[w].job].status = "running"
BY DEF QueueInv, ClaimGuard

\* Cancelling queued rows.
LEMMA QuietCancelRows ==
    ASSUME QueueInv, NEW S, S \subseteq {j \in JobIds : jobs[j].status = "queued"},
           NEW error \in Errors \cup {"keep"}
    PROVE  /\ CancelRows(S, error) \in [JobIds -> Row]
           /\ \A j \in JobIds : Quiet(jobs[j], CancelRows(S, error)[j])
<1>1. ASSUME NEW j \in JobIds
      PROVE  Quiet(jobs[j], CancelRows(S, error)[j])
  <2>1. jobs[j] \in Row /\ RowOK(jobs[j]) /\ jobs[j].error \in Errors
    BY DEF QueueInv, Row
  <2>2. CASE j \in S
    <3> DEFINE e == IF error = "keep" THEN jobs[j].error ELSE error
    <3>1. e \in Errors
      BY <2>1
    <3>2. CancelRows(S, error)[j] = Cancelled(jobs[j], e)
      BY <2>2 DEF CancelRows
    <3> HIDE DEF e
    <3> QED
      BY <2>1, <2>2, <3>1, <3>2, QuietCancelled
  <2>3. CASE j \notin S
    BY <2>1, <2>3, QuietSame DEF CancelRows
  <2> QED
    BY <2>2, <2>3
<1>2. \A j \in JobIds : CancelRows(S, error)[j] \in Row
  BY <1>1 DEF Quiet, RowOK
<1> QED
  BY <1>1, <1>2 DEF CancelRows

\* Completion, with the scheduled fetches it makes superfluous.
LEMMA CompleteInv ==
    ASSUME QueueInv, NEW w \in Workers, NEW status \in Terminal \ {"cancelled"},
           NEW S \in SUBSET {j \in JobIds : jobs[j].status = "queued"},
           complete_job(w, status, S)
    PROVE  QueueInv'
<1> DEFINE k == held[w].job
           e == IF status = "failed" THEN "failure" ELSE "none"
           C == CancelRows(S, "keep")
<1>1. ClaimGuard(w) /\ LetGo(w) /\ jobs' = [C EXCEPT ![k] = Ended(jobs[k], status, e)]
  BY DEF complete_job, LeaseGuard
<1>2. e \in Errors /\ status \in Terminal
  BY DEF Errors
<1>3. Quiet(jobs[k], Ended(jobs[k], status, e))
  <2> HIDE DEF e
  <2> QED
    BY <1>1, <1>2, Guarded, QuietEnded
<1>4. C \in [JobIds -> Row] /\ \A j \in JobIds : Quiet(jobs[j], C[j])
  BY QuietCancelRows
<1>5. k \in JobIds /\ Ended(jobs[k], status, e) \in Row
  BY <1>1, <1>3, Guarded DEF Quiet, RowOK
<1> HIDE DEF e, C, k
<1>6. jobs' \in [JobIds -> Row] /\ \A j \in JobIds : Quiet(jobs[j], jobs'[j])
  BY <1>1, <1>3, <1>4, <1>5
<1> QED
  BY <1>1, <1>6, LettingGo, QuietStep

\* A failure: the back-off only while an attempt is left.
LEMMA FailOrRetryInv ==
    ASSUME QueueInv, NEW w \in Workers, NEW retryable \in BOOLEAN,
           fail_or_retry_job(w, retryable)
    PROVE  QueueInv'
<1>1. PICK k \in JobIds : k = held[w].job
  BY Guarded DEF fail_or_retry_job, LeaseGuard
<1>2. /\ jobs[k] \in Row /\ RowOK(jobs[k]) /\ jobs[k].status = "running"
      /\ LetGo(w)
      /\ jobs' = [jobs EXCEPT ![k] = FailedOrQueued(jobs[k], retryable)]
  BY <1>1, Guarded DEF fail_or_retry_job, LeaseGuard
<1>3. Quiet(jobs[k], FailedOrQueued(jobs[k], retryable))
  <2>1. "failure" \in Errors /\ "failed" \in Terminal
    BY DEF Errors, Terminal
  <2>2. CASE retryable /\ jobs[k].attempts < jobs[k].max
    <3>1. /\ jobs[k].attempts \in Nat /\ jobs[k].attempts \in 1 .. jobs[k].max
          /\ jobs[k].max \in AttemptLimits
      BY <1>2, <2>2 DEF RowOK, Row
    <3>2. Backoff(jobs[k].attempts) \in Nat
      BY <3>1, BackoffAssumption
    <3>3. FailedOrQueued(jobs[k], retryable)
            = PutBack(jobs[k], "failure", Backoff(jobs[k].attempts), jobs[k].attempts)
      BY <2>2 DEF FailedOrQueued
    <3> QED
      BY <1>2, <2>1, <2>2, <3>1, <3>2, <3>3, QuietPutBack
  <2>3. CASE ~(retryable /\ jobs[k].attempts < jobs[k].max)
    <3>1. FailedOrQueued(jobs[k], retryable) = Ended(jobs[k], "failed", "failure")
      BY <2>3 DEF FailedOrQueued
    <3> QED
      BY <1>2, <2>1, <3>1, QuietEnded
  <2> QED
    BY <2>2, <2>3
<1> QED
  BY <1>2, <1>3, LettingGo, QuietOne

\* The holder cancels its own job.
LEMMA CancelClaimedInv ==
    ASSUME QueueInv, NEW w \in Workers, NEW error \in Errors,
           cancel_claimed_job(w, error)
    PROVE  QueueInv'
<1>1. PICK k \in JobIds : k = held[w].job
  BY Guarded DEF cancel_claimed_job
<1>2. /\ jobs[k] \in Row /\ RowOK(jobs[k]) /\ jobs[k].status = "running"
      /\ LetGo(w)
      /\ jobs' = [jobs EXCEPT ![k] = Cancelled(jobs[k], error)]
  BY <1>1, Guarded DEF cancel_claimed_job
<1>3. Quiet(jobs[k], Cancelled(jobs[k], error))
  BY <1>2, QuietCancelled
<1> QED
  BY <1>2, <1>3, LettingGo, QuietOne

\* The heartbeat renews the lease.
LEMMA ExtendInv ==
    ASSUME QueueInv, NEW w \in Workers, extend_job_lease(w)
    PROVE  QueueInv'
<1>1. PICK k \in JobIds : k = held[w].job
  BY Guarded DEF extend_job_lease, LeaseGuard
<1>2. /\ jobs[k] \in Row /\ RowOK(jobs[k])
      /\ UNCHANGED held
      /\ jobs' = [jobs EXCEPT ![k] = [jobs[k] EXCEPT !.lock = Lease]]
  BY <1>1, Guarded DEF extend_job_lease, LeaseGuard
<1>3. Quiet(jobs[k], [jobs[k] EXCEPT !.lock = Lease])
  <2>1. Lease \in Int
    BY BoundsAssumption
  <2> QED
    BY <1>2, <2>1, QuietMarked
<1> QED
  BY <1>2, <1>3, HoldingOn, QuietOne

\* An unstarted claim goes back: the attempt it counted is returned.
LEMMA RequeueInv ==
    ASSUME QueueInv, NEW w \in Workers, requeue_unstarted_claim(w)
    PROVE  QueueInv'
<1>1. PICK k \in JobIds : k = held[w].job
  BY Guarded DEF requeue_unstarted_claim
<1> DEFINE a == IF jobs[k].attempts > 0 THEN jobs[k].attempts - 1 ELSE 0
<1>2. /\ jobs[k] \in Row /\ RowOK(jobs[k]) /\ jobs[k].status = "running"
      /\ LetGo(w)
      /\ jobs' = [jobs EXCEPT ![k] = PutBack(jobs[k], "not_started", 0, a)]
  BY <1>1, Guarded DEF requeue_unstarted_claim
<1>3. a \in Nat /\ a < jobs[k].max /\ "not_started" \in Errors /\ 0 \in Nat
  BY <1>2 DEF Row, RowOK, Errors
<1> HIDE DEF a
<1>4. Quiet(jobs[k], PutBack(jobs[k], "not_started", 0, a))
  BY <1>2, <1>3, QuietPutBack
<1> QED
  BY <1>2, <1>4, LettingGo, QuietOne

\* A worker dies, or drops a claim that was lost.
LEMMA AbandonInv ==
    ASSUME QueueInv, NEW w \in Workers, Abandon(w)
    PROVE  QueueInv'
<1>1. jobs' = jobs /\ LetGo(w)
  BY DEF Abandon
<1>2. jobs' \in [JobIds -> Row] /\ \A j \in JobIds : Quiet(jobs[j], jobs'[j])
  BY <1>1, QuietSame DEF QueueInv
<1> QED
  BY <1>1, <1>2, LettingGo, QuietStep

\* The claim: the only step that puts a token into a row.
LEMMA ClaimInv ==
    ASSUME QueueInv, NEW w \in Workers, claim_next_job(w)
    PROVE  QueueInv'
<1>1. PICK f \in Tokens : f = FreshToken /\ Fresh(f)
  BY DEF claim_next_job, FreshToken
<1>2. PICK k \in JobIds :
        /\ jobs[k].status = "queued"
        /\ jobs' = [jobs EXCEPT ![k] =
                       [@ EXCEPT !.status = "running",
                                 !.attempts = jobs[k].attempts + 1,
                                 !.worker = w, !.token = f, !.lock = Lease]]
        /\ held' = [held EXCEPT ![w] = [job |-> k, token |-> f]]
  BY <1>1 DEF claim_next_job, IsNext, Claimable
<1>3. /\ jobs[k] \in Row /\ RowOK(jobs[k]) /\ jobs[k].attempts \in Nat
      /\ jobs[k].max \in Nat /\ Lease \in Int
  BY BoundsAssumption DEF QueueInv, Row
<1>4. PICK r1 \in Row : r1 = [jobs[k] EXCEPT !.status = "running"]
  BY <1>3, SetField DEF Statuses, Active
<1>5. PICK r2 \in Row : r2 = [r1 EXCEPT !.attempts = jobs[k].attempts + 1]
  <2>1. jobs[k].attempts + 1 \in Nat
    BY <1>3
  <2> QED
    BY <2>1, SetCounter
<1>6. PICK r3 \in Row : r3 = [r2 EXCEPT !.worker = w]
  BY SetField
<1>7. PICK r4 \in Row : r4 = [r3 EXCEPT !.token = f]
  BY SetField
<1>8. PICK q \in Row : q = [r4 EXCEPT !.lock = Lease]
  BY <1>3, SetLock
<1>9. jobs' = [jobs EXCEPT ![k] = q]
  <2>1. q = [jobs[k] EXCEPT !.status = "running",
                            !.attempts = jobs[k].attempts + 1,
                            !.worker = w, !.token = f, !.lock = Lease]
    BY <1>4, <1>5, <1>6, <1>7, <1>8, Zenon
  <2> QED
    BY <1>2, <2>1, Zenon
<1>10. /\ q.status = "running" /\ q.token = f /\ q.worker = w
       /\ q.attempts = jobs[k].attempts + 1 /\ q.max = jobs[k].max
       /\ q.kind = jobs[k].kind /\ q.user = jobs[k].user /\ q.sub = jobs[k].sub
       /\ q.source = jobs[k].source
  BY <1>4, <1>5, <1>6, <1>7, <1>8 DEF Row
<1>11. /\ jobs' \in [JobIds -> Row]
       /\ jobs'[k] = q
       /\ \A i \in JobIds \ {k} : jobs'[i] = jobs[i]
  BY <1>9 DEF QueueInv
<1>12. \A j \in JobIds : RowOK(jobs'[j])
  <2>1. RowOK(q)
    BY <1>2, <1>3, <1>10, KeyAssumption DEF RowOK
  <2> QED
    BY <2>1, <1>11 DEF QueueInv
<1>13. /\ held' \in [Workers -> [job : 0 .. MaxJobs, token : Tokens \cup {NoToken}]]
       /\ held'[w] = [job |-> k, token |-> f]
       /\ \A v \in Workers \ {w} : held'[v] = held[v]
  BY <1>2, BoundsAssumption DEF QueueInv, JobIds
<1>14. \A v \in Workers : HoldOK(held'[v])
  BY <1>13 DEF QueueInv, HoldOK
<1>15. TokensDistinct'
  <2>1. ASSUME NEW i \in JobIds, NEW j \in JobIds,
               jobs'[i].token = jobs'[j].token, jobs'[i].token # NoToken
        PROVE  i = j
    BY <1>1, <1>10, <1>11, <2>1 DEF QueueInv, TokensDistinct, Fresh
  <2>2. ASSUME NEW v \in Workers, NEW j \in JobIds,
               held'[v] # NoHold, jobs'[j].token = held'[v].token
        PROVE  j = held'[v].job /\ jobs'[j].worker = v
    BY <1>1, <1>10, <1>11, <1>13, <2>2 DEF QueueInv, TokensDistinct, Fresh
  <2> QED
    BY <2>1, <2>2 DEF TokensDistinct
<1>16. OneActiveRefresh'
  BY <1>2, <1>10, <1>11 DEF QueueInv, OneActiveRefresh, ActiveRefresh, Active
<1>17. OneActiveFetch'
  BY <1>2, <1>10, <1>11 DEF QueueInv, OneActiveFetch, ActiveFetch, Active
<1> QED
  BY <1>11, <1>12, <1>13, <1>14, <1>15, <1>16, <1>17 DEF QueueInv

\* A step given by a function on rows, all of them quiet.
LEMMA QuietAll ==
    ASSUME QueueInv, NEW F, jobs' = [j \in JobIds |-> F[j]],
           \A j \in JobIds : Quiet(jobs[j], F[j]), UNCHANGED held
    PROVE  QueueInv'
<1>1. jobs' \in [JobIds -> Row] /\ \A j \in JobIds : Quiet(jobs[j], jobs'[j])
  BY DEF Quiet, RowOK
<1> QED
  BY <1>1, HoldingOn, QuietStep

\* Recovery of expired leases, which the holders do not notice.
LEMMA RecoverInv ==
    ASSUME QueueInv, recover_stale_running_jobs
    PROVE  QueueInv'
<1> DEFINE F == [j \in JobIds |-> IF Expired(j) THEN Recovered(jobs[j]) ELSE jobs[j]]
<1>1. ASSUME NEW j \in JobIds
      PROVE  Quiet(jobs[j], F[j])
  <2>1. jobs[j] \in Row /\ RowOK(jobs[j])
    BY DEF QueueInv
  <2>2. CASE Expired(j)
    <3>1. /\ jobs[j].status = "running"
          /\ jobs[j].attempts \in Nat /\ jobs[j].max \in Nat /\ jobs[j].delay \in Nat
          /\ "lease_expired" \in Errors /\ "failed" \in Terminal
      BY <2>1, <2>2 DEF Expired, Row, Errors, Terminal
    <3>2. CASE jobs[j].attempts >= jobs[j].max
      <4>1. F[j] = Ended(jobs[j], "failed", "lease_expired")
        BY <2>2, <3>2 DEF Recovered
      <4> QED
        BY <2>1, <3>1, <4>1, QuietEnded
    <3>3. CASE ~(jobs[j].attempts >= jobs[j].max)
      <4>1. F[j] = PutBack(jobs[j], "lease_expired", jobs[j].delay, jobs[j].attempts)
        BY <2>2, <3>3 DEF Recovered
      <4>2. jobs[j].attempts < jobs[j].max
        BY <3>1, <3>3
      <4> QED
        BY <2>1, <3>1, <4>1, <4>2, QuietPutBack
    <3> QED
      BY <3>2, <3>3
  <2>3. CASE ~Expired(j)
    BY <2>1, <2>3, QuietSame
  <2> QED
    BY <2>2, <2>3
<1>2. jobs' = F /\ UNCHANGED held
  BY DEF recover_stale_running_jobs
<1>3. jobs' = [j \in JobIds |-> F[j]]
  BY <1>2
<1> HIDE DEF F
<1> QED
  BY <1>1, <1>2, <1>3, QuietAll

\* Other components cancel queued jobs.
LEMMA CancelQueuedInv ==
    ASSUME QueueInv, NEW S \in SUBSET JobIds, NEW error \in Errors \cup {"keep"},
           CancelQueued(S, error)
    PROVE  QueueInv'
<1>1. /\ jobs' = CancelRows(S, error) /\ UNCHANGED held
      /\ S \subseteq {j \in JobIds : jobs[j].status = "queued"}
  BY DEF CancelQueued
<1>2. jobs' \in [JobIds -> Row] /\ \A j \in JobIds : Quiet(jobs[j], jobs'[j])
  BY <1>1, QuietCancelRows
<1> QED
  BY <1>1, <1>2, HoldingOn, QuietStep

\* Forgetting the subscription after a quiet change is quiet.
LEMMA QuietForget ==
    ASSUME NEW r \in Row, NEW q, Quiet(r, q)
    PROVE  Quiet(r, [q EXCEPT !.sub = NoSub])
<1>1. q \in Row /\ RowOK(q)
  BY DEF Quiet, RowOK
<1>2. PICK p \in Row : p = [q EXCEPT !.sub = NoSub]
  BY <1>1, SetField
<1>3. /\ p.status = q.status /\ p.token = q.token /\ p.worker = q.worker
      /\ p.attempts = q.attempts /\ p.max = q.max
      /\ p.kind = q.kind /\ p.user = q.user /\ p.sub = NoSub
  BY <1>1, <1>2 DEF Row
<1>4. RowOK(p)
  BY <1>1, <1>3 DEF RowOK
<1> QED
  BY <1>2, <1>3, <1>4 DEF Quiet

\* A deleted subscription is forgotten by its rows.
LEMMA DetachInv ==
    ASSUME QueueInv, NEW s \in Subscriptions, DetachSubscription(s)
    PROVE  QueueInv'
<1> DEFINE C(j) == IF jobs[j].status = "queued"
                   THEN Cancelled(jobs[j], "job_invalidated") ELSE jobs[j]
           F == [j \in JobIds |-> IF jobs[j].sub # s THEN jobs[j]
                                  ELSE [C(j) EXCEPT !.sub = NoSub]]
<1>1. ASSUME NEW j \in JobIds
      PROVE  Quiet(jobs[j], F[j])
  <2>1. jobs[j] \in Row /\ RowOK(jobs[j]) /\ "job_invalidated" \in Errors
    BY DEF QueueInv, Errors
  <2>2. Quiet(jobs[j], C(j))
    BY <2>1, QuietCancelled, QuietSame
  <2>3. F[j] = jobs[j] \/ F[j] = [C(j) EXCEPT !.sub = NoSub]
    OBVIOUS
  <2> HIDE DEF C, F
  <2> QED
    BY <2>1, <2>2, <2>3, QuietSame, QuietForget
<1>2. jobs' = F /\ UNCHANGED held
  BY DEF DetachSubscription
<1>3. jobs' = [j \in JobIds |-> F[j]]
  BY <1>2
<1> HIDE DEF F
<1> QED
  BY <1>1, <1>2, <1>3, QuietAll

\* The rows of a deleted user disappear.
LEMMA DeleteUserInv ==
    ASSUME QueueInv, NEW u \in Users, DeleteUserRows(u)
    PROVE  QueueInv'
<1> DEFINE F == [j \in JobIds |-> IF jobs[j].user = u THEN Deleted(jobs[j]) ELSE jobs[j]]
<1>1. \A j \in JobIds : Quiet(jobs[j], F[j])
  BY QuietDeleted, QuietSame DEF QueueInv
<1>2. jobs' = F /\ UNCHANGED held
  BY DEF DeleteUserRows
<1>3. jobs' = [j \in JobIds |-> F[j]]
  BY <1>2
<1> HIDE DEF F
<1> QED
  BY <1>1, <1>2, <1>3, QuietAll

\* Expired terminal rows are pruned.
LEMMA PruneInv ==
    ASSUME QueueInv, NEW S \in SUBSET JobIds, prune_terminal_jobs(S)
    PROVE  QueueInv'
<1> DEFINE F == [j \in JobIds |-> IF j \in S THEN Deleted(jobs[j]) ELSE jobs[j]]
<1>1. \A j \in JobIds : Quiet(jobs[j], F[j])
  BY QuietDeleted, QuietSame DEF QueueInv
<1>2. jobs' = F /\ UNCHANGED held
  BY DEF prune_terminal_jobs
<1>3. jobs' = [j \in JobIds |-> F[j]]
  BY <1>2
<1> HIDE DEF F
<1> QED
  BY <1>1, <1>2, <1>3, QuietAll

\* Time passes.
LEMMA TickInv ==
    ASSUME QueueInv, Tick
    PROVE  QueueInv'
<1> DEFINE F == [j \in JobIds |-> Ticked(jobs[j])]
<1>1. ASSUME NEW j \in JobIds
      PROVE  Quiet(jobs[j], F[j])
  <2>1. /\ jobs[j] \in Row /\ RowOK(jobs[j])
        /\ jobs[j].lock \in Int /\ jobs[j].delay \in Nat
    BY DEF QueueInv, Row
  <2> DEFINE n == IF jobs[j].status = "running" /\ jobs[j].lock >= 0
                  THEN jobs[j].lock - 1 ELSE jobs[j].lock
             d == IF jobs[j].delay > 0 THEN jobs[j].delay - 1 ELSE jobs[j].delay
  <2>2. n \in Int /\ d \in Nat
    BY <2>1
  <2>3. F[j] = [jobs[j] EXCEPT !.lock = n, !.delay = d]
    BY <2>1 DEF Ticked, Row
  <2> HIDE DEF n, d, F
  <2>4. Quiet(jobs[j], [jobs[j] EXCEPT !.lock = n, !.delay = d])
    BY <2>1, <2>2, QuietMarked, Zenon
  <2> QED
    BY <2>3, <2>4, Zenon
<1>2. jobs' = F /\ UNCHANGED held
  BY DEF Tick, TickRows
<1>3. jobs' = [j \in JobIds |-> F[j]]
  BY <1>2
<1> HIDE DEF F
<1> QED
  BY <1>1, <1>2, <1>3, QuietAll

-----------------------------------------------------------------------------
(* The invariant and what follows from it.                                  *)

\* Every step of the queue keeps the invariant.
LEMMA NextInv ==
    ASSUME QueueInv, [QueueNext]_queueVars
    PROVE  QueueInv'
<1>1. CASE Create
  BY <1>1, CreateInv
<1>2. ASSUME NEW j \in JobIds,
             \/ cancel_job(j)
             \/ retry_job(j)
             \/ recover_observed_result_after_terminal_job(j)
      PROVE  QueueInv'
  BY <1>2, CancelInv, RetryInv, RecoverResultInv
<1>3. ASSUME NEW w \in Workers, WorkerStep(w)
      PROVE  QueueInv'
  <2>1. \A error \in {"job_cancelled", "job_invalidated"} : error \in Errors
    BY DEF Errors
  <2> QED
    BY <1>3, <2>1, ClaimInv, CompleteInv, FailOrRetryInv, CancelClaimedInv,
       ExtendInv, RequeueInv, AbandonInv DEF WorkerStep
<1>4. CASE recover_stale_running_jobs
  BY <1>4, RecoverInv
<1>5. ASSUME NEW S \in SUBSET JobIds,
             \/ CancelQueued(S, "keep")
             \/ CancelQueued(S, "job_invalidated")
             \/ prune_terminal_jobs(S)
      PROVE  QueueInv'
  <2>1. {"keep", "job_invalidated"} \subseteq Errors \cup {"keep"}
    BY DEF Errors
  <2> QED
    BY <1>5, <2>1, CancelQueuedInv, PruneInv
<1>6. ASSUME NEW s \in Subscriptions, DetachSubscription(s)
      PROVE  QueueInv'
  BY <1>6, DetachInv
<1>7. ASSUME NEW u \in Users, DeleteUserRows(u)
      PROVE  QueueInv'
  BY <1>7, DeleteUserInv
<1>8. CASE Tick
  BY <1>8, TickInv
<1>9. CASE UNCHANGED queueVars
  BY <1>9 DEF queueVars, QueueInv, TokensDistinct, OneActiveRefresh,
              OneActiveFetch, ActiveRefresh, ActiveFetch
<1> QED
  BY <1>1, <1>2, <1>3, <1>4, <1>5, <1>6, <1>7, <1>8, <1>9 DEF QueueNext

\* A holder of a live lease that keeps its claim finds the row as it left it,
\* whatever step of the queue, its own or anybody else's, comes between.
LEMMA LeaseKept ==
    ASSUME QueueInv, [QueueNext]_queueVars, NEW w \in Workers,
           LeaseGuard(w), held'[w] = held[w]
    PROVE  /\ jobs'[held[w].job].status = "running"
           /\ jobs'[held[w].job].token = held[w].token
<1>1. PICK k \in JobIds : k = held[w].job
  BY DEF LeaseGuard, ClaimGuard
<1>2. /\ jobs \in [JobIds -> Row] /\ jobs[k] \in Row /\ RowOK(jobs[k])
      /\ jobs[k].status = "running" /\ jobs[k].worker = w
      /\ jobs[k].token = held[w].token /\ jobs[k].lock >= 0
      /\ jobs[k].lock \in Int
  BY <1>1 DEF LeaseGuard, ClaimGuard, QueueInv, Row
<1>3. held[w] # NoHold /\ held \in [Workers -> [job : 0 .. MaxJobs, token : Tokens \cup {NoToken}]]
  BY <1>1, BoundsAssumption DEF NoHold, JobIds, QueueInv
<1> DEFINE Kept == jobs'[k].status = "running" /\ jobs'[k].token = held[w].token
<1> SUFFICES Kept
  BY <1>1
<1>4. ASSUME NEW j \in JobIds, NEW q, jobs' = [jobs EXCEPT ![j] = q], j # k
      PROVE  Kept
  BY <1>2, <1>4
<1>5. jobs'[k] = jobs[k] => Kept
  BY <1>2
<1>6. \A v \in Workers : ~LetGo(v) \/ v # w
  BY <1>3 DEF LetGo
<1>7. \A v \in Workers \ {w} : ClaimGuard(v) => held[v].job \in JobIds \ {k}
  BY <1>2 DEF ClaimGuard
<1>8. CASE Create
  <2>1. PICK j \in JobIds : jobs[j].status = "absent" /\ \E q : jobs' = [jobs EXCEPT ![j] = q]
    BY ZenonT(40), <1>8 DEF Create, create_job, create_user_feed_refresh_if_absent,
                create_source_fetch_if_absent, Insert
  <2> QED BY <1>2, <1>4, <2>1
<1>9. ASSUME NEW j \in JobIds,
             \/ cancel_job(j)
             \/ retry_job(j)
             \/ recover_observed_result_after_terminal_job(j)
      PROVE  Kept
  <2>1. CASE j # k
    <3>1. PICK q : jobs' = [jobs EXCEPT ![j] = q]
      BY <1>9 DEF cancel_job, retry_job, recover_observed_result_after_terminal_job
    <3> QED BY <1>4, <2>1, <3>1
  <2>2. CASE j = k
    <3>1. jobs' = [jobs EXCEPT ![k] = [jobs[k] EXCEPT !.stop = TRUE]]
      BY <1>2, <1>9, <2>2
         DEF cancel_job, retry_job, recover_observed_result_after_terminal_job
    <3> QED BY <1>2, <3>1 DEF Row
  <2> QED BY <2>1, <2>2
<1>10. ASSUME NEW v \in Workers, WorkerStep(v)
       PROVE  Kept
  <2>1. CASE claim_next_job(v)
    <3>1. PICK j \in JobIds : jobs[j].status = "queued" /\ \E q : jobs' = [jobs EXCEPT ![j] = q]
      BY <2>1 DEF claim_next_job, IsNext, Claimable
    <3> QED BY <1>2, <1>4, <3>1
  <2>2. ASSUME NEW status \in Terminal \ {"cancelled"},
               NEW S \in SUBSET {j \in JobIds : jobs[j].status = "queued"},
               complete_job(v, status, S)
        PROVE  Kept
    <3>1. held[v].job \in JobIds \ {k} /\ k \notin S
      BY <1>2, <1>6, <1>7, <2>2 DEF complete_job, LeaseGuard
    <3>2. jobs'[k] = jobs[k]
      BY <2>2, <3>1 DEF complete_job, CancelRows
    <3> QED BY <1>5, <3>2
  <2>3. CASE \/ \E retryable \in BOOLEAN : fail_or_retry_job(v, retryable)
             \/ \E error \in {"job_cancelled", "job_invalidated"} :
                   cancel_claimed_job(v, error)
             \/ requeue_unstarted_claim(v)
    <3>1. /\ LetGo(v) /\ ClaimGuard(v)
          /\ \E q : jobs' = [jobs EXCEPT ![held[v].job] = q]
      BY <2>3 DEF fail_or_retry_job, cancel_claimed_job, requeue_unstarted_claim,
                  LeaseGuard
    <3> QED BY <1>4, <1>6, <1>7, <3>1
  <2>4. CASE extend_job_lease(v)
    <3>1. CASE v = w
      <4>1. jobs' = [jobs EXCEPT ![k] = [jobs[k] EXCEPT !.lock = Lease]]
        BY <1>1, <2>4, <3>1 DEF extend_job_lease
      <4> QED BY <1>2, <4>1 DEF Row
    <3>2. CASE v # w
      <4>1. ClaimGuard(v) /\ \E q : jobs' = [jobs EXCEPT ![held[v].job] = q]
        BY <2>4 DEF extend_job_lease, LeaseGuard
      <4> QED BY <1>4, <1>7, <3>2, <4>1
    <3> QED BY <3>1, <3>2
  <2>5. CASE Abandon(v)
    BY <1>5, <2>5 DEF Abandon
  <2> QED
    BY <1>10, <2>1, <2>2, <2>3, <2>4, <2>5 DEF WorkerStep
<1>11. CASE recover_stale_running_jobs
  BY <1>2, <1>5, <1>11 DEF recover_stale_running_jobs, Expired
<1>12. ASSUME NEW S \in SUBSET JobIds,
              \/ CancelQueued(S, "keep")
              \/ CancelQueued(S, "job_invalidated")
              \/ prune_terminal_jobs(S)
       PROVE  Kept
  <2>1. k \notin S
    BY <1>2, <1>12 DEF CancelQueued, prune_terminal_jobs, Terminal
  <2>2. jobs'[k] = jobs[k]
    BY <1>12, <2>1 DEF CancelQueued, CancelRows, prune_terminal_jobs
  <2> QED BY <1>5, <2>2
<1>13. ASSUME NEW s \in Subscriptions, DetachSubscription(s)
       PROVE  Kept
  <2>1. jobs'[k] = jobs[k] \/ jobs'[k] = [jobs[k] EXCEPT !.sub = NoSub]
    BY <1>2, <1>13 DEF DetachSubscription
  <2> QED BY <1>2, <1>5, <2>1 DEF Row
<1>14. ASSUME NEW u \in Users, DeleteUserRows(u)
       PROVE  Kept
  BY <1>2, <1>5, <1>14 DEF DeleteUserRows
<1>15. CASE Tick
  <2>1. PICK n, d : jobs'[k] = [jobs[k] EXCEPT !.lock = n, !.delay = d]
    BY <1>15 DEF Tick, TickRows, Ticked
  <2> QED BY <1>2, <2>1 DEF Row
<1>16. CASE UNCHANGED queueVars
  BY <1>5, <1>16 DEF queueVars
<1> QED
  BY <1>8, <1>9, <1>10, <1>11, <1>12, <1>13, <1>14, <1>15, <1>16 DEF QueueNext

\* The inductive invariant holds in every reachable state of the queue, for
\* any number of jobs, users, subscriptions, workers and claim tokens.
THEOREM QueueInvariant == QueueSpec => []QueueInv
<1>1. QueueInit => QueueInv
  BY InitInv
<1>2. QueueInv /\ [QueueNext]_queueVars => QueueInv'
  BY NextInv
<1> QED
  BY <1>1, <1>2, PTL DEF QueueSpec

\* The rows of fetch_jobs and the claims in the workers' hands keep their type.
THEOREM TypeCorrect == QueueSpec => []QueueTypeOK
<1>1. QueueInv => QueueTypeOK
  BY DEF QueueInv, QueueTypeOK
<1> QED
  BY <1>1, QueueInvariant, PTL

\* A user never has two queued or running full refreshes, through creation,
\* retry, lease recovery and the requeue of unstarted claims.
THEOREM SingleRefresh == QueueSpec => []OneActiveRefresh
<1>1. QueueInv => OneActiveRefresh
  BY DEF QueueInv
<1> QED
  BY <1>1, QueueInvariant, PTL

\* A subscription never has two queued or running fetches that name it.
THEOREM SingleFetch == QueueSpec => []OneActiveFetch
<1>1. QueueInv => OneActiveFetch
  BY DEF QueueInv
<1> QED
  BY <1>1, QueueInvariant, PTL

\* No job is run more often than max_attempts, although claim_next_job does
\* not test the counter.
THEOREM BudgetKept == QueueSpec => []RetryBudget
<1>1. QueueInv => RetryBudget
  BY DEF QueueInv, RowOK, RetryBudget
<1> QED
  BY <1>1, QueueInvariant, PTL

\* A claim token names one running row, and a lost claim matches no row.
THEOREM ClaimsSound == QueueSpec => []ClaimIntegrity
<1>1. QueueInv => ClaimIntegrity
  BY DEF QueueInv, RowOK, TokensDistinct, ClaimIntegrity
<1> QED
  BY <1>1, QueueInvariant, PTL

\* Mutual exclusion: while a lease is live and its holder keeps the claim, no
\* recovery, late completion, cancellation, deletion or claim moves the job.
THEOREM LeaseIsExclusive == QueueSpec => LeaseExclusive
<1>1. QueueInv /\ [QueueNext]_queueVars
        => [\A w \in Workers :
              LeaseGuard(w) /\ held'[w] = held[w]
                => /\ jobs'[held[w].job].status = "running"
                   /\ jobs'[held[w].job].token = held[w].token]_queueVars
  BY LeaseKept
<1> QED
  BY <1>1, QueueInvariant, PTL DEF QueueSpec, LeaseExclusive
=============================================================================
