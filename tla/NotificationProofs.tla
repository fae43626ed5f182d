------------------------- MODULE NotificationProofs -------------------------
(***************************************************************************)
(* Proofs about the notification system, for any number of targets,        *)
(* testers, subscriptions, incidents and dispatchers.                      *)
(*                                                                         *)
(* The settings of targets and transports and their tests touch the rows   *)
(* only by failing pending ones; the two outboxes leave the settings of    *)
(* targets alone.  Each invariant is therefore proved once over what such  *)
(* a step does to the variables the invariant is about, and the actions    *)
(* are shown to be steps of that kind.                                     *)
(***************************************************************************)
EXTENDS Notifications, TLAPS

MessageSet == ItemSet \cup AlertSet

-----------------------------------------------------------------------------
(* Rows.                                                                   *)

\* The message a row stands for: everything but the progress of its delivery.
SameMessage(q, r) ==
    /\ q.kind = r.kind /\ q.target = r.target /\ q.wanted = r.wanted
    /\ q.account = r.account /\ q.binding = r.binding
    /\ q.cfg = r.cfg /\ q.act = r.act
    /\ q.at = r.at /\ q.published = r.published
    /\ r.kind = "item" => q.sub = r.sub /\ q.subGen = r.subGen

\* The progress of a delivery is what the outbox changes in a row.
LEMMA RowStatus ==
    ASSUME NEW r \in MessageSet, NEW st \in Statuses,
           NEW q, q = [r EXCEPT !.status = st]
    PROVE  /\ q \in MessageSet /\ SameMessage(q, r)
           /\ q.status = st /\ q.attempts = r.attempts /\ q.maybe = r.maybe
           /\ q.waiting = r.waiting
<1>1. CASE r \in ItemSet
    BY <1>1 DEF ItemSet, MessageSet, SameMessage
<1>2. CASE r \in AlertSet
    BY <1>2 DEF AlertSet, MessageSet, SameMessage
<1> QED BY <1>1, <1>2 DEF MessageSet

\* The same for a claim.
LEMMA RowClaimed ==
    ASSUME NEW r \in MessageSet,
           NEW q, q = [r EXCEPT !.status = "sending", !.attempts = @ + 1]
    PROVE  /\ q \in MessageSet /\ SameMessage(q, r)
           /\ q.status = "sending" /\ q.attempts = r.attempts + 1 /\ q.maybe = r.maybe
<1>1. PICK n : n = r.attempts + 1
    OBVIOUS
<1>2. r.attempts \in Nat
    BY DEF MessageSet, ItemSet, AlertSet
<1>3. n \in Nat
    BY <1>1, <1>2
<1>4. q = [r EXCEPT !.status = "sending", !.attempts = n]
    BY <1>1
<1>5. CASE r \in ItemSet
    BY <1>3, <1>4, <1>5, <1>1 DEF ItemSet, MessageSet, SameMessage, Statuses
<1>6. CASE r \in AlertSet
    BY <1>3, <1>4, <1>6, <1>1 DEF AlertSet, MessageSet, SameMessage, Statuses
<1> QED BY <1>5, <1>6 DEF MessageSet

\* The same for a transmission.
LEMMA RowSent ==
    ASSUME NEW r \in MessageSet, NEW q, q = [r EXCEPT !.maybe = @ + 1]
    PROVE  /\ q \in MessageSet /\ SameMessage(q, r)
           /\ q.status = r.status /\ q.attempts = r.attempts /\ q.maybe = r.maybe + 1
<1>1. CASE r \in ItemSet
    BY <1>1 DEF ItemSet, MessageSet, SameMessage
<1>2. CASE r \in AlertSet
    BY <1>2 DEF AlertSet, MessageSet, SameMessage
<1> QED BY <1>1, <1>2 DEF MessageSet

\* The same for a retry that falls due.
LEMMA RowDue ==
    ASSUME NEW r \in MessageSet, NEW q, q = [r EXCEPT !.waiting = FALSE]
    PROVE  /\ q \in MessageSet /\ SameMessage(q, r)
           /\ q.status = r.status /\ q.attempts = r.attempts /\ q.maybe = r.maybe
<1>1. CASE r \in ItemSet
    BY <1>1 DEF ItemSet, MessageSet, SameMessage
<1>2. CASE r \in AlertSet
    BY <1>2 DEF AlertSet, MessageSet, SameMessage
<1> QED BY <1>1, <1>2 DEF MessageSet

-----------------------------------------------------------------------------
(* What the steps do to the rows.                                          *)

Progress(q, r) == q.status = r.status /\ q.attempts = r.attempts /\ q.maybe = r.maybe

\* Every row stays the message it is, and those outside K as they are.
RowsKeep(K) ==
    /\ K \subseteq DOMAIN rows
    /\ DOMAIN rows' = DOMAIN rows
    /\ rows' \in [DOMAIN rows -> MessageSet]
    /\ \A k \in DOMAIN rows : SameMessage(rows'[k], rows[k])
    /\ \A k \in DOMAIN rows \ K : Progress(rows'[k], rows[k])

\* A message is itself.
LEMMA SameSelf ==
    ASSUME NEW r PROVE SameMessage(r, r) /\ Progress(r, r)
BY DEF SameMessage, Progress

\* Unchanged rows.
LEMMA RowsSame ==
    ASSUME RowTypes, rows' = rows
    PROVE  RowsKeep({})
BY SameSelf DEF RowTypes, RowsKeep, MessageSet

\* FailRows: pending rows are failed.
LEMMA RowsFailed ==
    ASSUME RowTypes, NEW ks, rows' = FailRows(ks)
    PROVE  LET K == {k \in DOMAIN rows : k \in ks /\ rows[k].status = "pending"} IN
           /\ RowsKeep(K)
           /\ \A k \in K : /\ rows'[k].status = "failed"
                           /\ rows'[k].attempts = rows[k].attempts
                           /\ rows'[k].maybe = rows[k].maybe
<1> DEFINE K == {k \in DOMAIN rows : k \in ks /\ rows[k].status = "pending"}
<1>1. rows \in [DOMAIN rows -> MessageSet]
    BY DEF RowTypes, MessageSet
<1>2. /\ DOMAIN rows' = DOMAIN rows
      /\ \A k \in DOMAIN rows :
            rows'[k] = IF k \in K THEN [rows[k] EXCEPT !.status = "failed"] ELSE rows[k]
      /\ rows' = [k \in DOMAIN rows |-> rows'[k]]
    BY DEF FailRows
<1>3. ASSUME NEW k \in K
      PROVE  /\ rows'[k] \in MessageSet /\ SameMessage(rows'[k], rows[k])
             /\ rows'[k].status = "failed" /\ rows'[k].attempts = rows[k].attempts
             /\ rows'[k].maybe = rows[k].maybe
    BY <1>1, <1>2, RowStatus DEF Statuses
<1>4. ASSUME NEW k \in DOMAIN rows \ K
      PROVE  rows'[k] \in MessageSet /\ SameMessage(rows'[k], rows[k])
             /\ Progress(rows'[k], rows[k])
    BY <1>1, <1>2, SameSelf
<1> QED BY <1>2, <1>3, <1>4 DEF RowsKeep

\* SetStatus: rows being sent get a result.
LEMMA RowsSet ==
    ASSUME RowTypes, NEW ks, NEW st \in Statuses, rows' = SetStatus(ks, st)
    PROVE  LET K == {k \in DOMAIN rows : k \in ks /\ rows[k].status = "sending"} IN
           /\ RowsKeep(K)
           /\ \A k \in K : /\ rows'[k].status = st
                           /\ rows'[k].attempts = rows[k].attempts
                           /\ rows'[k].maybe = rows[k].maybe
<1> DEFINE K == {k \in DOMAIN rows : k \in ks /\ rows[k].status = "sending"}
<1>1. rows \in [DOMAIN rows -> MessageSet]
    BY DEF RowTypes, MessageSet
<1>2. /\ DOMAIN rows' = DOMAIN rows
      /\ \A k \in DOMAIN rows :
            rows'[k] = IF k \in K THEN [rows[k] EXCEPT !.status = st] ELSE rows[k]
      /\ rows' = [k \in DOMAIN rows |-> rows'[k]]
    BY DEF SetStatus
<1>3. ASSUME NEW k \in K
      PROVE  /\ rows'[k] \in MessageSet /\ SameMessage(rows'[k], rows[k])
             /\ rows'[k].status = st /\ rows'[k].attempts = rows[k].attempts
             /\ rows'[k].maybe = rows[k].maybe
    BY <1>1, <1>2, RowStatus
<1>4. ASSUME NEW k \in DOMAIN rows \ K
      PROVE  rows'[k] \in MessageSet /\ SameMessage(rows'[k], rows[k])
             /\ Progress(rows'[k], rows[k])
    BY <1>1, <1>2, SameSelf
<1> QED BY <1>2, <1>3, <1>4 DEF RowsKeep

\* Refused: rows being sent were certainly not accepted.
LEMMA RowsRefused ==
    ASSUME RowTypes, NEW ks, NEW st \in Statuses, rows' = Refused(ks, st, FALSE)
    PROVE  LET K == {k \in DOMAIN rows : k \in ks /\ rows[k].status = "sending"} IN
           /\ RowsKeep(K)
           /\ \A k \in K : /\ rows'[k].status = st
                           /\ rows'[k].attempts = rows[k].attempts
                           /\ rows'[k].maybe = 0
<1> DEFINE K == {k \in DOMAIN rows : k \in ks /\ rows[k].status = "sending"}
<1>1. rows \in [DOMAIN rows -> MessageSet]
    BY DEF RowTypes, MessageSet
<1>2. /\ DOMAIN rows' = DOMAIN rows
      /\ \A k \in DOMAIN rows :
            rows'[k] = IF k \in K
                       THEN [rows[k] EXCEPT !.status = st, !.maybe = 0, !.waiting = FALSE]
                       ELSE rows[k]
      /\ rows' = [k \in DOMAIN rows |-> rows'[k]]
    BY DEF Refused
<1>3. ASSUME NEW k \in K
      PROVE  /\ rows'[k] \in MessageSet /\ SameMessage(rows'[k], rows[k])
             /\ rows'[k].status = st /\ rows'[k].attempts = rows[k].attempts
             /\ rows'[k].maybe = 0
    <2>1. rows'[k] = [rows[k] EXCEPT !.status = st, !.maybe = 0, !.waiting = FALSE]
        BY <1>2
    <2>2. rows[k] \in MessageSet
        BY <1>1
    <2>3. PICK r \in MessageSet : r = rows[k]
        BY <2>2
    <2>4. PICK q : q = rows'[k]
        OBVIOUS
    <2>5. q = [r EXCEPT !.status = st, !.maybe = 0, !.waiting = FALSE]
        BY <2>1, <2>3, <2>4, Zenon
    <2>6. /\ q \in MessageSet /\ SameMessage(q, r)
          /\ q.status = st /\ q.attempts = r.attempts /\ q.maybe = 0
        <3>1. CASE r \in ItemSet
            BY <2>5, <3>1 DEF ItemSet, MessageSet, SameMessage
        <3>2. CASE r \in AlertSet
            BY <2>5, <3>2 DEF AlertSet, MessageSet, SameMessage
        <3> QED BY <3>1, <3>2 DEF MessageSet
    <2> QED BY <2>3, <2>4, <2>6
<1>4. ASSUME NEW k \in DOMAIN rows \ K
      PROVE  rows'[k] \in MessageSet /\ SameMessage(rows'[k], rows[k])
             /\ Progress(rows'[k], rows[k])
    BY <1>1, <1>2, SameSelf
<1> QED BY <1>2, <1>3, <1>4 DEF RowsKeep

\* And are to be tried again later.
LEMMA RowsPostponed ==
    ASSUME RowTypes, NEW ks, NEW st \in Statuses, rows' = Refused(ks, st, TRUE)
    PROVE  LET K == {k \in DOMAIN rows : k \in ks /\ rows[k].status = "sending"} IN
           /\ RowsKeep(K)
           /\ \A k \in K : /\ rows'[k].status = st
                           /\ rows'[k].attempts = rows[k].attempts
                           /\ rows'[k].maybe = 0
<1> DEFINE K == {k \in DOMAIN rows : k \in ks /\ rows[k].status = "sending"}
<1>1. rows \in [DOMAIN rows -> MessageSet]
    BY DEF RowTypes, MessageSet
<1>2. /\ DOMAIN rows' = DOMAIN rows
      /\ \A k \in DOMAIN rows :
            rows'[k] = IF k \in K
                       THEN [rows[k] EXCEPT !.status = st, !.maybe = 0, !.waiting = TRUE]
                       ELSE rows[k]
      /\ rows' = [k \in DOMAIN rows |-> rows'[k]]
    BY DEF Refused
<1>3. ASSUME NEW k \in K
      PROVE  /\ rows'[k] \in MessageSet /\ SameMessage(rows'[k], rows[k])
             /\ rows'[k].status = st /\ rows'[k].attempts = rows[k].attempts
             /\ rows'[k].maybe = 0
    <2>1. rows'[k] = [rows[k] EXCEPT !.status = st, !.maybe = 0, !.waiting = TRUE]
        BY <1>2
    <2>2. rows[k] \in MessageSet
        BY <1>1
    <2>3. PICK r \in MessageSet : r = rows[k]
        BY <2>2
    <2>4. PICK q : q = rows'[k]
        OBVIOUS
    <2>5. q = [r EXCEPT !.status = st, !.maybe = 0, !.waiting = TRUE]
        BY <2>1, <2>3, <2>4, Zenon
    <2>6. /\ q \in MessageSet /\ SameMessage(q, r)
          /\ q.status = st /\ q.attempts = r.attempts /\ q.maybe = 0
        <3>1. CASE r \in ItemSet
            BY <2>5, <3>1 DEF ItemSet, MessageSet, SameMessage
        <3>2. CASE r \in AlertSet
            BY <2>5, <3>2 DEF AlertSet, MessageSet, SameMessage
        <3> QED BY <3>1, <3>2 DEF MessageSet
    <2> QED BY <2>3, <2>4, <2>6
<1>4. ASSUME NEW k \in DOMAIN rows \ K
      PROVE  rows'[k] \in MessageSet /\ SameMessage(rows'[k], rows[k])
             /\ Progress(rows'[k], rows[k])
    BY <1>1, <1>2, SameSelf
<1> QED BY <1>2, <1>3, <1>4 DEF RowsKeep

\* A claim of the rows K.
LEMMA RowsClaimed ==
    ASSUME RowTypes, NEW K \in SUBSET DOMAIN rows,
           rows' = [j \in DOMAIN rows |->
                        IF j \in K
                        THEN [rows[j] EXCEPT !.status = "sending", !.attempts = @ + 1]
                        ELSE rows[j]]
    PROVE  /\ RowsKeep(K)
           /\ \A k \in K : /\ rows'[k].status = "sending"
                           /\ rows'[k].attempts = rows[k].attempts + 1
                           /\ rows'[k].maybe = rows[k].maybe
<1>1. rows \in [DOMAIN rows -> MessageSet]
    BY DEF RowTypes, MessageSet
<1>2. /\ DOMAIN rows' = DOMAIN rows
      /\ rows' = [k \in DOMAIN rows |-> rows'[k]]
    OBVIOUS
<1>3. ASSUME NEW k \in K
      PROVE  /\ rows'[k] \in MessageSet /\ SameMessage(rows'[k], rows[k])
             /\ rows'[k].status = "sending" /\ rows'[k].attempts = rows[k].attempts + 1
             /\ rows'[k].maybe = rows[k].maybe
    <2>1. rows'[k] = [rows[k] EXCEPT !.status = "sending", !.attempts = @ + 1]
        OBVIOUS
    <2>2. rows[k] \in MessageSet
        BY <1>1
    <2> QED BY <2>1, <2>2, RowClaimed
<1>4. ASSUME NEW k \in DOMAIN rows \ K
      PROVE  rows'[k] \in MessageSet /\ SameMessage(rows'[k], rows[k])
             /\ Progress(rows'[k], rows[k])
    BY <1>1, SameSelf
<1> QED BY <1>2, <1>3, <1>4 DEF RowsKeep

\* A transmission of the rows K.
LEMMA RowsTransmitted ==
    ASSUME RowTypes, NEW K \in SUBSET DOMAIN rows,
           rows' = [k \in DOMAIN rows |->
                        IF k \in K THEN [rows[k] EXCEPT !.maybe = @ + 1] ELSE rows[k]]
    PROVE  /\ RowsKeep(K)
           /\ \A k \in K : /\ rows'[k].status = rows[k].status
                           /\ rows'[k].attempts = rows[k].attempts
                           /\ rows'[k].maybe = rows[k].maybe + 1
<1>1. rows \in [DOMAIN rows -> MessageSet]
    BY DEF RowTypes, MessageSet
<1>2. /\ DOMAIN rows' = DOMAIN rows
      /\ rows' = [k \in DOMAIN rows |-> rows'[k]]
    OBVIOUS
<1>3. ASSUME NEW k \in K
      PROVE  /\ rows'[k] \in MessageSet /\ SameMessage(rows'[k], rows[k])
             /\ rows'[k].status = rows[k].status /\ rows'[k].attempts = rows[k].attempts
             /\ rows'[k].maybe = rows[k].maybe + 1
    <2>1. rows'[k] = [rows[k] EXCEPT !.maybe = @ + 1]
        OBVIOUS
    <2>2. rows[k] \in MessageSet
        BY <1>1
    <2> QED BY <2>1, <2>2, RowSent
<1>4. ASSUME NEW k \in DOMAIN rows \ K
      PROVE  rows'[k] \in MessageSet /\ SameMessage(rows'[k], rows[k])
             /\ Progress(rows'[k], rows[k])
    BY <1>1, SameSelf
<1> QED BY <1>2, <1>3, <1>4 DEF RowsKeep

\* A single row k becomes q.
LEMMA RowReplaced ==
    ASSUME RowTypes, NEW k \in DOMAIN rows, NEW q \in MessageSet,
           SameMessage(q, rows[k]), rows' = [rows EXCEPT ![k] = q]
    PROVE  RowsKeep({k}) /\ rows'[k] = q
<1>1. rows \in [DOMAIN rows -> MessageSet]
    BY DEF RowTypes, MessageSet
<1>2. /\ DOMAIN rows' = DOMAIN rows /\ rows'[k] = q
      /\ rows' \in [DOMAIN rows -> MessageSet]
    BY <1>1
<1>3. ASSUME NEW j \in DOMAIN rows \ {k}
      PROVE  SameMessage(rows'[j], rows[j]) /\ Progress(rows'[j], rows[j])
    <2>1. rows'[j] = rows[j]
        BY <1>1
    <2> QED BY <2>1, SameSelf
<1> QED BY <1>2, <1>3 DEF RowsKeep

-----------------------------------------------------------------------------
(* The rows as the ledger sees them.                                       *)

\* Rows outside K have the entry they had.
LEMMA EntryKept ==
    ASSUME NEW K, RowsKeep(K), NEW k, k \notin K
    PROVE  Entry(k)' = Entry(k)
BY DEF RowsKeep, Progress, Entry

\* Pending or unsent rows that fail are given up.
LEMMA LedgerGivesUp ==
    ASSUME RowTypes, NEW K, RowsKeep(K),
           \A k \in K : /\ rows[k].status \in {"pending", "sending"} /\ rows[k].maybe = 0
                        /\ rows'[k].status = "failed"
                        /\ rows'[k].attempts = rows[k].attempts
                        /\ rows'[k].maybe = rows[k].maybe
    PROVE  Ledger!LedgerNext
<1>1. K \in SUBSET MessageKeys /\ K \subseteq DOMAIN rows /\ DOMAIN rows' = DOMAIN rows
    BY DEF RowsKeep, RowTypes
<1>2. \A k \in K : /\ Entry(k).status \in {"pending", "sending"} /\ Entry(k).maybe = 0
                   /\ Entry(k)' = [Entry(k) EXCEPT !.status = "failed"]
    BY <1>1 DEF Entry
<1>3. \A k \in MessageKeys \ K : Entry(k)' = Entry(k)
    BY EntryKept
<1>4. Ledger!GiveUp(K)
    BY <1>1, <1>2, <1>3 DEF Ledger!GiveUp, Ledger!Move
<1> QED BY <1>1, <1>4 DEF Ledger!LedgerNext

\* A claim takes the rows up.
LEMMA LedgerTakes ==
    ASSUME RowTypes, NEW K, RowsKeep(K),
           \A k \in K : /\ rows[k].status = "pending"
                        /\ rows[k].attempts < MAX_DELIVERY_ATTEMPTS
                        /\ rows'[k].status = "sending"
                        /\ rows'[k].attempts = rows[k].attempts + 1
                        /\ rows'[k].maybe = rows[k].maybe
    PROVE  Ledger!LedgerNext
<1>1. K \in SUBSET MessageKeys /\ K \subseteq DOMAIN rows /\ DOMAIN rows' = DOMAIN rows
    BY DEF RowsKeep, RowTypes
<1>2. \A k \in K : /\ Entry(k).status = "pending"
                   /\ Entry(k).tries < MAX_DELIVERY_ATTEMPTS
                   /\ Entry(k)' = [Entry(k) EXCEPT !.status = "sending", !.tries = @ + 1]
    <2> SUFFICES ASSUME NEW k \in K
                 PROVE  /\ Entry(k).status = "pending"
                        /\ Entry(k).tries < MAX_DELIVERY_ATTEMPTS
                        /\ Entry(k)' = [Entry(k) EXCEPT !.status = "sending", !.tries = @ + 1]
        OBVIOUS
    <2>1. Entry(k) = [status |-> rows[k].status, tries |-> rows[k].attempts,
                      maybe |-> rows[k].maybe]
        BY <1>1 DEF Entry
    <2>2. Entry(k)' = [status |-> rows'[k].status, tries |-> rows'[k].attempts,
                       maybe |-> rows'[k].maybe]
        BY <1>1 DEF Entry
    <2>3. PICK g : g = [Entry(k) EXCEPT !.status = "sending"]
        OBVIOUS
    <2>4. g = [status |-> "sending", tries |-> rows[k].attempts, maybe |-> rows[k].maybe]
        BY <2>1, <2>3
    <2>5. [g EXCEPT !.tries = rows[k].attempts + 1]
            = [status |-> "sending", tries |-> rows[k].attempts + 1, maybe |-> rows[k].maybe]
        BY <2>4
    <2>6. [Entry(k) EXCEPT !.status = "sending", !.tries = rows[k].attempts + 1]
            = [g EXCEPT !.tries = rows[k].attempts + 1]
        BY <2>3, Zenon
    <2>7. Entry(k).status = rows[k].status /\ Entry(k).tries = rows[k].attempts
        BY <2>1
    <2>8. Entry(k)' = [Entry(k) EXCEPT !.status = "sending", !.tries = rows[k].attempts + 1]
        BY <2>2, <2>5, <2>6
    <2> QED BY <2>7, <2>8
<1>3. \A k \in MessageKeys \ K : Entry(k)' = Entry(k)
    BY EntryKept
<1>4. \A k \in MessageKeys : Entry(k)' =
        IF k \in K THEN [Entry(k) EXCEPT !.status = "sending", !.tries = @ + 1] ELSE Entry(k)
    BY <1>2, <1>3, Zenon
<1>5. Ledger!Take(K)
    BY <1>1, <1>2, <1>4 DEF Ledger!Take, Ledger!Move
<1> QED BY <1>1, <1>5 DEF Ledger!LedgerNext

\* A transmission of rows that were not transmitted, or were refused since.
LEMMA LedgerTransmits ==
    ASSUME RowTypes, NEW K, RowsKeep(K),
           \A k \in K : /\ rows[k].status = "sending" /\ rows[k].maybe = 0
                        /\ rows'[k].status = rows[k].status
                        /\ rows'[k].attempts = rows[k].attempts
                        /\ rows'[k].maybe = 1
    PROVE  Ledger!LedgerNext
<1>1. K \in SUBSET MessageKeys /\ K \subseteq DOMAIN rows /\ DOMAIN rows' = DOMAIN rows
    BY DEF RowsKeep, RowTypes
<1>2. \A k \in K : /\ Entry(k).status = "sending" /\ Entry(k).maybe = 0
                   /\ Entry(k)' = [Entry(k) EXCEPT !.maybe = 1]
    BY <1>1 DEF Entry
<1>3. \A k \in MessageKeys \ K : Entry(k)' = Entry(k)
    BY EntryKept
<1>4. Ledger!Transmit(K)
    BY <1>1, <1>2, <1>3 DEF Ledger!Transmit, Ledger!Move
<1> QED BY <1>1, <1>4 DEF Ledger!LedgerNext

\* An answer that accepts.
LEMMA LedgerAccepts ==
    ASSUME RowTypes, NEW K, RowsKeep(K),
           \A k \in K : /\ rows[k].status = "sending" /\ rows[k].maybe = 1
                        /\ rows'[k].status = "succeeded"
                        /\ rows'[k].attempts = rows[k].attempts
                        /\ rows'[k].maybe = rows[k].maybe
    PROVE  Ledger!LedgerNext
<1>1. K \in SUBSET MessageKeys /\ K \subseteq DOMAIN rows /\ DOMAIN rows' = DOMAIN rows
    BY DEF RowsKeep, RowTypes
<1>2. \A k \in K : /\ Entry(k).status = "sending" /\ Entry(k).maybe = 1
                   /\ Entry(k)' = [Entry(k) EXCEPT !.status = "succeeded"]
    BY <1>1 DEF Entry
<1>3. \A k \in MessageKeys \ K : Entry(k)' = Entry(k)
    BY EntryKept
<1>4. Ledger!Accept(K)
    BY <1>1, <1>2, <1>3 DEF Ledger!Accept, Ledger!Move
<1> QED BY <1>1, <1>4 DEF Ledger!LedgerNext

\* An answer that refuses.
LEMMA LedgerRefuses ==
    ASSUME RowTypes, NEW K, RowsKeep(K), NEW st \in {"failed", "pending"},
           \A k \in K : /\ rows[k].status = "sending" /\ rows[k].maybe = 1
                        /\ rows'[k].status = st
                        /\ rows'[k].attempts = rows[k].attempts
                        /\ rows'[k].maybe = 0
    PROVE  Ledger!LedgerNext
<1>1. K \in SUBSET MessageKeys /\ K \subseteq DOMAIN rows /\ DOMAIN rows' = DOMAIN rows
    BY DEF RowsKeep, RowTypes
<1>2. \A k \in K : /\ Entry(k).status = "sending" /\ Entry(k).maybe = 1
                   /\ Entry(k)' = [Entry(k) EXCEPT !.status = st, !.maybe = 0]
    <2> SUFFICES ASSUME NEW k \in K
                 PROVE  /\ Entry(k).status = "sending" /\ Entry(k).maybe = 1
                        /\ Entry(k)' = [Entry(k) EXCEPT !.status = st, !.maybe = 0]
        OBVIOUS
    <2>1. Entry(k) = [status |-> rows[k].status, tries |-> rows[k].attempts,
                      maybe |-> rows[k].maybe]
        BY <1>1 DEF Entry
    <2>2. Entry(k)' = [status |-> rows'[k].status, tries |-> rows'[k].attempts,
                       maybe |-> rows'[k].maybe]
        BY <1>1 DEF Entry
    <2>3. PICK g : g = [Entry(k) EXCEPT !.status = st]
        OBVIOUS
    <2>4. g = [status |-> st, tries |-> rows[k].attempts, maybe |-> rows[k].maybe]
        BY <2>1, <2>3
    <2>5. [g EXCEPT !.maybe = 0]
            = [status |-> st, tries |-> rows[k].attempts, maybe |-> 0]
        BY <2>4
    <2>6. [Entry(k) EXCEPT !.status = st, !.maybe = 0]
            = [g EXCEPT !.maybe = 0]
        BY <2>3, Zenon
    <2>7. Entry(k).status = rows[k].status /\ Entry(k).maybe = rows[k].maybe
        BY <2>1
    <2>8. Entry(k)' = [Entry(k) EXCEPT !.status = st, !.maybe = 0]
        BY <2>2, <2>5, <2>6
    <2> QED BY <2>7, <2>8
<1>3. \A k \in MessageKeys \ K : Entry(k)' = Entry(k)
    BY EntryKept
<1>4. \A k \in MessageKeys : Entry(k)' =
        IF k \in K THEN [Entry(k) EXCEPT !.status = st, !.maybe = 0] ELSE Entry(k)
    BY <1>2, <1>3, Zenon
<1>5. Ledger!Refuse(K, st)
    BY <1>1, <1>2, <1>4 DEF Ledger!Refuse, Ledger!Move
<1> QED BY <1>1, <1>5 DEF Ledger!LedgerNext

\* The rows, and new ones that wait to be sent.
Staged ==
    /\ DOMAIN rows \subseteq DOMAIN rows' /\ DOMAIN rows' \subseteq MessageKeys
    /\ rows' \in [DOMAIN rows' -> MessageSet]
    /\ \A k \in DOMAIN rows : rows'[k] = rows[k]
    /\ \A k \in DOMAIN rows' \ DOMAIN rows :
        rows'[k].status = "pending" /\ rows'[k].attempts = 0 /\ rows'[k].maybe = 0

\* Staging announces the new rows.
LEMMA LedgerAnnounces ==
    ASSUME Staged
    PROVE  Ledger!LedgerNext
<1> DEFINE K == DOMAIN rows' \ DOMAIN rows
<1>1. K \in SUBSET MessageKeys
    BY DEF Staged
<1>2. \A k \in K : /\ Entry(k).status = "none"
                   /\ Entry(k)' = [Entry(k) EXCEPT !.status = "pending"]
    BY DEF Entry, Staged
<1>3. \A k \in MessageKeys \ K : Entry(k)' = Entry(k)
    BY DEF Entry, Staged
<1>4. Ledger!Announce(K)
    BY <1>1, <1>2, <1>3 DEF Ledger!Announce, Ledger!Move
<1> QED BY <1>1, <1>4 DEF Ledger!LedgerNext

-----------------------------------------------------------------------------
(* The rows in the hands of the dispatchers.                               *)

HeldOf(d) == IF d.pc \in {"send", "sent"} THEN d.live ELSE d.batch

\* A step that only fails pending rows.
LEMMA DeliveryQuiet ==
    ASSUME RowTypes, DeliveryInv, NEW K, RowsKeep(K),
           \A k \in K : rows[k].status = "pending" /\ rows'[k].status = "failed",
           UNCHANGED <<disp, alertDisp>>
    PROVE  RowTypes' /\ DeliveryInv'
<1>1. RowTypes'
    BY DEF RowTypes, RowsKeep, MessageSet, DispSet, AlertDispSet
<1>2. \A k \in DOMAIN rows : rows'[k].status = "pending" =>
        rows'[k].maybe = 0 /\ rows'[k].attempts < MAX_DELIVERY_ATTEMPTS
    BY DEF RowsKeep, Progress, DeliveryInv
<1>3. ASSUME NEW w \in Workers, NEW k \in Held(w)
      PROVE  rows'[k].kind = rows[k].kind /\ rows'[k].target = rows[k].target
             /\ rows'[k].status = rows[k].status /\ rows'[k].maybe = rows[k].maybe
    BY DEF RowTypes, DispSet, RowsKeep, Progress, DeliveryInv, Held, SameMessage
<1>4. \A w \in Workers : Held(w)' = Held(w)
    BY DEF Held
<1>5. ASSUME NEW w \in AlertWorkers, alertDisp[w].pc # "idle", NEW k, k = alertDisp[w].key
      PROVE  k \in DOMAIN rows /\ rows'[k].kind = rows[k].kind
             /\ Progress(rows'[k], rows[k])
    <2>1. k \in DOMAIN rows /\ rows[k].status = "sending"
        BY <1>5 DEF DeliveryInv
    <2> QED BY <2>1 DEF RowsKeep, SameMessage
<1>6. DeliveryInv'
    <2>1. \A w \in Workers :
            /\ disp'[w].live \subseteq disp'[w].batch
            /\ disp'[w].pc = "idle" => disp'[w].batch = {}
            /\ disp'[w].pc # "idle" => disp'[w].target \in Targets
            /\ \A k \in Held(w)' :
                /\ rows'[k].kind = "item" /\ rows'[k].target = disp'[w].target
                /\ rows'[k].status = "sending"
                /\ rows'[k].maybe = IF disp'[w].pc = "sent" THEN 1 ELSE 0
        BY <1>3, <1>4 DEF DeliveryInv
    <2>2. \A v, w \in Workers : v # w => Held(v)' \cap Held(w)' = {}
        BY <1>4 DEF DeliveryInv
    <2>3. ASSUME NEW w \in AlertWorkers, alertDisp'[w].pc # "idle"
          PROVE  LET k == alertDisp'[w].key IN
                 /\ k \in DOMAIN rows' /\ rows'[k].kind = "alert"
                 /\ rows'[k].status = "sending"
                 /\ rows'[k].attempts = alertDisp'[w].attempts
                 /\ rows'[k].maybe = IF alertDisp'[w].pc = "sent" THEN 1 ELSE 0
        BY <2>3, <1>5 DEF DeliveryInv, RowsKeep, Progress
    <2> QED BY <1>2, <2>1, <2>2, <2>3 DEF DeliveryInv, RowsKeep
<1> QED BY <1>1, <1>6

\* A step that stages rows.
LEMMA DeliveryStaged ==
    ASSUME RowTypes, DeliveryInv, Staged, UNCHANGED <<disp, alertDisp>>
    PROVE  RowTypes' /\ DeliveryInv'
<1>1. RowTypes'
    BY DEF RowTypes, Staged, MessageSet, DispSet, AlertDispSet
<1>2. \A k \in DOMAIN rows' : rows'[k].status = "pending" =>
        rows'[k].maybe = 0 /\ rows'[k].attempts < MAX_DELIVERY_ATTEMPTS
    BY DEF Staged, DeliveryInv, MAX_DELIVERY_ATTEMPTS
<1>3. \A w \in Workers : Held(w)' = Held(w) /\ Held(w) \subseteq DOMAIN rows
    BY DEF Held, RowTypes, DispSet
<1>4. ASSUME NEW w \in AlertWorkers, alertDisp[w].pc # "idle"
      PROVE  alertDisp[w].key \in DOMAIN rows
    BY <1>4 DEF DeliveryInv
<1> QED BY <1>1, <1>2, <1>3, <1>4 DEF DeliveryInv, Staged

\* A step of the item dispatcher w, which ends in the state d and changes the
\* rows K, of those it holds or takes.
LEMMA DeliveryItem ==
    ASSUME RowTypes, DeliveryInv, NEW w \in Workers, NEW d \in DispSet, NEW K, RowsKeep(K),
           disp' = [disp EXCEPT ![w] = d], alertDisp' = alertDisp,
           \A k \in K : /\ rows[k].kind = "item"
                        /\ k \in Held(w) \/ rows[k].status = "pending"
                        /\ rows'[k].status # "pending",
           d.live \subseteq d.batch,
           d.pc = "idle" => d.batch = {},
           d.pc # "idle" => d.target \in Targets,
           \A k \in HeldOf(d) :
                /\ k \in Held(w) \/ rows[k].status = "pending"
                /\ rows[k].kind = "item" /\ rows[k].target = d.target
                /\ rows'[k].status = "sending"
                /\ rows'[k].maybe = IF d.pc = "sent" THEN 1 ELSE 0
    PROVE  RowTypes' /\ DeliveryInv'
<1>1. /\ disp'[w] = d
      /\ \A v \in Workers \ {w} : disp'[v] = disp[v]
    BY DEF RowTypes
<1>2. RowTypes'
    BY DEF RowTypes, RowsKeep, MessageSet, DispSet, AlertDispSet
<1>3. \A k \in DOMAIN rows : rows'[k].status = "pending" =>
        rows'[k].maybe = 0 /\ rows'[k].attempts < MAX_DELIVERY_ATTEMPTS
    BY DEF RowsKeep, Progress, DeliveryInv
<1>4. Held(w)' = HeldOf(d) /\ \A v \in Workers \ {w} : Held(v)' = Held(v)
    BY <1>1 DEF Held, HeldOf
<1>5. ASSUME NEW v \in Workers \ {w}, NEW k \in Held(v)
      PROVE  /\ k \in DOMAIN rows /\ k \notin K /\ k \notin HeldOf(d)
             /\ SameMessage(rows'[k], rows[k]) /\ Progress(rows'[k], rows[k])
    <2>1. k \in DOMAIN rows
        BY DEF RowTypes, DispSet, Held
    <2>2. rows[k].status = "sending" /\ k \notin Held(w)
        BY DEF DeliveryInv
    <2> QED BY <2>1, <2>2 DEF RowsKeep
<1>6. \A k \in HeldOf(d) : k \in DOMAIN rows
    BY DEF HeldOf, DispSet
<1>7. ASSUME NEW v \in AlertWorkers, alertDisp[v].pc # "idle"
      PROVE  /\ alertDisp[v].key \in DOMAIN rows
             /\ SameMessage(rows'[alertDisp[v].key], rows[alertDisp[v].key])
             /\ Progress(rows'[alertDisp[v].key], rows[alertDisp[v].key])
    <2>1. alertDisp[v].key \in DOMAIN rows /\ rows[alertDisp[v].key].kind = "alert"
        BY <1>7 DEF DeliveryInv
    <2> QED BY <2>1 DEF RowsKeep
<1>8. DeliveryInv'
    <2>1. ASSUME NEW v \in Workers
          PROVE  /\ disp'[v].live \subseteq disp'[v].batch
                 /\ disp'[v].pc = "idle" => disp'[v].batch = {}
                 /\ disp'[v].pc # "idle" => disp'[v].target \in Targets
                 /\ \A k \in Held(v)' :
                     /\ rows'[k].kind = "item" /\ rows'[k].target = disp'[v].target
                     /\ rows'[k].status = "sending"
                     /\ rows'[k].maybe = IF disp'[v].pc = "sent" THEN 1 ELSE 0
        <3>1. CASE v = w
            BY <3>1, <1>1, <1>4, <1>6 DEF RowsKeep, SameMessage
        <3>2. CASE v # w
            BY <3>2, <1>1, <1>4, <1>5 DEF DeliveryInv, SameMessage, Progress
        <3> QED BY <3>1, <3>2
    <2>2. ASSUME NEW u \in Workers, NEW v \in Workers, u # v
          PROVE  Held(u)' \cap Held(v)' = {}
        <3>1. CASE u = w
            BY <3>1, <2>2, <1>4, <1>5
        <3>2. CASE v = w
            BY <3>2, <2>2, <1>4, <1>5
        <3>3. CASE u # w /\ v # w
            BY <3>3, <2>2, <1>4 DEF DeliveryInv
        <3> QED BY <3>1, <3>2, <3>3
    <2>3. ASSUME NEW v \in AlertWorkers, alertDisp'[v].pc # "idle"
          PROVE  LET k == alertDisp'[v].key IN
                 /\ k \in DOMAIN rows' /\ rows'[k].kind = "alert"
                 /\ rows'[k].status = "sending"
                 /\ rows'[k].attempts = alertDisp'[v].attempts
                 /\ rows'[k].maybe = IF alertDisp'[v].pc = "sent" THEN 1 ELSE 0
        BY <2>3, <1>7 DEF DeliveryInv, RowsKeep, Progress, SameMessage
    <2> QED BY <1>3, <2>1, <2>2, <2>3 DEF DeliveryInv, RowsKeep
<1> QED BY <1>2, <1>8

\* A step of the alert dispatcher w, which ends in the state d and changes the
\* rows K, of the one it holds or takes.
LEMMA DeliveryAlert ==
    ASSUME RowTypes, DeliveryInv, NEW w \in AlertWorkers, NEW d \in AlertDispSet,
           NEW K, RowsKeep(K),
           alertDisp' = [alertDisp EXCEPT ![w] = d], disp' = disp,
           \A k \in K : /\ rows[k].kind = "alert"
                        /\ \/ alertDisp[w].pc # "idle" /\ k = alertDisp[w].key
                           \/ rows[k].status = "pending"
                        /\ rows'[k].status = "pending" =>
                            rows'[k].maybe = 0 /\ rows'[k].attempts < MAX_DELIVERY_ATTEMPTS,
           d.pc # "idle" =>
                /\ d.key \in DOMAIN rows /\ rows[d.key].kind = "alert"
                /\ \/ alertDisp[w].pc # "idle" /\ d.key = alertDisp[w].key
                   \/ rows[d.key].status = "pending"
                /\ rows'[d.key].status = "sending"
                /\ rows'[d.key].attempts = d.attempts
                /\ rows'[d.key].maybe = IF d.pc = "sent" THEN 1 ELSE 0
    PROVE  RowTypes' /\ DeliveryInv'
<1>1. /\ alertDisp'[w] = d
      /\ \A v \in AlertWorkers \ {w} : alertDisp'[v] = alertDisp[v]
    BY DEF RowTypes
<1>2. RowTypes'
    BY DEF RowTypes, RowsKeep, MessageSet, DispSet, AlertDispSet
<1>3. \A k \in DOMAIN rows : rows'[k].status = "pending" =>
        rows'[k].maybe = 0 /\ rows'[k].attempts < MAX_DELIVERY_ATTEMPTS
    BY DEF RowsKeep, Progress, DeliveryInv
<1>4. \A v \in Workers : Held(v)' = Held(v)
    BY DEF Held
<1>5. ASSUME NEW v \in Workers, NEW k \in Held(v)
      PROVE  SameMessage(rows'[k], rows[k]) /\ Progress(rows'[k], rows[k])
    <2>1. k \in DOMAIN rows
        BY DEF RowTypes, DispSet, Held
    <2>2. rows[k].kind = "item"
        BY DEF DeliveryInv
    <2> QED BY <2>1, <2>2 DEF RowsKeep
<1>6. ASSUME NEW v \in AlertWorkers \ {w}, alertDisp[v].pc # "idle"
      PROVE  /\ alertDisp[v].key \in DOMAIN rows
             /\ alertDisp[v].key \notin K
             /\ d.pc # "idle" => alertDisp[v].key # d.key
             /\ SameMessage(rows'[alertDisp[v].key], rows[alertDisp[v].key])
             /\ Progress(rows'[alertDisp[v].key], rows[alertDisp[v].key])
    <2>1. alertDisp[v].key \in DOMAIN rows /\ rows[alertDisp[v].key].status = "sending"
        BY <1>6 DEF DeliveryInv
    <2>2. alertDisp[w].pc # "idle" => alertDisp[v].key # alertDisp[w].key
        BY <1>6 DEF DeliveryInv
    <2> QED BY <2>1, <2>2 DEF RowsKeep
<1>7. DeliveryInv'
    <2>1. \A v \in Workers :
            /\ disp'[v].live \subseteq disp'[v].batch
            /\ disp'[v].pc = "idle" => disp'[v].batch = {}
            /\ disp'[v].pc # "idle" => disp'[v].target \in Targets
            /\ \A k \in Held(v)' :
                /\ rows'[k].kind = "item" /\ rows'[k].target = disp'[v].target
                /\ rows'[k].status = "sending"
                /\ rows'[k].maybe = IF disp'[v].pc = "sent" THEN 1 ELSE 0
        BY <1>4, <1>5 DEF DeliveryInv, SameMessage, Progress
    <2>2. \A u, v \in Workers : u # v => Held(u)' \cap Held(v)' = {}
        BY <1>4 DEF DeliveryInv
    <2>3. ASSUME NEW v \in AlertWorkers, alertDisp'[v].pc # "idle"
          PROVE  LET k == alertDisp'[v].key IN
                 /\ k \in DOMAIN rows' /\ rows'[k].kind = "alert"
                 /\ rows'[k].status = "sending"
                 /\ rows'[k].attempts = alertDisp'[v].attempts
                 /\ rows'[k].maybe = IF alertDisp'[v].pc = "sent" THEN 1 ELSE 0
        <3>1. CASE v = w
            BY <3>1, <2>3, <1>1 DEF RowsKeep, SameMessage
        <3>2. CASE v # w
            BY <3>2, <2>3, <1>1, <1>6 DEF DeliveryInv, RowsKeep, SameMessage, Progress
        <3> QED BY <3>1, <3>2
    <2>4. ASSUME NEW u \in AlertWorkers, NEW v \in AlertWorkers, u # v,
                 alertDisp'[u].pc # "idle", alertDisp'[v].pc # "idle"
          PROVE  alertDisp'[u].key # alertDisp'[v].key
        <3>1. CASE u = w
            BY <3>1, <2>4, <1>1, <1>6
        <3>2. CASE v = w
            BY <3>2, <2>4, <1>1, <1>6
        <3>3. CASE u # w /\ v # w
            BY <3>3, <2>4, <1>1 DEF DeliveryInv
        <3> QED BY <3>1, <3>2, <3>3
    <2> QED BY <1>3, <2>1, <2>2, <2>3, <2>4 DEF DeliveryInv, RowsKeep
<1> QED BY <1>2, <1>7

-----------------------------------------------------------------------------
(* Settings of targets and transports.                                     *)

\* The clock stays or moves on.
Ticks == clock' = clock \/ (clock' = clock + 1 /\ clock < MaxClock)

\* The clock keeps its bound.
LEMMA ClockType ==
    ASSUME clock \in 0..MaxClock, Ticks
    PROVE  clock' \in 0..MaxClock /\ clock' >= clock /\ clock \in Nat /\ Now \in Nat
BY ClockAssumption DEF Ticks, Now

\* Advanced moves the watermarks of a channel's enabled targets.
LEMMA AdvancedTargets ==
    ASSUME TargetTypes, NEW c, NEW f, f = Advanced(c)
    PROVE  /\ f \in [Targets -> TargetSet]
           /\ \A t \in Targets :
                /\ f[t].state = target[t].state /\ f[t].channel = target[t].channel
                /\ f[t].enabled = target[t].enabled /\ f[t].digest = target[t].digest
                /\ f[t].cfg = target[t].cfg
                /\ f[t].test = target[t].test /\ f[t].testCfg = target[t].testCfg
                /\ f[t].enabledAt =
                    IF target[t].state = "live" /\ target[t].enabled /\ target[t].channel = c
                    THEN Now ELSE target[t].enabledAt
<1>1. Now \in Times
    BY ClockAssumption DEF TargetTypes, Now, Times
<1>2. ASSUME NEW t \in Targets
      PROVE  /\ f[t] \in TargetSet
             /\ f[t].state = target[t].state /\ f[t].channel = target[t].channel
             /\ f[t].enabled = target[t].enabled /\ f[t].digest = target[t].digest
             /\ f[t].cfg = target[t].cfg
             /\ f[t].test = target[t].test /\ f[t].testCfg = target[t].testCfg
             /\ f[t].enabledAt =
                 IF target[t].state = "live" /\ target[t].enabled /\ target[t].channel = c
                 THEN Now ELSE target[t].enabledAt
    <2>1. PICK r \in TargetSet : r = target[t]
        BY DEF TargetTypes
    <2>2. CASE ~(r.state = "live" /\ r.enabled /\ r.channel = c)
        BY <2>1, <2>2 DEF Advanced
    <2>3. CASE r.state = "live" /\ r.enabled /\ r.channel = c
        <3>1. PICK n : n = r.act + 1
            OBVIOUS
        <3>2. n \in Nat
            BY <3>1 DEF TargetSet
        <3>3. f[t] = [r EXCEPT !.enabledAt = Now, !.act = n]
            BY <2>1, <2>3, <3>1 DEF Advanced
        <3>4. PICK q : q = f[t]
            OBVIOUS
        <3> HIDE DEF Now
        <3>5. /\ q \in TargetSet
              /\ q.state = r.state /\ q.channel = r.channel
              /\ q.enabled = r.enabled /\ q.digest = r.digest
              /\ q.cfg = r.cfg
              /\ q.test = r.test /\ q.testCfg = r.testCfg
              /\ q.enabledAt = Now
            BY <1>1, <3>2, <3>3, <3>4 DEF TargetSet
        <3> QED BY <2>1, <2>3, <3>4, <3>5
    <2> QED BY <2>2, <2>3
<1>3. f = [t \in Targets |-> f[t]]
    BY DEF Advanced
<1> QED BY <1>2, <1>3

\* A target row with another configuration, switch or result.
LEMMA NewTargetRow ==
    ASSUME NEW c \in Channels, NEW d \in Digests, NEW q, q = NewTarget(c, d)
    PROVE  /\ q \in TargetSet /\ q.state = "live" /\ q.channel = c /\ ~q.enabled
           /\ q.enabledAt = None /\ q.cfg = 1 /\ q.act = 1 /\ q.digest = d
           /\ q.test = None /\ q.testCfg = 0
BY DEF NewTarget, TargetSet, Times, Answers

\* CreateTarget: a new row, off and untested.
LEMMA CreateEffect ==
    ASSUME TargetTypes, NEW t \in Targets, NEW d \in Dests, CreateTarget(t, d)
    PROVE  /\ target' = [target EXCEPT ![t] = target'[t]]
           /\ target'[t] \in TargetSet /\ target[t].state = "absent"
           /\ ~target'[t].enabled /\ target'[t].testCfg # target'[t].cfg
<1>1. target[t].channel \in Channels /\ d \in Digests
    BY DEF TargetTypes, TargetSet, Digests
<1>2. PICK q : q = NewTarget(target[t].channel, d)
    OBVIOUS
<1>3. target' = [target EXCEPT ![t] = q] /\ target'[t] = q
    BY <1>2 DEF CreateTarget, TargetTypes
<1>4. q \in TargetSet /\ ~q.enabled /\ q.testCfg # q.cfg
    BY <1>1, <1>2, NewTargetRow
<1> QED BY <1>3, <1>4 DEF CreateTarget

\* ConfigureTarget: a new configuration generation, off and untested.
LEMMA ConfigureEffect ==
    ASSUME TargetTypes, NEW t \in Targets, NEW d \in Dests, ConfigureTarget(t, d)
    PROVE  /\ target' = [target EXCEPT ![t] = target'[t]]
           /\ target'[t] \in TargetSet /\ target'[t].state = "live"
           /\ target'[t].cfg = target[t].cfg + 1
           /\ ~target'[t].enabled /\ target'[t].testCfg # target'[t].cfg
<1>1. target[t].channel \in Channels /\ d \in Digests
      /\ target[t].cfg \in Nat /\ target[t].act \in Nat
    BY DEF TargetTypes, TargetSet, Digests
<1>2. PICK r : r = NewTarget(target[t].channel, d)
    OBVIOUS
<1>3. PICK n, m : n = target[t].cfg + 1 /\ m = target[t].act + 1
    OBVIOUS
<1>4. PICK q : q = [r EXCEPT !.cfg = n, !.act = m]
    OBVIOUS
<1>5. target' = [target EXCEPT ![t] = q] /\ target'[t] = q
    BY <1>2, <1>3, <1>4 DEF ConfigureTarget, TargetTypes
<1>6. r \in TargetSet /\ r.state = "live" /\ ~r.enabled /\ r.testCfg = 0
    BY <1>1, <1>2, NewTargetRow
<1>7. n \in Nat \ {0} /\ m \in Nat
    BY <1>1, <1>3
<1>8. q \in TargetSet /\ q.state = "live" /\ q.cfg = n /\ ~q.enabled /\ q.testCfg = 0
    BY <1>4, <1>6, <1>7 DEF TargetSet
<1> QED BY <1>3, <1>5, <1>7, <1>8

\* SwitchTarget: the switch and its watermark.
LEMMA SwitchEffect ==
    ASSUME TargetTypes, NEW t \in Targets, NEW on \in BOOLEAN, SwitchTarget(t, on)
    PROVE  /\ target' = [target EXCEPT ![t] = target'[t]]
           /\ target'[t] \in TargetSet
           /\ target'[t].state = "live" /\ target[t].state = "live"
           /\ target'[t].cfg = target[t].cfg /\ target'[t].digest = target[t].digest
           /\ target'[t].test = target[t].test /\ target'[t].testCfg = target[t].testCfg
           /\ target'[t].channel = target[t].channel
           /\ target'[t].enabled => target'[t].enabledAt = Now
<1>1. PICK r \in TargetSet : r = target[t]
    BY DEF TargetTypes
<1>2. PICK n, m : n = (IF on THEN Now ELSE None) /\ m = r.act + 1
    OBVIOUS
<1>3. n \in Times /\ m \in Nat
    BY <1>2, ClockAssumption DEF TargetTypes, Now, Times, TargetSet
<1>4. PICK q : q = [r EXCEPT !.enabled = on, !.enabledAt = n, !.act = m]
    OBVIOUS
<1>5. target' = [target EXCEPT ![t] = q] /\ target'[t] = q
    BY <1>1, <1>2, <1>4 DEF SwitchTarget, TargetTypes
<1>6. /\ q \in TargetSet
      /\ q.state = r.state /\ q.cfg = r.cfg /\ q.digest = r.digest
      /\ q.test = r.test /\ q.testCfg = r.testCfg
      /\ q.channel = r.channel
      /\ q.enabledAt = n /\ (q.enabled => on)
    BY <1>3, <1>4 DEF TargetSet
<1> QED BY <1>1, <1>2, <1>5, <1>6 DEF SwitchTarget

\* ArchiveTarget: off for good, without a destination.
LEMMA ArchiveEffect ==
    ASSUME TargetTypes, NEW t \in Targets, NEW b, ArchiveTarget(t, b)
    PROVE  /\ target' = [target EXCEPT ![t] = target'[t]]
           /\ target'[t] \in TargetSet
           /\ target'[t].state = "archived" /\ target'[t].cfg = target[t].cfg
           /\ ~target'[t].enabled
<1>1. PICK r \in TargetSet : r = target[t]
    BY DEF TargetTypes
<1>2. PICK m : m = r.act + 1
    OBVIOUS
<1>3. m \in Nat
    BY <1>2 DEF TargetSet
<1>4. PICK q : q = [r EXCEPT !.state = "archived", !.enabled = FALSE, !.enabledAt = None,
                             !.digest = None, !.act = m]
    OBVIOUS
<1>5. target' = [target EXCEPT ![t] = q] /\ target'[t] = q
    BY <1>1, <1>2, <1>4 DEF ArchiveTarget, TargetTypes
<1>6. q \in TargetSet /\ q.state = "archived" /\ q.cfg = r.cfg /\ ~q.enabled
    BY <1>3, <1>4 DEF TargetSet, Digests, Times
<1> QED BY <1>1, <1>5, <1>6

\* The fields of a target row a test result leaves alone.
SameSetting(q, r) ==
    /\ q.state = r.state /\ q.channel = r.channel /\ q.cfg = r.cfg /\ q.digest = r.digest

\* Recorded: a result for the configuration that was tested.
LEMMA RecordedEffect ==
    ASSUME TargetTypes, NEW x, x.id \in Targets, x.answer \in Answers, x.cfg \in Nat,
           NEW f, f = Recorded(x)
    PROVE  /\ f \in [Targets -> TargetSet]
           /\ \A t \in Targets :
                /\ SameSetting(f[t], target[t])
                /\ f[t].enabled = target[t].enabled /\ f[t].enabledAt = target[t].enabledAt
                /\ \/ f[t].test = target[t].test /\ f[t].testCfg = target[t].testCfg
                   \/ /\ t = x.id /\ target[t].state = "live" /\ target[t].cfg = x.cfg
                      /\ f[t].test = x.answer
<1>1. PICK r \in TargetSet : r = target[x.id]
    BY DEF TargetTypes
<1>2. PICK q : q = [r EXCEPT !.test = x.answer, !.testCfg = x.cfg]
    OBVIOUS
<1>3. CASE r.state = "live" /\ r.cfg = x.cfg
    <2>1. f = [target EXCEPT ![x.id] = q] /\ f[x.id] = q
        BY <1>1, <1>2, <1>3 DEF Recorded, TargetTypes
    <2>2. /\ q \in TargetSet /\ SameSetting(q, r)
          /\ q.enabled = r.enabled /\ q.enabledAt = r.enabledAt /\ q.test = x.answer
        BY <1>2 DEF TargetSet, SameSetting
    <2>3. f \in [Targets -> TargetSet]
        BY <2>1, <2>2 DEF TargetTypes
    <2>4. ASSUME NEW t \in Targets
          PROVE  /\ SameSetting(f[t], target[t])
                 /\ f[t].enabled = target[t].enabled /\ f[t].enabledAt = target[t].enabledAt
                 /\ \/ f[t].test = target[t].test /\ f[t].testCfg = target[t].testCfg
                    \/ /\ t = x.id /\ target[t].state = "live" /\ target[t].cfg = x.cfg
                       /\ f[t].test = x.answer
        <3>1. CASE t = x.id
            BY <3>1, <1>1, <1>3, <2>1, <2>2
        <3>2. CASE t # x.id
            <4>1. f[t] = target[t]
                BY <3>2, <2>1 DEF TargetTypes
            <4> QED BY <4>1 DEF SameSetting
        <3> QED BY <3>1, <3>2
    <2> QED BY <2>3, <2>4
<1>4. CASE ~(r.state = "live" /\ r.cfg = x.cfg)
    BY <1>1, <1>4 DEF Recorded, TargetTypes, SameSetting
<1> QED BY <1>3, <1>4

\* Activate: the tested target is in use, and the watermarks of a transport
\* that becomes usable move.
LEMMA ActivateEffect ==
    ASSUME TargetTypes, NEW p, Activate(p),
           tests[p] \in TestSet, tests[p].id \in Targets
    PROVE  /\ target' \in [Targets -> TargetSet]
           /\ \A t \in Targets :
                /\ SameSetting(target'[t], target[t])
                /\ target'[t].enabled => target[t].enabled \/ target[t].state = "live"
                /\ \/ target'[t].test = target[t].test /\ target'[t].testCfg = target[t].testCfg
                   \/ target'[t].test = "unknown"
                   \/ /\ t = tests[p].id /\ target[t].state = "live"
                      /\ target[t].cfg = tests[p].cfg
<1> DEFINE x == tests[p]
           c == x.channel
           row == target[x.id]
           tr == transport[c]
           tested == tr.test = "sent" /\ tr.testGen = x.gen
           restored == IF c = "telegram" THEN ~(tr.enabled /\ tested) ELSE ~tested
           active == row.enabled /\ row.test = "sent" /\ row.testCfg = x.cfg
           current == /\ row.state = "live" /\ row.cfg = x.cfg
                      /\ c \in TransportChannels =>
                           tr.exists /\ tr.gen = x.gen /\ tr.digest # None
           base == IF c \in TransportChannels /\ restored THEN Advanced(c) ELSE target
<1>1. CASE ~current
    <2>1. PICK y : y = [x EXCEPT !.answer = "unknown"]
        OBVIOUS
    <2>2. y.id = x.id /\ y.cfg = x.cfg /\ y.answer = "unknown" /\ y.cfg \in Nat
        BY <2>1 DEF TestSet
    <2>3. target' = Recorded(y)
        BY <1>1, <2>1 DEF Activate
    <2>4. /\ target' \in [Targets -> TargetSet]
          /\ \A t \in Targets :
                /\ SameSetting(target'[t], target[t])
                /\ target'[t].enabled = target[t].enabled
                /\ \/ target'[t].test = target[t].test /\ target'[t].testCfg = target[t].testCfg
                   \/ target'[t].test = "unknown"
        BY <2>2, <2>3, RecordedEffect DEF Answers
    <2> QED BY <2>4
<1>2. CASE current
    <2>1. PICK b : b = base
        OBVIOUS
    <2>2. /\ b \in [Targets -> TargetSet]
          /\ \A t \in Targets :
                /\ SameSetting(b[t], target[t])
                /\ b[t].enabled = target[t].enabled
                /\ b[t].test = target[t].test /\ b[t].testCfg = target[t].testCfg
        <3>1. CASE b = Advanced(c)
            BY <3>1, AdvancedTargets DEF SameSetting
        <3>2. CASE b = target
            BY <3>2 DEF SameSetting, TargetTypes
        <3> QED BY <3>1, <3>2, <2>1
    <2>3. PICK r \in TargetSet : r = b[x.id]
        BY <2>2
    <2>4. PICK n, m : /\ n = (IF active THEN r.enabledAt ELSE Now)
                      /\ m = (IF active THEN r.act ELSE r.act + 1)
        OBVIOUS
    <2>5. n \in Times /\ m \in Nat
        BY <2>4, ClockAssumption DEF TargetSet, Times, TargetTypes, Now
    <2>6. PICK q : q = [r EXCEPT !.enabled = TRUE, !.enabledAt = n, !.act = m,
                                 !.test = "sent", !.testCfg = x.cfg]
        OBVIOUS
    <2>7. target' = [b EXCEPT ![x.id].enabled = TRUE,
                              ![x.id].enabledAt = IF active THEN @ ELSE Now,
                              ![x.id].act = IF active THEN @ ELSE @ + 1,
                              ![x.id].test = "sent",
                              ![x.id].testCfg = x.cfg]
        <3>1. target' = [base EXCEPT ![x.id].enabled = TRUE,
                              ![x.id].enabledAt = IF active THEN @ ELSE Now,
                              ![x.id].act = IF active THEN @ ELSE @ + 1,
                              ![x.id].test = "sent",
                              ![x.id].testCfg = x.cfg]
            BY <1>2, Zenon DEF Activate
        <3> QED BY <3>1, <2>1, Zenon
    <2>8. target' = [b EXCEPT ![x.id] = q] /\ target'[x.id] = q
        BY <2>2, <2>3, <2>4, <2>6, <2>7
    <2>9. q \in TargetSet /\ SameSetting(q, r)
        BY <2>5, <2>6 DEF TargetSet, SameSetting, Answers, TestSet
    <2>10. target' \in [Targets -> TargetSet]
        BY <2>2, <2>8, <2>9
    <2>11. ASSUME NEW t \in Targets
           PROVE  /\ SameSetting(target'[t], target[t])
                  /\ target'[t].enabled => target[t].enabled \/ target[t].state = "live"
                  /\ \/ target'[t].test = target[t].test
                        /\ target'[t].testCfg = target[t].testCfg
                     \/ t = x.id /\ target[t].state = "live" /\ target[t].cfg = x.cfg
        <3>1. CASE t = x.id
            BY <3>1, <1>2, <2>2, <2>3, <2>8, <2>9 DEF SameSetting
        <3>2. CASE t # x.id
            <4>1. target'[t] = b[t]
                BY <3>2, <2>2, <2>8
            <4> QED BY <4>1, <2>2
        <3> QED BY <3>1, <3>2
    <2> QED BY <2>10, <2>11
<1> QED BY <1>1, <1>2

\* A transport row as it is saved, by a settings operation or a test.
LEMMA NoTransportRow ==
    ASSUME NEW g \in Nat, NEW v \in Tokens \cup {None}, NEW q,
           q = [NoTransport EXCEPT !.exists = TRUE, !.digest = v, !.gen = g]
    PROVE  q \in TransportSet /\ NoTransport \in TransportSet
BY DEF NoTransport, TransportSet, Answers

\* The settings of transports keep the types of transports.
LEMMA TransportSettingsType ==
    ASSUME TargetTypes, TransportSettings
    PROVE  transport' \in [TransportChannels -> TransportSet]
<1> USE DEF TransportChannels
<1>1. ASSUME NEW c \in TransportChannels, NEW v \in Tokens \cup {None},
             transport' = [transport EXCEPT ![c] =
                            [NoTransport EXCEPT !.exists = TRUE, !.digest = v,
                                                !.gen = transport[c].gen + 1]]
      PROVE  transport' \in [TransportChannels -> TransportSet]
    <2>1. PICK g : g = transport[c].gen + 1
        OBVIOUS
    <2>2. g \in Nat
        BY <2>1 DEF TargetTypes, TransportSet
    <2>3. PICK q : q = [NoTransport EXCEPT !.exists = TRUE, !.digest = v, !.gen = g]
        OBVIOUS
    <2>4. q \in TransportSet
        BY <2>2, <2>3, NoTransportRow
    <2>5. transport' = [transport EXCEPT ![c] = q]
        BY <1>1, <2>1, <2>3, Zenon
    <2> QED BY <2>4, <2>5 DEF TargetTypes
<1>2. ASSUME NEW on \in BOOLEAN, SwitchTelegram(on)
      PROVE  transport' \in [TransportChannels -> TransportSet]
    <2>1. PICK r \in TransportSet : r = transport["telegram"]
        BY DEF TargetTypes
    <2>2. PICK q : q = [r EXCEPT !.enabled = on]
        OBVIOUS
    <2>3. q \in TransportSet
        BY <2>2 DEF TransportSet
    <2>4. transport' = [transport EXCEPT !["telegram"] = q]
        BY <1>2, <2>1, <2>2 DEF SwitchTelegram, TargetTypes
    <2> QED BY <2>3, <2>4 DEF TargetTypes
<1>3. ASSUME RenameEmailSender
      PROVE  transport' \in [TransportChannels -> TransportSet]
    <2>1. PICK r \in TransportSet : r = transport["email"]
        BY DEF TargetTypes
    <2>2. PICK g, v : /\ g = r.gen + 1
                      /\ v = IF Bound("email", r.digest) THEN r.digest ELSE None
        OBVIOUS
    <2>3. g \in Nat /\ v \in Tokens \cup {None}
        BY <2>2 DEF TransportSet
    <2>4. PICK q : q = [NoTransport EXCEPT !.exists = TRUE, !.gen = g, !.digest = v]
        OBVIOUS
    <2>5. q \in TransportSet
        BY <2>3, <2>4 DEF NoTransport, TransportSet, Answers
    <2>6. transport' = [transport EXCEPT !["email"] = q]
        BY <1>3, <2>1, <2>2, <2>4 DEF RenameEmailSender
    <2> QED BY <2>5, <2>6 DEF TargetTypes
<1>4. ASSUME NEW c \in TransportChannels, DeleteTransport(c)
      PROVE  transport' \in [TransportChannels -> TransportSet]
    BY <1>4 DEF DeleteTransport, TargetTypes, NoTransport, TransportSet, Answers
<1>5. Used \subseteq TransportChannels
    BY DEF Used
<1>6. CASE \E v \in Tokens \cup {None} : SetTelegramToken(v)
    BY <1>1, <1>6 DEF SetTelegramToken
<1>7. CASE \E v \in Tokens \cup {None} : SetEmailCredential(v)
    BY <1>1, <1>7 DEF SetEmailCredential
<1>8. CASE \E id \in Targets \cup Used, v \in Dests \cup Tokens \cup {None} :
                SecretWriteCrash(id, v)
    BY <1>8 DEF SecretWriteCrash, TargetTypes
<1> QED BY <1>2, <1>3, <1>4, <1>5, <1>6, <1>7, <1>8 DEF TransportSettings

\* What a test in flight keeps.
LEMMA TestRow ==
    ASSUME TargetTypes, NEW kind \in {"transport", "target", "service"},
           NEW id \in Targets \cup TransportChannels, NEW c \in Channels,
           NEW q, q = Test("begun", kind, id, c, None)
    PROVE  /\ q \in TestSet /\ q.pc = "begun" /\ q.kind = kind /\ q.id = id
           /\ id \in Targets => q.cfg = target[id].cfg /\ q.digest = target[id].digest
<1>1. PICK f, d, g, k :
        /\ f = (IF id \in Targets THEN target[id].cfg ELSE 0)
        /\ d = (IF id \in Targets THEN target[id].digest ELSE None)
        /\ g = (IF c \in TransportChannels THEN transport[c].gen ELSE 0)
        /\ k = (IF c \in TransportChannels THEN transport[c].digest ELSE None)
    OBVIOUS
<1>2. f \in Nat /\ d \in Digests /\ g \in Nat /\ k \in Tokens \cup {None}
    BY <1>1 DEF TargetTypes, TargetSet, TransportSet, Digests
<1>3. q = [pc |-> "begun", kind |-> kind, id |-> id, channel |-> c, answer |-> None,
           cfg |-> f, digest |-> d, gen |-> g, token |-> k]
    BY <1>1 DEF Test
<1> QED BY <1>1, <1>2, <1>3 DEF TestSet, Answers

\* The row a test sends through differs only in the transport it read.
LEMMA SendRowFields ==
    ASSUME TargetTypes, NEW p \in Testers, tests[p].pc # "idle", NEW x, x = SendRow(p)
    PROVE  /\ x \in TestSet /\ tests[p] \in TestSet
           /\ x.kind = tests[p].kind /\ x.id = tests[p].id /\ x.cfg = tests[p].cfg
           /\ x.digest = tests[p].digest /\ x.channel = tests[p].channel
<1>1. tests[p] \in TestSet
    BY DEF TargetTypes, NoTest
<1>2. PICK y \in TestSet : y = tests[p]
    BY <1>1
<1>3. CASE y.kind = "transport" \/ y.channel = "webhook"
    BY <1>1, <1>2, <1>3 DEF SendRow
<1>4. CASE ~(y.kind = "transport" \/ y.channel = "webhook")
    <2>1. y.channel \in TransportChannels
        BY <1>4 DEF TestSet, Channels, TransportChannels
    <2>2. PICK g, k : g = transport[y.channel].gen /\ k = transport[y.channel].digest
        OBVIOUS
    <2>3. g \in Nat /\ k \in Tokens \cup {None}
        BY <2>1, <2>2 DEF TargetTypes, TransportSet
    <2>4. x = [y EXCEPT !.gen = g, !.token = k]
        BY <1>2, <1>4, <2>2 DEF SendRow
    <2>5. /\ x \in TestSet /\ x.kind = y.kind /\ x.id = y.id /\ x.cfg = y.cfg
          /\ x.digest = y.digest /\ x.channel = y.channel
        BY <2>3, <2>4 DEF TestSet
    <2> QED BY <1>1, <1>2, <2>5
<1> QED BY <1>3, <1>4

\* A configuration generation keeps its destination.
SettingEvolves ==
    /\ proven \subseteq proven'
    /\ \A t \in Targets : target[t].state # "absent" =>
        /\ target'[t].state # "absent"
        /\ target[t].cfg <= target'[t].cfg
        /\ target'[t].state = "live" /\ target'[t].cfg = target[t].cfg
            => target[t].state = "live" /\ target'[t].digest = target[t].digest

\* It does when the settings of the targets stay.
LEMMA SettingStays ==
    ASSUME TargetTypes, proven \subseteq proven',
           \A t \in Targets : SameSetting(target'[t], target[t])
    PROVE  SettingEvolves
BY DEF SettingEvolves, SameSetting, TargetTypes, TargetSet

\* It does when one target is replaced by a later state of it.
LEMMA SettingReplaced ==
    ASSUME TargetTypes, proven' = proven, NEW t \in Targets,
           target' = [target EXCEPT ![t] = target'[t]], target'[t] \in TargetSet,
           \/ target[t].state = "absent"
           \/ target'[t].state = "live" /\ target'[t].cfg = target[t].cfg + 1
           \/ target'[t].state = "archived" /\ target'[t].cfg = target[t].cfg
           \/ SameSetting(target'[t], target[t])
    PROVE  SettingEvolves /\ target' \in [Targets -> TargetSet]
<1>1. \A u \in Targets \ {t} : target'[u] = target[u]
    BY DEF TargetTypes
<1>2. target' \in [Targets -> TargetSet]
    BY DEF TargetTypes
<1>3. target[t].cfg \in Nat
    BY DEF TargetTypes, TargetSet
<1>4. \A u \in Targets : target[u].cfg \in Nat /\ target[u].cfg <= target[u].cfg
    BY DEF TargetTypes, TargetSet
<1>5. ASSUME NEW u \in Targets, target[u].state # "absent"
      PROVE  /\ target'[u].state # "absent"
             /\ target[u].cfg <= target'[u].cfg
             /\ target'[u].state = "live" /\ target'[u].cfg = target[u].cfg
                 => target[u].state = "live" /\ target'[u].digest = target[u].digest
    <2>1. CASE u = t
        BY <2>1, <1>3, <1>5 DEF SameSetting
    <2>2. CASE u # t
        BY <2>2, <1>1, <1>4, <1>5
    <2> QED BY <2>1, <2>2
<1> QED BY <1>2, <1>5 DEF SettingEvolves

\* The tests in flight survive a change of the settings.
LEMMA TestsKept ==
    ASSUME TargetTypes, TestedInv, SettingEvolves, target' \in [Targets -> TargetSet],
           NEW p \in Testers, tests[p].pc # "idle", tests[p].kind # "transport"
    PROVE  LET x == tests[p] IN
           /\ x \in TestSet
           /\ x.id \in Targets /\ target'[x.id].state # "absent"
           /\ x.cfg <= target'[x.id].cfg
           /\ target'[x.id].state = "live" /\ target'[x.id].cfg = x.cfg
               => x.digest = target'[x.id].digest
           /\ x.pc = "answered" /\ x.answer = "sent" => <<x.id, x.digest>> \in proven'
<1> DEFINE x == tests[p]
<1>1. /\ x.id \in Targets /\ target[x.id].state # "absent"
      /\ x.cfg <= target[x.id].cfg
      /\ target[x.id].state = "live" /\ target[x.id].cfg = x.cfg
            => x.digest = target[x.id].digest
      /\ x.pc = "answered" /\ x.answer = "sent" => <<x.id, x.digest>> \in proven
    BY DEF TestedInv
<1>2. x \in TestSet
    BY DEF TargetTypes, NoTest
<1>3. x.cfg \in Nat /\ target[x.id].cfg \in Nat /\ target'[x.id].cfg \in Nat
    BY <1>1, <1>2 DEF TestSet, TargetTypes, TargetSet
<1>4. /\ target'[x.id].state # "absent"
      /\ target[x.id].cfg <= target'[x.id].cfg
      /\ target'[x.id].state = "live" /\ target'[x.id].cfg = target[x.id].cfg
            => target[x.id].state = "live" /\ target'[x.id].digest = target[x.id].digest
      /\ proven \subseteq proven'
    BY <1>1 DEF SettingEvolves
<1> QED BY <1>1, <1>2, <1>3, <1>4

\* A step of the settings, or of the test p, that keeps the results of the
\* targets true and leaves the test in the state q.
LEMMA SettingStep ==
    ASSUME TargetTypes, TestedInv, SettingEvolves, Ticks,
           target' \in [Targets -> TargetSet],
           transport' \in [TransportChannels -> TransportSet],
           \A t \in Targets :
                target'[t].state = "live" /\ target'[t].test = "sent"
                /\ target'[t].testCfg = target'[t].cfg => <<t, target'[t].digest>> \in proven',
           \/ tests' = tests
           \/ \E p \in Testers : tests' = [tests EXCEPT ![p] = NoTest]
           \/ \E p \in Testers, q \in TestSet :
                /\ tests' = [tests EXCEPT ![p] = q]
                /\ q.kind # "transport" =>
                    /\ q.id \in Targets /\ target'[q.id].state # "absent"
                    /\ q.cfg <= target'[q.id].cfg
                    /\ target'[q.id].state = "live" /\ target'[q.id].cfg = q.cfg
                        => q.digest = target'[q.id].digest
                    /\ q.pc = "answered" /\ q.answer = "sent" => <<q.id, q.digest>> \in proven'
    PROVE  TargetTypes' /\ TestedInv'
<1>1. clock' \in 0..MaxClock
    BY ClockType DEF TargetTypes
<1>2. tests' \in [Testers -> {NoTest} \cup TestSet]
    BY DEF TargetTypes
<1>3. ASSUME NEW p \in Testers, tests'[p].pc # "idle", tests'[p].kind # "transport"
      PROVE  LET x == tests'[p] IN
             /\ x.id \in Targets /\ target'[x.id].state # "absent"
             /\ x.cfg <= target'[x.id].cfg
             /\ target'[x.id].state = "live" /\ target'[x.id].cfg = x.cfg
                 => x.digest = target'[x.id].digest
             /\ x.pc = "answered" /\ x.answer = "sent" => <<x.id, x.digest>> \in proven'
    <2>1. CASE tests'[p] = tests[p]
        BY <2>1, <1>3, TestsKept
    <2>2. CASE tests'[p] # tests[p]
        <3>1. tests'[p] # NoTest
            BY <1>3 DEF NoTest
        <3>2. PICK q \in TestSet :
                /\ tests'[p] = q
                /\ q.kind # "transport" =>
                    /\ q.id \in Targets /\ target'[q.id].state # "absent"
                    /\ q.cfg <= target'[q.id].cfg
                    /\ target'[q.id].state = "live" /\ target'[q.id].cfg = q.cfg
                        => q.digest = target'[q.id].digest
                    /\ q.pc = "answered" /\ q.answer = "sent" => <<q.id, q.digest>> \in proven'
            BY <2>2, <3>1 DEF TargetTypes
        <3> QED BY <3>2, <1>3
    <2> QED BY <2>1, <2>2
<1> QED BY <1>1, <1>2, <1>3 DEF TargetTypes, TestedInv

\* The settings of transports.
LEMMA TransportSettingsNext ==
    ASSUME TargetTypes, TestedInv, TransportSettings
    PROVE  TargetTypes' /\ TestedInv' /\ SettingEvolves /\ Ticks
           /\ (rows' = rows \/ \E ks : rows' = FailRows(ks))
<1>1. /\ target' = target \/ \E c \in TransportChannels : target' = Advanced(c)
      /\ tests' = tests /\ proven' = proven /\ Ticks
      /\ rows' = rows \/ \E ks : rows' = FailRows(ks)
    BY DEF TransportSettings, SetTelegramToken, SwitchTelegram, SetEmailCredential,
           RenameEmailSender, DeleteTransport, SecretWriteCrash, Tick, Ticks, TransportChannels
<1>2. /\ target' \in [Targets -> TargetSet]
      /\ \A t \in Targets : /\ SameSetting(target'[t], target[t])
                            /\ target'[t].test = target[t].test
                            /\ target'[t].testCfg = target[t].testCfg
    <2>1. CASE target' = target
        BY <2>1 DEF TargetTypes, SameSetting
    <2>2. ASSUME NEW c, target' = Advanced(c)
          PROVE  /\ target' \in [Targets -> TargetSet]
                 /\ \A t \in Targets : /\ SameSetting(target'[t], target[t])
                                       /\ target'[t].test = target[t].test
                                       /\ target'[t].testCfg = target[t].testCfg
        BY <2>2, AdvancedTargets DEF SameSetting
    <2> QED BY <1>1, <2>1, <2>2
<1>3. SettingEvolves
    BY <1>1, <1>2, SettingStays
<1>4. transport' \in [TransportChannels -> TransportSet]
    BY TransportSettingsType
<1>5. \A t \in Targets :
        target'[t].state = "live" /\ target'[t].test = "sent"
        /\ target'[t].testCfg = target'[t].cfg => <<t, target'[t].digest>> \in proven'
    BY <1>1, <1>2 DEF TestedInv, SameSetting
<1> QED BY <1>1, <1>2, <1>3, <1>4, <1>5, SettingStep

\* The settings of targets.
LEMMA TargetSettingsNext ==
    ASSUME TargetTypes, TestedInv, TargetSettings
    PROVE  TargetTypes' /\ TestedInv' /\ SettingEvolves /\ Ticks
           /\ (rows' = rows \/ \E ks : rows' = FailRows(ks))
<1>1. PICK t \in Targets :
        \/ \E d \in Dests : CreateTarget(t, d) \/ ConfigureTarget(t, d)
        \/ \E on \in BOOLEAN : SwitchTarget(t, on)
        \/ ArchiveTarget(t, binding[t].enabled \/ alertBinding[t].enabled)
    BY DEF TargetSettings
<1>2. /\ transport' = transport /\ tests' = tests /\ proven' = proven /\ Ticks
      /\ rows' = rows \/ \E ks : rows' = FailRows(ks)
    BY <1>1 DEF CreateTarget, ConfigureTarget, SwitchTarget, ArchiveTarget, Tick, Ticks
<1>3. /\ target' = [target EXCEPT ![t] = target'[t]] /\ target'[t] \in TargetSet
      /\ \/ target[t].state = "absent"
         \/ target'[t].state = "live" /\ target'[t].cfg = target[t].cfg + 1
         \/ target'[t].state = "archived" /\ target'[t].cfg = target[t].cfg
         \/ SameSetting(target'[t], target[t])
      /\ \/ target'[t].state # "live"
         \/ target'[t].testCfg # target'[t].cfg
         \/ /\ SameSetting(target'[t], target[t])
            /\ target'[t].test = target[t].test /\ target'[t].testCfg = target[t].testCfg
    <2>1. ASSUME NEW d \in Dests, CreateTarget(t, d)
          PROVE  <1>3!:
        BY <2>1, CreateEffect
    <2>2. ASSUME NEW d \in Dests, ConfigureTarget(t, d)
          PROVE  <1>3!:
        BY <2>2, ConfigureEffect
    <2>3. ASSUME NEW on \in BOOLEAN, SwitchTarget(t, on)
          PROVE  <1>3!:
        BY <2>3, SwitchEffect DEF SameSetting
    <2>4. ASSUME NEW b, ArchiveTarget(t, b)
          PROVE  <1>3!:
        BY <2>4, ArchiveEffect
    <2> QED BY <1>1, <2>1, <2>2, <2>3, <2>4
<1>4. SettingEvolves /\ target' \in [Targets -> TargetSet]
    BY <1>2, <1>3, SettingReplaced
<1>5. ASSUME NEW u \in Targets, target'[u].state = "live", target'[u].test = "sent",
             target'[u].testCfg = target'[u].cfg
      PROVE  <<u, target'[u].digest>> \in proven'
    <2>1. CASE u = t
        BY <2>1, <1>2, <1>3, <1>5 DEF TestedInv, SameSetting
    <2>2. CASE u # t
        <3>1. target'[u] = target[u]
            BY <2>2, <1>3 DEF TargetTypes
        <3> QED BY <3>1, <1>2, <1>5 DEF TestedInv
    <2> QED BY <2>1, <2>2
<1>6. transport' \in [TransportChannels -> TransportSet]
    BY <1>2 DEF TargetTypes
<1> QED BY <1>2, <1>4, <1>5, <1>6, SettingStep

\* A test begins: it keeps the configuration it read.
LEMMA TestBegins ==
    ASSUME TargetTypes, TestedInv, NEW p \in Testers,
           NEW kind \in {"transport", "target", "service"}, NEW id, NEW c \in Channels,
           kind = "transport" => id \in TransportChannels,
           kind # "transport" => id \in Targets /\ target[id].state = "live",
           tests' = [tests EXCEPT ![p] = Test("begun", kind, id, c, None)],
           UNCHANGED <<target, transport, secret, rows, clock, proven>>
    PROVE  TargetTypes' /\ TestedInv' /\ SettingEvolves /\ Ticks
<1>1. PICK q : q = Test("begun", kind, id, c, None)
    OBVIOUS
<1>2. /\ q \in TestSet /\ q.pc = "begun" /\ q.kind = kind /\ q.id = id
      /\ id \in Targets => q.cfg = target[id].cfg /\ q.digest = target[id].digest
    BY <1>1, TestRow
<1>3. tests' = [tests EXCEPT ![p] = q]
    BY <1>1
<1>4. SettingEvolves
    BY SettingStays DEF SameSetting
<1>5. q.kind # "transport" =>
        /\ q.id \in Targets /\ target'[q.id].state # "absent"
        /\ q.cfg <= target'[q.id].cfg
        /\ target'[q.id].state = "live" /\ target'[q.id].cfg = q.cfg
            => q.digest = target'[q.id].digest
        /\ q.pc = "answered" /\ q.answer = "sent" => <<q.id, q.digest>> \in proven'
    BY <1>2 DEF TargetTypes, TargetSet
<1>6. \A t \in Targets :
        target'[t].state = "live" /\ target'[t].test = "sent"
        /\ target'[t].testCfg = target'[t].cfg => <<t, target'[t].digest>> \in proven'
    BY DEF TestedInv
<1>7. /\ target' \in [Targets -> TargetSet]
      /\ transport' \in [TransportChannels -> TransportSet]
    BY DEF TargetTypes
<1>8. Ticks
    BY DEF Ticks
<1> QED BY <1>2, <1>3, <1>4, <1>5, <1>6, <1>7, <1>8, SettingStep

\* A test is sent: what answered is proven.
LEMMA TestSends ==
    ASSUME TargetTypes, TestedInv, NEW p \in Testers,
           NEW answer \in {"sent", "failed", "unknown"}, SendTest(p, answer)
    PROVE  TargetTypes' /\ TestedInv' /\ SettingEvolves /\ Ticks
<1>1. PICK x : x = SendRow(p)
    OBVIOUS
<1>2. tests[p].pc # "idle"
    BY DEF SendTest
<1>3. /\ x \in TestSet /\ tests[p] \in TestSet
      /\ x.kind = tests[p].kind /\ x.id = tests[p].id /\ x.cfg = tests[p].cfg
      /\ x.digest = tests[p].digest /\ x.channel = tests[p].channel
    BY <1>1, <1>2, SendRowFields
<1>4. PICK q : q = [x EXCEPT !.pc = "answered", !.answer = answer]
    OBVIOUS
<1>5. /\ q \in TestSet /\ q.kind = x.kind /\ q.id = x.id /\ q.cfg = x.cfg
      /\ q.digest = x.digest /\ q.answer = answer
    BY <1>3, <1>4 DEF TestSet, Answers
<1>6. tests' = [tests EXCEPT ![p] = q]
    BY <1>1, <1>4 DEF SendTest
<1>7. proven' = IF answer = "sent"
                THEN proven \cup ({<<x.id, x.digest>>, <<x.channel, x.token>>}
                                    \ {<<x.id, None>>, <<x.channel, None>>})
                ELSE proven
    BY <1>1 DEF SendTest
<1>8. UNCHANGED <<target, transport, clock>>
    BY DEF SendTest
<1>9. SettingEvolves
    BY <1>7, <1>8, SettingStays DEF SameSetting
<1>10. ASSUME q.kind # "transport"
       PROVE  /\ q.id \in Targets /\ target'[q.id].state # "absent"
              /\ q.cfg <= target'[q.id].cfg
              /\ target'[q.id].state = "live" /\ target'[q.id].cfg = q.cfg
                    => q.digest = target'[q.id].digest
              /\ q.pc = "answered" /\ q.answer = "sent" => <<q.id, q.digest>> \in proven'
    <2>1. /\ q.id \in Targets /\ target'[q.id].state # "absent"
          /\ q.cfg <= target'[q.id].cfg
          /\ target'[q.id].state = "live" /\ target'[q.id].cfg = q.cfg
                => q.digest = target'[q.id].digest
        BY <1>2, <1>3, <1>5, <1>8, <1>10 DEF TestedInv
    <2>2. ASSUME answer = "sent" PROVE <<q.id, q.digest>> \in proven'
        <3>1. x.digest # None
            BY <1>1, <1>5, <1>10, <2>2 DEF SendTest, Sendable, Bound
        <3> QED BY <3>1, <1>5, <1>7, <2>2
    <2> QED BY <2>1, <2>2, <1>5
<1>11. \A t \in Targets :
        target'[t].state = "live" /\ target'[t].test = "sent"
        /\ target'[t].testCfg = target'[t].cfg => <<t, target'[t].digest>> \in proven'
    BY <1>7, <1>8 DEF TestedInv
<1>12. /\ target' \in [Targets -> TargetSet]
       /\ transport' \in [TransportChannels -> TransportSet]
    BY <1>8 DEF TargetTypes
<1>13. Ticks
    BY <1>8 DEF Ticks
<1> QED BY <1>5, <1>6, <1>9, <1>10, <1>11, <1>12, <1>13, SettingStep

\* A test ends: its result is recorded, or lost.
LEMMA TestEnds ==
    ASSUME TargetTypes, TestedInv, NEW p \in Testers,
           \/ RecordTelegramTest(p) \/ RecordEmailTest(p)
           \/ RecordTargetTest(p) \/ Activate(p)
           \/ LoseTest(p)
    PROVE  TargetTypes' /\ TestedInv' /\ SettingEvolves /\ Ticks
<1>1. tests' = [tests EXCEPT ![p] = NoTest] /\ proven' = proven /\ Ticks
      /\ tests[p].pc # "idle"
    <2>1. CASE RecordTelegramTest(p)
        BY <2>1 DEF RecordTelegramTest, Ticks
    <2>2. CASE RecordEmailTest(p)
        BY <2>2 DEF RecordEmailTest, Tick, Ticks
    <2>3. CASE RecordTargetTest(p)
        BY <2>3 DEF RecordTargetTest, Ticks
    <2>4. CASE Activate(p)
        BY <2>4 DEF Activate, Tick, Ticks
    <2>5. CASE LoseTest(p)
        BY <2>5 DEF LoseTest, Ticks
    <2> QED BY <2>1, <2>2, <2>3, <2>4, <2>5
<1>2. PICK x \in TestSet : x = tests[p]
    BY <1>1 DEF TargetTypes, NoTest
<1>3. ASSUME NEW c \in TransportChannels,
             \/ transport' = transport
             \/ transport' = [transport EXCEPT ![c].test = x.answer, ![c].testGen = x.gen]
             \/ \E b \in BOOLEAN :
                transport' = [transport EXCEPT ![c].test = x.answer, ![c].testGen = x.gen,
                                               ![c].enabled = b]
             \/ transport' = [transport EXCEPT ![c].enabled = TRUE,
                                               ![c].test = "sent", ![c].testGen = x.gen]
      PROVE  transport' \in [TransportChannels -> TransportSet]
    <2>1. x.answer \in Answers /\ x.gen \in Nat /\ "sent" \in Answers
        BY DEF TestSet, Answers
    <2>2. PICK r \in TransportSet : r = transport[c]
        BY DEF TargetTypes
    <2>3. \/ transport' = transport
          \/ transport' = [transport EXCEPT ![c] =
                            [r EXCEPT !.test = x.answer, !.testGen = x.gen]]
          \/ \E b \in BOOLEAN : transport' = [transport EXCEPT ![c] =
                [r EXCEPT !.test = x.answer, !.testGen = x.gen, !.enabled = b]]
          \/ transport' = [transport EXCEPT ![c] =
                [r EXCEPT !.enabled = TRUE, !.test = "sent", !.testGen = x.gen]]
        BY ZenonT(40), <1>3, <2>2 DEF TargetTypes
    <2>4. /\ [r EXCEPT !.test = x.answer, !.testGen = x.gen] \in TransportSet
          /\ \A b \in BOOLEAN :
                [r EXCEPT !.test = x.answer, !.testGen = x.gen, !.enabled = b] \in TransportSet
          /\ [r EXCEPT !.enabled = TRUE, !.test = "sent", !.testGen = x.gen] \in TransportSet
        BY <2>1 DEF TransportSet
    <2> QED BY <2>3, <2>4 DEF TargetTypes
<1>4. transport' \in [TransportChannels -> TransportSet]
    <2>1. CASE RecordTelegramTest(p)
        <3>1. \/ transport' = transport
              \/ transport' = [transport EXCEPT !["telegram"].test = x.answer,
                                                !["telegram"].testGen = x.gen]
            BY <2>1, <1>2 DEF RecordTelegramTest
        <3> QED BY <3>1, <1>3 DEF TransportChannels
    <2>2. CASE RecordEmailTest(p)
        <3>1. PICK b \in BOOLEAN : b = (x.answer = "sent")
            OBVIOUS
        <3>2. \/ transport' = transport
              \/ transport' = [transport EXCEPT !["email"].test = x.answer,
                                                !["email"].testGen = x.gen,
                                                !["email"].enabled = b]
            BY <2>2, <1>2, <3>1 DEF RecordEmailTest
        <3> QED BY <3>2, <1>3 DEF TransportChannels
    <2>3. CASE RecordTargetTest(p) \/ LoseTest(p)
        BY <2>3 DEF RecordTargetTest, LoseTest, TargetTypes
    <2>4. CASE Activate(p)
        <3>1. \/ transport' = transport
              \/ /\ x.channel \in TransportChannels
                 /\ transport' = [transport EXCEPT ![x.channel].enabled = TRUE,
                                    ![x.channel].test = "sent", ![x.channel].testGen = x.gen]
            BY <2>4, <1>2 DEF Activate
        <3> QED BY <3>1, <1>3 DEF TargetTypes
    <2> QED BY <2>1, <2>2, <2>3, <2>4
<1>5. /\ target' \in [Targets -> TargetSet]
      /\ \A t \in Targets :
            /\ SameSetting(target'[t], target[t])
            /\ \/ target'[t].test = target[t].test /\ target'[t].testCfg = target[t].testCfg
               \/ target'[t].test # "sent"
               \/ /\ t = x.id /\ target[t].state = "live" /\ target[t].cfg = x.cfg
                  /\ x.kind # "transport" /\ x.answer = "sent" /\ x.pc = "answered"
    <2>1. CASE target' = target
        BY <2>1 DEF TargetTypes, SameSetting
    <2>2. CASE target' = Advanced("email")
        BY <2>2, AdvancedTargets DEF SameSetting
    <2>3. CASE RecordTargetTest(p)
        <3>1. x.id \in Targets /\ x.kind # "transport" /\ x.pc = "answered"
            BY <2>3, <1>1, <1>2 DEF RecordTargetTest, TestedInv
        <3>2. target' = Recorded(x)
            BY <2>3, <1>2 DEF RecordTargetTest
        <3>3. x.answer \in Answers /\ x.cfg \in Nat
            BY DEF TestSet
        <3> QED BY <3>1, <3>2, <3>3, RecordedEffect
    <2>4. CASE Activate(p)
        <3>1. x.id \in Targets /\ x.kind # "transport" /\ x.answer = "sent" /\ x.pc = "answered"
            BY <2>4, <1>1, <1>2 DEF Activate, TestedInv
        <3> QED BY <2>4, <3>1, <1>2, ActivateEffect
    <2> QED BY <2>1, <2>2, <2>3, <2>4 DEF RecordTelegramTest, RecordEmailTest, LoseTest
<1>6. SettingEvolves
    BY <1>1, <1>5, SettingStays
<1>7. ASSUME NEW t \in Targets, target'[t].state = "live", target'[t].test = "sent",
             target'[t].testCfg = target'[t].cfg
      PROVE  <<t, target'[t].digest>> \in proven'
    <2>1. CASE target'[t].test = target[t].test /\ target'[t].testCfg = target[t].testCfg
        BY <2>1, <1>1, <1>5, <1>7 DEF TestedInv, SameSetting
    <2>2. CASE /\ t = x.id /\ target[t].state = "live" /\ target[t].cfg = x.cfg
               /\ x.kind # "transport" /\ x.answer = "sent" /\ x.pc = "answered"
        <3>1. x.digest = target[t].digest /\ <<x.id, x.digest>> \in proven
            BY <2>2, <1>1, <1>2 DEF TestedInv
        <3> QED BY <2>2, <3>1, <1>1, <1>5 DEF SameSetting
    <2> QED BY <2>1, <2>2, <1>5, <1>7
<1> QED BY <1>1, <1>4, <1>5, <1>6, <1>7, SettingStep

\* Every step of the settings and the tests.
LEMMA SettingsNext ==
    ASSUME TargetTypes, TestedInv, TransportSettings \/ TargetSettings \/ TestNext
    PROVE  TargetTypes' /\ TestedInv' /\ SettingEvolves /\ Ticks
           /\ (rows' = rows \/ \E ks : rows' = FailRows(ks))
<1>1. CASE TransportSettings
    BY <1>1, TransportSettingsNext
<1>2. CASE TargetSettings
    BY <1>2, TargetSettingsNext
<1>3. ASSUME NEW p \in Testers,
             \/ \E c \in Used : BeginTransportTest(p, c)
             \/ \E t \in Targets : BeginTargetTest(p, t) \/ BeginServiceTest(p, t)
      PROVE  (TargetTypes' /\ TestedInv' /\ SettingEvolves /\ Ticks) /\ rows' = rows
    <2>1. ASSUME NEW c \in Used, BeginTransportTest(p, c)
          PROVE  (TargetTypes' /\ TestedInv' /\ SettingEvolves /\ Ticks) /\ rows' = rows
        <3>1. c \in TransportChannels /\ c \in Channels
            BY DEF Used, TransportChannels, Channels
        <3>2. /\ tests' = [tests EXCEPT ![p] = Test("begun", "transport", c, c, None)]
              /\ UNCHANGED <<target, transport, secret, rows, clock, proven>>
            BY <2>1 DEF BeginTransportTest
        <3> QED BY <3>1, <3>2, TestBegins
    <2>2. ASSUME NEW t \in Targets, BeginTargetTest(p, t) \/ BeginServiceTest(p, t)
          PROVE  (TargetTypes' /\ TestedInv' /\ SettingEvolves /\ Ticks) /\ rows' = rows
        <3>1. target[t].channel \in Channels
            BY DEF TargetTypes, TargetSet
        <3>2. PICK kind \in {"target", "service"} :
              /\ tests' = [tests EXCEPT ![p] = Test("begun", kind, t, target[t].channel, None)]
              /\ target[t].state = "live"
              /\ UNCHANGED <<target, transport, secret, rows, clock, proven>>
            BY <2>2 DEF BeginTargetTest, BeginServiceTest
        <3> QED BY <3>1, <3>2, TestBegins
    <2> QED BY <1>3, <2>1, <2>2
<1>4. ASSUME NEW p \in Testers, NEW answer \in {"sent", "failed", "unknown"},
             SendTest(p, answer)
      PROVE  (TargetTypes' /\ TestedInv' /\ SettingEvolves /\ Ticks) /\ rows' = rows
    BY <1>4, TestSends DEF SendTest
<1>5. ASSUME NEW p \in Testers,
             \/ RecordTelegramTest(p) \/ RecordEmailTest(p)
             \/ RecordTargetTest(p) \/ Activate(p)
             \/ LoseTest(p)
      PROVE  TargetTypes' /\ TestedInv' /\ SettingEvolves /\ Ticks
             /\ (rows' = rows \/ \E ks : rows' = FailRows(ks))
    <2>1. rows' = rows \/ \E ks : rows' = FailRows(ks)
        BY <1>5 DEF RecordTelegramTest, RecordEmailTest, RecordTargetTest, Activate, LoseTest
    <2> QED BY <1>5, <2>1, TestEnds
<1> QED BY <1>1, <1>2, <1>3, <1>4, <1>5 DEF TestNext

\* The two outboxes leave the settings of targets alone.
LEMMA OutboxesApart ==
    ASSUME \/ PreferredSettings
           \/ \E S \in SUBSET Articles : PublishSnapshot(S)
           \/ \E w \in Workers : Dispatch(w) \/ Crash(w)
           \/ AlertNext
    PROVE  UNCHANGED targetVars /\ Ticks
<1>1. CASE PreferredSettings
    BY <1>1 DEF PreferredSettings, SetAccount, DisableUser, SetBindings, SetSubscription,
                Tick, Ticks
<1>2. CASE \E S \in SUBSET Articles : PublishSnapshot(S)
    BY <1>2 DEF PublishSnapshot, Tick, Ticks
<1>3. ASSUME NEW w \in Workers, Dispatch(w) \/ Crash(w)
      PROVE  UNCHANGED targetVars /\ clock' = clock
    BY <1>3 DEF Dispatch, ClaimBatch, CheckAccount, CheckTarget, CheckRows, Send, Answer, Crash
<1>4. CASE AlertNext
    <2>1. ASSUME NEW w \in AlertWorkers, DispatchAlerts(w) \/ CrashAlert(w)
          PROVE  UNCHANGED targetVars /\ clock' = clock
        BY <2>1 DEF DispatchAlerts, ClaimAlert, SendAlert, AnswerAlert, CrashAlert
    <2>2. ASSUME NEW n, OpenIncident(n) \/ ResolveIncident(n)
          PROVE  UNCHANGED targetVars /\ Ticks
        BY <2>2 DEF OpenIncident, ResolveIncident, Tick, Ticks
    <2>3. ASSUME NEW on, NEW events, NEW S, SetAlerts(on, events, S)
          PROVE  UNCHANGED targetVars /\ Ticks
        BY <2>3 DEF SetAlerts, Tick, Ticks
    <2>4. ASSUME NEW k, RetryDue(k)
          PROVE  UNCHANGED targetVars /\ clock' = clock
        BY <2>4 DEF RetryDue
    <2> QED BY <1>4, <2>1, <2>2, <2>3, <2>4 DEF AlertNext, Ticks
<1> QED BY <1>1, <1>2, <1>3, <1>4 DEF Ticks

\* No step of the outboxes disturbs the settings.
LEMMA TargetsNext ==
    ASSUME TargetTypes, TestedInv, [Next]_vars
    PROVE  TargetTypes' /\ TestedInv' /\ SettingEvolves /\ Ticks
<1>1. CASE TransportSettings \/ TargetSettings \/ TestNext
    BY <1>1, SettingsNext
<1>2. ASSUME UNCHANGED targetVars, Ticks
      PROVE  TargetTypes' /\ TestedInv' /\ SettingEvolves
    <2>1. UNCHANGED <<target, transport, tests, proven>>
        BY <1>2 DEF targetVars
    <2>2. clock' \in 0..MaxClock
        BY <1>2, ClockType DEF TargetTypes
    <2>3. SettingEvolves
        BY <2>1, SettingStays DEF SameSetting
    <2> QED BY <2>1, <2>2, <2>3 DEF TargetTypes, TestedInv
<1>3. CASE UNCHANGED vars
    BY <1>2, <1>3 DEF vars, Ticks
<1> QED BY <1>1, <1>2, <1>3, OutboxesApart DEF Next

\* The initial settings.
LEMMA TargetsInit ==
    ASSUME Init
    PROVE  TargetTypes /\ TestedInv
<1>1. PICK c \in StartChannels, d \in Dests, v \in Tokens, new \in StartNew :
        SetUpTargets(c, d, v, new)
    BY DEF Init
<1>2. c \in Channels /\ d \in Digests /\ None \in Digests
    BY ChannelAssumption DEF Digests
<1>3. clock \in 0..MaxClock
    BY <1>1, ClockAssumption DEF SetUpTargets
<1>4. tests = [p \in Testers |-> NoTest]
    BY <1>1 DEF SetUpTargets
<1>5. PICK tr : tr = SetUpTransport(v)
    OBVIOUS
<1>6. tr \in TransportSet /\ NoTransport \in TransportSet
    BY <1>5 DEF SetUpTransport, NoTransport, TransportSet, Answers
<1>7. transport \in [TransportChannels -> TransportSet]
    BY <1>1, <1>5, <1>6 DEF SetUpTargets
<1>8. PICK r : r = NewTarget(c, d)
    OBVIOUS
<1>9. r \in TargetSet /\ r.state = "live" /\ r.digest = d /\ r.cfg = 1
    BY <1>2, <1>8, NewTargetRow
<1>10. PICK z : z = NewTarget(c, None)
    OBVIOUS
<1>11. z \in TargetSet /\ z.testCfg = 0 /\ z.cfg = 1
    BY <1>2, <1>10, NewTargetRow
<1>12. PICK q : q = [r EXCEPT !.enabled = TRUE, !.enabledAt = 0, !.test = "sent",
                              !.testCfg = 1]
    OBVIOUS
<1>13. q \in TargetSet /\ q.digest = d
    BY <1>9, <1>12 DEF TargetSet, Answers, Times
<1>14. PICK y : y = [z EXCEPT !.state = "absent"]
    OBVIOUS
<1>15. y \in TargetSet /\ y.state = "absent"
    BY <1>11, <1>14 DEF TargetSet
<1>16. /\ target = [t \in Targets |-> y] \/ target = [t \in Targets |-> q]
       /\ target = [t \in Targets |-> q] => {<<t, d>> : t \in Targets} \subseteq proven
    <2>1. CASE new
        <3>1. target = [t \in Targets |-> y]
            BY <2>1, <1>1, <1>10, <1>14 DEF SetUpTargets, NoTarget
        <3>2. \A t \in Targets : y # q
            BY <1>9, <1>12, <1>15 DEF TargetSet
        <3>3. ASSUME target = [t \in Targets |-> q]
              PROVE  Targets = {}
            BY <3>1, <3>2, <3>3
        <3> QED BY <3>1, <3>3
    <2>2. CASE ~new
        BY <2>2, <1>1, <1>8, <1>12 DEF SetUpTargets
    <2> QED BY <2>1, <2>2
<1>17. target \in [Targets -> TargetSet]
    BY <1>13, <1>15, <1>16
<1>18. \A t \in Targets : target[t].state = "live" => <<t, target[t].digest>> \in proven
    BY <1>13, <1>15, <1>16
<1> QED BY <1>3, <1>4, <1>7, <1>17, <1>18 DEF TargetTypes, TestedInv, NoTest

-----------------------------------------------------------------------------
(* Staging.                                                                *)

\* Types of what staging reads.
Types == TargetTypes /\ SwitchTypes /\ RowTypes

\* A staged item.
LEMMA RowFields ==
    ASSUME TargetTypes, SwitchTypes, NEW s \in Subs, NEW a, NEW t \in Targets,
           NEW pub \in Nat, NEW q, q = Row(s, a, t, pub)
    PROVE  /\ q \in ItemSet /\ q.target = t /\ q.sub = s
           /\ q.status = "pending" /\ q.attempts = 0 /\ q.maybe = 0
           /\ q.account = account.gen /\ q.subGen = sub[s].gen
           /\ q.cfg = target[t].cfg /\ q.wanted = target[t].digest
           /\ q.published = pub
<1>1. PICK g, b, u, f, x, n, d :
        /\ g = account.gen /\ b = binding[t].gen /\ u = sub[s].gen
        /\ f = target[t].cfg /\ x = target[t].act /\ n = Now /\ d = target[t].digest
    OBVIOUS
<1>2. g \in Nat /\ b \in Nat /\ u \in Nat
    BY <1>1 DEF SwitchTypes, Switches
<1>3. f \in Nat /\ x \in Nat /\ n \in Nat /\ d \in Digests
    BY <1>1, ClockAssumption DEF TargetTypes, TargetSet, Now
<1>4. q = [kind |-> "item", target |-> t, sub |-> s, status |-> "pending",
           account |-> g, binding |-> b, subGen |-> u, cfg |-> f, act |-> x,
           at |-> n, published |-> pub, attempts |-> 0, maybe |-> 0,
           waiting |-> FALSE, wanted |-> d]
    BY <1>1 DEF Row
<1> QED BY <1>1, <1>2, <1>3, <1>4 DEF ItemSet, Statuses

\* A staged alert.
LEMMA AlertRowFields ==
    ASSUME TargetTypes, SwitchTypes, NEW t \in Targets, NEW at \in Nat,
           NEW q, q = AlertRow(t, at)
    PROVE  /\ q \in AlertSet /\ q.target = t
           /\ q.status = "pending" /\ q.attempts = 0 /\ q.maybe = 0
           /\ q.cfg = target[t].cfg /\ q.wanted = target[t].digest
           /\ q.published = at
<1>1. PICK g, b, f, x, d :
        /\ g = alertSet.gen /\ b = alertBinding[t].gen
        /\ f = target[t].cfg /\ x = target[t].act /\ d = target[t].digest
    OBVIOUS
<1>2. g \in Nat /\ b \in Nat
    BY <1>1 DEF SwitchTypes, Switches
<1>3. f \in Nat /\ x \in Nat /\ d \in Digests
    BY <1>1 DEF TargetTypes, TargetSet
<1>4. q = [kind |-> "alert", target |-> t, status |-> "pending",
           account |-> g, binding |-> b, cfg |-> f, act |-> x,
           at |-> at, published |-> at, attempts |-> 0, maybe |-> 0,
           waiting |-> FALSE, wanted |-> d]
    BY <1>1 DEF AlertRow
<1> QED BY <1>1, <1>2, <1>3, <1>4 DEF AlertSet, Statuses

\* What a new row is: an item announced under every switch it depends on, or
\* an alert.
NewItem(q) ==
    \E s \in Subs, a \in Articles, t \in Targets, pub \in Nat :
        /\ Stageable(s, a, t, pub)
        /\ q \in ItemSet /\ q.target = t /\ q.sub = s /\ q.published = pub
        /\ q.account = account.gen /\ q.subGen = sub[s].gen
        /\ q.cfg = target[t].cfg /\ q.wanted = target[t].digest

NewAlert(q) ==
    \E n \in Incidents, event \in AlertEvents, t \in Targets, at \in Nat :
        /\ AlertStageable(event, t, at)
        /\ q \in AlertSet /\ q.target = t /\ q.published = at
        /\ q.cfg = target[t].cfg /\ q.wanted = target[t].digest

\* PublishSnapshot stages items.
LEMMA PublishStages ==
    ASSUME Types, NEW S \in SUBSET Articles, PublishSnapshot(S)
    PROVE  /\ Staged
           /\ \A k \in DOMAIN rows' \ DOMAIN rows : NewItem(rows'[k])
           /\ feed' \subseteq Articles /\ published' \in [Articles -> Times]
<1>1. PICK pubs \in [S \ feed -> {clock, Now}], staged \in BOOLEAN :
        LET pub(a) == IF published[a] = None THEN pubs[a] ELSE published[a]
            new == {k \in Subs \X (S \ feed) \X Targets :
                        staged /\ Stageable(k[1], k[2], k[3], pub(k[2]))} \ DOMAIN rows
        IN
        /\ feed' = S
        /\ published' = [a \in Articles |-> IF a \in S \ feed THEN pub(a) ELSE published[a]]
        /\ rows' = [k \in DOMAIN rows \cup new |->
                        IF k \in DOMAIN rows THEN rows[k]
                        ELSE Row(k[1], k[2], k[3], pub(k[2]))]
    BY DEF PublishSnapshot
<1> DEFINE pub(a) == IF published[a] = None THEN pubs[a] ELSE published[a]
           new == {k \in Subs \X (S \ feed) \X Targets :
                       staged /\ Stageable(k[1], k[2], k[3], pub(k[2]))} \ DOMAIN rows
<1>2. /\ feed' = S
      /\ published' = [a \in Articles |-> IF a \in S \ feed THEN pub(a) ELSE published[a]]
      /\ rows' = [k \in DOMAIN rows \cup new |->
                      IF k \in DOMAIN rows THEN rows[k]
                      ELSE Row(k[1], k[2], k[3], pub(k[2]))]
    BY <1>1
<1>3. clock \in Nat /\ Now \in Nat
    BY ClockAssumption DEF Types, TargetTypes, Now
<1>4. \A a \in S \ feed : pub(a) \in Nat
    BY <1>3 DEF Types, SwitchTypes, Times
<1>5. published' \in [Articles -> Times] /\ feed' \subseteq Articles
    BY <1>2, <1>4 DEF Types, SwitchTypes, Times
<1>6. /\ DOMAIN rows' = DOMAIN rows \cup new
      /\ \A k \in DOMAIN rows : rows'[k] = rows[k]
      /\ rows' = [k \in DOMAIN rows' |-> rows'[k]]
    BY <1>2
<1>7. ASSUME NEW k \in new
      PROVE  /\ k \in MessageKeys /\ rows'[k] \in MessageSet /\ NewItem(rows'[k])
             /\ rows'[k].status = "pending" /\ rows'[k].attempts = 0 /\ rows'[k].maybe = 0
    <2>1. PICK s \in Subs, a \in S \ feed, t \in Targets : k = <<s, a, t>>
        OBVIOUS
    <2>2. k[1] = s /\ k[2] = a /\ k[3] = t
        BY <2>1
    <2>3. Stageable(s, a, t, pub(a)) /\ k \notin DOMAIN rows
        BY <2>2
    <2>4. rows'[k] = Row(s, a, t, pub(a))
        BY <1>2, <2>2, <2>3
    <2>5. PICK n \in Nat : n = pub(a)
        BY <1>4
    <2>6. Stageable(s, a, t, n) /\ rows'[k] = Row(s, a, t, n)
        BY <2>3, <2>4, <2>5
    <2>7. /\ rows'[k] \in ItemSet /\ rows'[k].target = t /\ rows'[k].sub = s
          /\ rows'[k].status = "pending" /\ rows'[k].attempts = 0 /\ rows'[k].maybe = 0
          /\ rows'[k].account = account.gen /\ rows'[k].subGen = sub[s].gen
          /\ rows'[k].cfg = target[t].cfg /\ rows'[k].wanted = target[t].digest
          /\ rows'[k].published = n
        BY <2>6, RowFields DEF Types
    <2>8. k \in MessageKeys
        BY <2>1 DEF MessageKeys
    <2> QED BY <2>2, <2>6, <2>7, <2>8 DEF MessageSet, NewItem
<1>8. \A k \in DOMAIN rows : rows[k] \in MessageSet /\ k \in MessageKeys
    BY DEF Types, RowTypes, MessageSet
<1> QED BY <1>5, <1>6, <1>7, <1>8 DEF Staged

\* StageAlerts stages alerts.
LEMMA AlertsStaged ==
    ASSUME Types, NEW event \in AlertEvents, NEW n \in Incidents,
           NEW allowed \in SUBSET Targets, NEW at \in Nat,
           rows' = StageAlerts(event, n, allowed, at)
    PROVE  /\ Staged
           /\ \A k \in DOMAIN rows' \ DOMAIN rows : NewAlert(rows'[k])
<1> DEFINE new == {<<event, n, t>> : t \in {t \in allowed : AlertStageable(event, t, at)}}
                  \ DOMAIN rows
<1>1. rows' = [k \in DOMAIN rows \cup new |->
                IF k \in DOMAIN rows THEN rows[k] ELSE AlertRow(k[3], at)]
    BY DEF StageAlerts
<1>2. /\ DOMAIN rows' = DOMAIN rows \cup new
      /\ \A k \in DOMAIN rows : rows'[k] = rows[k]
      /\ rows' = [k \in DOMAIN rows' |-> rows'[k]]
    BY <1>1
<1>3. ASSUME NEW k \in new
      PROVE  /\ k \in MessageKeys /\ rows'[k] \in MessageSet /\ NewAlert(rows'[k])
             /\ rows'[k].status = "pending" /\ rows'[k].attempts = 0 /\ rows'[k].maybe = 0
    <2>1. PICK t \in Targets : k = <<event, n, t>> /\ AlertStageable(event, t, at)
        OBVIOUS
    <2>2. k[3] = t /\ k \notin DOMAIN rows
        BY <2>1
    <2>3. rows'[k] = AlertRow(t, at)
        BY <1>1, <2>2
    <2>4. /\ rows'[k] \in AlertSet /\ rows'[k].target = t
          /\ rows'[k].status = "pending" /\ rows'[k].attempts = 0 /\ rows'[k].maybe = 0
          /\ rows'[k].cfg = target[t].cfg /\ rows'[k].wanted = target[t].digest
          /\ rows'[k].published = at
        BY <2>3, AlertRowFields DEF Types
    <2>5. k \in MessageKeys
        BY <2>1 DEF MessageKeys
    <2> QED BY <2>1, <2>4, <2>5 DEF MessageSet, NewAlert
<1>4. \A k \in DOMAIN rows : rows[k] \in MessageSet /\ k \in MessageKeys
    BY DEF Types, RowTypes, MessageSet
<1> QED BY <1>2, <1>3, <1>4 DEF Staged

-----------------------------------------------------------------------------
(* Dispatch of items.                                                      *)

\* What the delivery of rows owes to the invariants and to the ledger.
Delivers ==
    /\ RowTypes' /\ DeliveryInv' /\ Ledger!LedgerNext
    /\ \E K : RowsKeep(K)

\* The dispatcher w lets go of everything.
LEMMA IdleDisp ==
    ASSUME RowTypes
    PROVE  Idle \in DispSet /\ HeldOf(Idle) = {} /\ Idle.live = {} /\ Idle.batch = {}
           /\ Idle.pc = "idle"
BY DEF Idle, DispSet, HeldOf, Digests

\* ClaimBatch takes pending items.
LEMMA ClaimDelivers ==
    ASSUME Types, DeliveryInv, NEW w \in Workers, ClaimBatch(w), alertDisp' = alertDisp
    PROVE  Delivers
<1>1. PICK k \in PendingItems :
        LET batch == {j \in PendingItems : rows[j].at = rows[k].at
                                           /\ rows[j].target = rows[k].target}
        IN /\ disp' = [disp EXCEPT ![w] = [Idle EXCEPT !.pc = "account",
                                !.batch = batch, !.target = rows[k].target]]
           /\ rows' = [j \in DOMAIN rows |->
                            IF j \in batch
                            THEN [rows[j] EXCEPT !.status = "sending", !.attempts = @ + 1]
                            ELSE rows[j]]
    BY DEF ClaimBatch
<1>2. PICK K : K = {j \in PendingItems : rows[j].at = rows[k].at
                                         /\ rows[j].target = rows[k].target}
    OBVIOUS
<1>3. PICK t : t = rows[k].target
    OBVIOUS
<1>4. /\ K \in SUBSET DOMAIN rows
      /\ \A j \in K : rows[j].kind = "item" /\ rows[j].status = "pending"
                      /\ rows[j].target = t
      /\ t \in Targets
    BY <1>2, <1>3 DEF PendingItems, Types, RowTypes, ItemSet, AlertSet
<1>5. PICK d : d = [Idle EXCEPT !.pc = "account", !.batch = K, !.target = t]
    OBVIOUS
<1>6. /\ d \in DispSet /\ d.pc = "account" /\ d.batch = K /\ d.live = {} /\ d.target = t
      /\ HeldOf(d) = K
    BY <1>4, <1>5 DEF Idle, DispSet, HeldOf, Digests
<1>7. /\ disp' = [disp EXCEPT ![w] = d]
      /\ rows' = [j \in DOMAIN rows |->
                    IF j \in K
                    THEN [rows[j] EXCEPT !.status = "sending", !.attempts = @ + 1]
                    ELSE rows[j]]
    <2>1. [Idle EXCEPT !.pc = "account",
             !.batch = {j \in PendingItems : rows[j].at = rows[k].at
                                             /\ rows[j].target = rows[k].target},
             !.target = rows[k].target] = d
        BY <1>2, <1>3, <1>5, Zenon
    <2>2. disp' = [disp EXCEPT ![w] = d]
        BY <1>1, <2>1
    <2> QED BY <2>2, <1>1, <1>2
<1>8. /\ RowsKeep(K)
      /\ \A j \in K : /\ rows'[j].status = "sending"
                      /\ rows'[j].attempts = rows[j].attempts + 1
                      /\ rows'[j].maybe = rows[j].maybe
    BY <1>4, <1>7, RowsClaimed DEF Types
<1>9. \A j \in K : rows[j].maybe = 0 /\ rows[j].attempts < MAX_DELIVERY_ATTEMPTS
    BY <1>4 DEF DeliveryInv
<1>10. Ledger!LedgerNext
    BY <1>4, <1>8, <1>9, LedgerTakes DEF Types
<1>11. RowTypes' /\ DeliveryInv'
    <2>1. disp' = [disp EXCEPT ![w] = d]
        BY <1>7
    <2>2. \A j \in K : /\ rows[j].kind = "item" /\ rows[j].status = "pending"
                       /\ rows[j].target = d.target
                       /\ rows'[j].status = "sending" /\ rows'[j].maybe = 0
        BY <1>4, <1>6, <1>8, <1>9
    <2> QED BY ZenonT(40), <2>1, <2>2, <1>4, <1>6, <1>8, DeliveryItem DEF Types
<1> QED BY <1>8, <1>10, <1>11 DEF Delivers

\* Rows the dispatcher holds and has not sent fail; it goes on with the state d.
LEMMA DropDelivers ==
    ASSUME Types, DeliveryInv, NEW w \in Workers, alertDisp' = alertDisp,
           disp[w].pc # "sent", NEW ks \in SUBSET Held(w),
           rows' = rows \/ rows' = SetStatus(ks, "failed"),
           NEW d \in DispSet, disp' = [disp EXCEPT ![w] = d],
           d.live \subseteq d.batch, d.pc = "idle" => d.batch = {},
           d.pc \notin {"idle", "sent"} => d.target = disp[w].target /\ disp[w].pc # "idle",
           d.pc # "sent",
           HeldOf(d) \subseteq Held(w),
           rows' # rows => HeldOf(d) \cap ks = {}
    PROVE  Delivers
<1>1. Held(w) \subseteq DOMAIN rows
    BY DEF Types, RowTypes, DispSet, Held
<1>2. \A k \in Held(w) : /\ rows[k].kind = "item" /\ rows[k].status = "sending"
                         /\ rows[k].maybe = 0 /\ rows[k].target = disp[w].target
    BY DEF DeliveryInv
<1>3. d.pc # "idle" => d.target \in Targets
    BY DEF DeliveryInv
<1>4. HeldOf(d) # {} => d.pc # "idle"
    BY DEF HeldOf
<1>5. PICK K : /\ K \subseteq Held(w) /\ RowsKeep(K) /\ HeldOf(d) \cap K = {}
               /\ \A k \in K : /\ rows'[k].status = "failed"
                               /\ rows'[k].attempts = rows[k].attempts
                               /\ rows'[k].maybe = rows[k].maybe
    <2>1. CASE rows' = rows
        BY <2>1, RowsSame DEF Types
    <2>2. CASE rows' = SetStatus(ks, "failed") /\ rows' # rows
        <3>1. "failed" \in Statuses
            BY DEF Statuses
        <3> DEFINE L == {k \in DOMAIN rows : k \in ks /\ rows[k].status = "sending"}
        <3>2. /\ RowsKeep(L)
              /\ \A k \in L : /\ rows'[k].status = "failed"
                              /\ rows'[k].attempts = rows[k].attempts
                              /\ rows'[k].maybe = rows[k].maybe
            BY <2>2, <3>1, RowsSet DEF Types
        <3>3. L \subseteq Held(w) /\ HeldOf(d) \cap L = {}
            BY <2>2
        <3> QED BY <3>2, <3>3
    <2> QED BY <2>1, <2>2
<1>6. Ledger!LedgerNext
    BY <1>2, <1>5, LedgerGivesUp DEF Types
<1>7. \A k \in HeldOf(d) : /\ k \in Held(w) /\ rows'[k].status = "sending"
                           /\ rows'[k].maybe = 0 /\ rows[k].target = d.target
                           /\ rows[k].kind = "item"
    BY <1>1, <1>2, <1>4, <1>5 DEF RowsKeep, Progress
<1>8. RowTypes' /\ DeliveryInv'
    BY ZenonT(40), <1>2, <1>3, <1>5, <1>7, DeliveryItem DEF Types
<1> QED BY <1>5, <1>6, <1>8 DEF Delivers

\* Abandon fails the batch.
LEMMA AbandonDelivers ==
    ASSUME Types, DeliveryInv, NEW w \in Workers, alertDisp' = alertDisp,
           disp[w].pc \in {"account", "target"}, Abandon(w)
    PROVE  Delivers
<1>1. Held(w) = disp[w].batch
    BY DEF Held
<1>2. rows' = SetStatus(disp[w].batch, "failed") /\ disp' = [disp EXCEPT ![w] = Idle]
    BY DEF Abandon
<1> QED BY <1>1, <1>2, IdleDisp, DropDelivers DEF Types

\* CheckAccount keeps rows of the account's current generation.
LEMMA CheckAccountEffect ==
    ASSUME RowTypes, NEW w \in Workers, CheckAccount(w)
    PROVE  \/ Abandon(w)
           \/ /\ rows' = rows /\ account.enabled
              /\ \E d \in DispSet :
                    /\ disp' = [disp EXCEPT ![w] = d] /\ d.pc = "target"
                    /\ d.batch = disp[w].batch /\ d.target = disp[w].target
                    /\ d.live \subseteq d.batch
                    /\ \A k \in d.live : rows[k].account = account.gen
<1> SUFFICES ASSUME ~Abandon(w)
             PROVE  /\ rows' = rows /\ account.enabled
                    /\ \E d \in DispSet :
                        /\ disp' = [disp EXCEPT ![w] = d] /\ d.pc = "target"
                        /\ d.batch = disp[w].batch /\ d.target = disp[w].target
                        /\ d.live \subseteq d.batch
                        /\ \A k \in d.live : rows[k].account = account.gen
    OBVIOUS
<1>1. PICK r \in DispSet : r = disp[w]
    BY DEF RowTypes
<1>2. PICK L : L = {k \in disp[w].batch : rows[k].account = account.gen
                                          /\ Newer(k, account.enabledAt)}
    OBVIOUS
<1>3. L \subseteq r.batch /\ \A k \in L : rows[k].account = account.gen
    BY <1>1, <1>2
<1>4. PICK d : d = [r EXCEPT !.pc = "target", !.live = L]
    OBVIOUS
<1>5. /\ d \in DispSet /\ d.pc = "target" /\ d.batch = r.batch /\ d.target = r.target
      /\ d.live = L
    BY <1>3, <1>4 DEF DispSet
<1>6. /\ disp' = [disp EXCEPT ![w].pc = "target", ![w].live = L]
      /\ rows' = rows /\ account.enabled
    BY <1>2 DEF CheckAccount
<1>7. disp' = [disp EXCEPT ![w] = d]
    BY <1>1, <1>4, <1>6 DEF RowTypes
<1> QED BY <1>1, <1>3, <1>5, <1>6, <1>7

\* CheckTarget keeps rows of the target's current configuration.
LEMMA CheckTargetEffect ==
    ASSUME Types, DeliveryInv, NEW w \in Workers, CheckTarget(w)
    PROVE  \/ Abandon(w)
           \/ /\ rows' = rows
              /\ \E d \in DispSet :
                    /\ disp' = [disp EXCEPT ![w] = d] /\ d.pc = "rows"
                    /\ d.batch = disp[w].batch /\ d.target = disp[w].target
                    /\ d.live \subseteq disp[w].live
                    /\ d.target \in Targets /\ target[d.target].state = "live"
                    /\ d.digest = target[d.target].digest
                    /\ \A k \in d.live : rows[k].cfg = target[d.target].cfg
<1> DEFINE t == disp[w].target
<1> SUFFICES ASSUME ~Abandon(w)
             PROVE  /\ rows' = rows
                    /\ \E d \in DispSet :
                        /\ disp' = [disp EXCEPT ![w] = d] /\ d.pc = "rows"
                        /\ d.batch = disp[w].batch /\ d.target = disp[w].target
                        /\ d.live \subseteq disp[w].live
                        /\ d.target \in Targets /\ target[d.target].state = "live"
                        /\ d.digest = target[d.target].digest
                        /\ \A k \in d.live : rows[k].cfg = target[d.target].cfg
    OBVIOUS
<1>1. PICK r \in DispSet : r = disp[w]
    BY DEF RowTypes, Types
<1>2. PICK L : L = {k \in disp[w].live :
                        /\ rows[k].cfg = target[t].cfg
                        /\ rows[k].act = target[t].act
                        /\ rows[k].binding = binding[t].gen
                        /\ Newer(k, target[t].enabledAt)
                        /\ Newer(k, binding[t].enabledAt)}
    OBVIOUS
<1>3. L \subseteq r.live /\ \A k \in L : rows[k].cfg = target[t].cfg
    BY <1>1, <1>2
<1>4. t \in Targets
    BY DEF DeliveryInv, CheckTarget
<1>5. PICK x \in Digests : x = target[t].digest
    BY <1>4 DEF Types, TargetTypes, TargetSet
<1>6. PICK d : d = [r EXCEPT !.pc = "rows", !.digest = x, !.live = L]
    OBVIOUS
<1>7. /\ d \in DispSet /\ d.pc = "rows" /\ d.batch = r.batch /\ d.target = r.target
      /\ d.live = L /\ d.digest = x
    BY <1>3, <1>6 DEF DispSet
<1>8. /\ disp' = [disp EXCEPT ![w].pc = "rows", ![w].digest = x, ![w].live = L]
      /\ rows' = rows /\ target[t].state = "live"
    BY <1>2, <1>5 DEF CheckTarget, TargetAvailable
<1>9. disp' = [disp EXCEPT ![w] = d]
    BY <1>1, <1>6, <1>8 DEF RowTypes, Types
<1>10. /\ d.pc = "rows" /\ d.batch = disp[w].batch /\ d.target = disp[w].target
       /\ d.live \subseteq disp[w].live
       /\ d.target \in Targets /\ d.digest = target[d.target].digest
       /\ \A k \in d.live : rows[k].cfg = target[d.target].cfg
    BY <1>1, <1>3, <1>4, <1>5, <1>7
<1>11. rows' = rows /\ target[d.target].state = "live"
    BY <1>8, <1>10
<1> QED BY <1>7, <1>9, <1>10, <1>11

\* CheckRows keeps rows of the subscription's current generation.
LEMMA CheckRowsEffect ==
    ASSUME RowTypes, NEW w \in Workers, CheckRows(w)
    PROVE  \E L \in SUBSET disp[w].live :
            /\ rows' = SetStatus(disp[w].batch \ L, "failed")
            /\ \A k \in L : /\ sub[rows[k].sub].enabled
                            /\ rows[k].subGen = sub[rows[k].sub].gen
            /\ \/ disp' = [disp EXCEPT ![w] = Idle]
               \/ \E d \in DispSet :
                    /\ disp' = [disp EXCEPT ![w] = d] /\ d.pc = "send"
                    /\ d.batch = disp[w].batch /\ d.target = disp[w].target
                    /\ d.digest = disp[w].digest /\ d.live = L
<1>1. PICK L : L = {k \in disp[w].live :
                        /\ sub[rows[k].sub].enabled
                        /\ rows[k].subGen = sub[rows[k].sub].gen
                        /\ Newer(k, sub[rows[k].sub].enabledAt)}
    OBVIOUS
<1>2. PICK r \in DispSet : r = disp[w]
    BY DEF RowTypes
<1>3. /\ L \in SUBSET disp[w].live
      /\ \A k \in L : sub[rows[k].sub].enabled /\ rows[k].subGen = sub[rows[k].sub].gen
    BY <1>1
<1>4. /\ rows' = SetStatus(disp[w].batch \ L, "failed")
      /\ disp' = [disp EXCEPT ![w] = IF L = {} THEN Idle
                                     ELSE [@ EXCEPT !.pc = "send", !.live = L]]
    BY <1>1, Zenon DEF CheckRows
<1>5. CASE L = {}
    <2>1. disp' = [disp EXCEPT ![w] = Idle]
        BY <1>4, <1>5
    <2> QED BY <2>1, <1>3, <1>4
<1>6. CASE L # {}
    <2>1. PICK d : d = [r EXCEPT !.pc = "send", !.live = L]
        OBVIOUS
    <2>2. /\ d \in DispSet /\ d.pc = "send" /\ d.batch = r.batch /\ d.target = r.target
          /\ d.digest = r.digest /\ d.live = L
        BY <1>2, <1>3, <2>1 DEF DispSet
    <2>3. disp' = [disp EXCEPT ![w] = d]
        BY <1>2, <1>4, <1>6, <2>1
    <2> QED BY <1>2, <1>3, <1>4, <2>2, <2>3
<1> QED BY <1>5, <1>6

\* Send transmits everything it kept, or nothing.
LEMMA SendEffect ==
    ASSUME RowTypes, NEW w \in Workers, Send(w)
    PROVE  \/ /\ rows' = rows \/ rows' = SetStatus(disp[w].live, "failed")
              /\ disp' = [disp EXCEPT ![w] = Idle]
           \/ /\ rows' = [k \in DOMAIN rows |->
                            IF k \in disp[w].live THEN [rows[k] EXCEPT !.maybe = @ + 1]
                            ELSE rows[k]]
              /\ \E d \in DispSet :
                    /\ disp' = [disp EXCEPT ![w] = d] /\ d.pc = "sent"
                    /\ d.batch = disp[w].batch /\ d.target = disp[w].target
                    /\ d.digest = disp[w].digest /\ d.live = disp[w].live
<1>1. CASE Bound(disp[w].target, disp[w].digest) /\ TransportReady(target[disp[w].target].channel)
    <2>1. PICK r \in DispSet : r = disp[w]
        BY DEF RowTypes
    <2>2. PICK d : d = [r EXCEPT !.pc = "sent"]
        OBVIOUS
    <2>3. /\ d \in DispSet /\ d.pc = "sent" /\ d.batch = r.batch /\ d.target = r.target
          /\ d.digest = r.digest /\ d.live = r.live
        BY <2>2 DEF DispSet
    <2>4. /\ disp' = [disp EXCEPT ![w].pc = "sent"]
          /\ rows' = [k \in DOMAIN rows |->
                        IF k \in disp[w].live THEN [rows[k] EXCEPT !.maybe = @ + 1]
                        ELSE rows[k]]
        BY <1>1 DEF Send
    <2>5. disp' = [disp EXCEPT ![w] = d]
        BY <2>1, <2>2, <2>4 DEF RowTypes
    <2> QED BY <2>1, <2>3, <2>4, <2>5
<1>2. CASE ~(Bound(disp[w].target, disp[w].digest)
             /\ TransportReady(target[disp[w].target].channel))
    BY <1>2 DEF Send
<1> QED BY <1>1, <1>2

\* The checks drop rows that were not sent.
LEMMA ChecksDeliver ==
    ASSUME Types, DeliveryInv, NEW w \in Workers, alertDisp' = alertDisp,
           CheckAccount(w) \/ CheckTarget(w) \/ CheckRows(w)
    PROVE  Delivers
<1>1. disp[w].live \subseteq disp[w].batch
    BY DEF DeliveryInv
<1>2. CASE CheckAccount(w)
    <2>1. disp[w].pc = "account" /\ Held(w) = disp[w].batch
        BY <1>2 DEF CheckAccount, Held
    <2>2. CASE Abandon(w)
        BY <2>1, <2>2, AbandonDelivers
    <2>3. CASE ~Abandon(w)
        <3>1. PICK d \in DispSet :
                /\ rows' = rows /\ disp' = [disp EXCEPT ![w] = d] /\ d.pc = "target"
                /\ d.batch = disp[w].batch /\ d.target = disp[w].target
                /\ d.live \subseteq d.batch
            BY <1>2, <2>3, CheckAccountEffect DEF Types
        <3>2. HeldOf(d) = Held(w)
            BY <2>1, <3>1 DEF HeldOf
        <3> QED BY <2>1, <3>1, <3>2, DropDelivers
    <2> QED BY <2>2, <2>3
<1>3. CASE CheckTarget(w)
    <2>1. disp[w].pc = "target" /\ Held(w) = disp[w].batch
        BY <1>3 DEF CheckTarget, Held
    <2>2. CASE Abandon(w)
        BY <2>1, <2>2, AbandonDelivers
    <2>3. CASE ~Abandon(w)
        <3>1. PICK d \in DispSet :
                /\ rows' = rows /\ disp' = [disp EXCEPT ![w] = d] /\ d.pc = "rows"
                /\ d.batch = disp[w].batch /\ d.target = disp[w].target
                /\ d.live \subseteq disp[w].live
            BY <1>3, <2>3, CheckTargetEffect
        <3>2. HeldOf(d) = Held(w) /\ d.live \subseteq d.batch
            BY <1>1, <2>1, <3>1 DEF HeldOf
        <3> QED BY <2>1, <3>1, <3>2, DropDelivers
    <2> QED BY <2>2, <2>3
<1>4. CASE CheckRows(w)
    <2>1. disp[w].pc = "rows" /\ Held(w) = disp[w].batch
        BY <1>4 DEF CheckRows, Held
    <2>2. PICK L \in SUBSET disp[w].live :
            /\ rows' = SetStatus(disp[w].batch \ L, "failed")
            /\ \/ disp' = [disp EXCEPT ![w] = Idle]
               \/ \E d \in DispSet :
                    /\ disp' = [disp EXCEPT ![w] = d] /\ d.pc = "send"
                    /\ d.batch = disp[w].batch /\ d.target = disp[w].target
                    /\ d.live = L
        BY <1>4, CheckRowsEffect DEF Types
    <2>3. PICK ks : ks = disp[w].batch \ L
        OBVIOUS
    <2>4. ks \in SUBSET Held(w) /\ rows' = SetStatus(ks, "failed")
        BY <2>1, <2>2, <2>3
    <2>5. CASE disp' = [disp EXCEPT ![w] = Idle]
        BY <2>1, <2>4, <2>5, IdleDisp, DropDelivers DEF Types
    <2>6. ASSUME NEW d \in DispSet, disp' = [disp EXCEPT ![w] = d], d.pc = "send",
                 d.batch = disp[w].batch, d.target = disp[w].target, d.live = L
          PROVE  Delivers
        <3>1. HeldOf(d) = L
            BY <2>6 DEF HeldOf
        <3>2. HeldOf(d) \subseteq Held(w) /\ HeldOf(d) \cap ks = {} /\ d.live \subseteq d.batch
            BY <1>1, <2>1, <2>3, <2>6, <3>1
        <3> QED BY <2>1, <2>4, <2>6, <3>2, DropDelivers
    <2> QED BY <2>2, <2>5, <2>6
<1> QED BY <1>2, <1>3, <1>4

\* A dispatcher that stops leaves its rows as they are.
LEMMA StopDelivers ==
    ASSUME Types, DeliveryInv, NEW w \in Workers, alertDisp' = alertDisp,
           rows' = rows, disp' = [disp EXCEPT ![w] = Idle]
    PROVE  Delivers
<1>1. RowsKeep({})
    BY RowsSame DEF Types
<1>2. Ledger!LedgerNext
    BY <1>1, LedgerGivesUp DEF Types
<1>3. RowTypes' /\ DeliveryInv'
    BY <1>1, IdleDisp, DeliveryItem DEF Types
<1> QED BY <1>1, <1>2, <1>3 DEF Delivers

\* Send transmits rows that were not transmitted.
LEMMA SendDelivers ==
    ASSUME Types, DeliveryInv, NEW w \in Workers, alertDisp' = alertDisp, Send(w)
    PROVE  Delivers
<1>1. /\ disp[w].pc = "send" /\ Held(w) = disp[w].live
      /\ disp[w].live \subseteq disp[w].batch
    BY DEF Send, Held, DeliveryInv
<1>2. CASE rows' = rows /\ disp' = [disp EXCEPT ![w] = Idle]
    BY <1>2, StopDelivers
<1>3. CASE rows' = SetStatus(disp[w].live, "failed") /\ disp' = [disp EXCEPT ![w] = Idle]
    BY <1>1, <1>3, IdleDisp, DropDelivers DEF Types
<1>4. ASSUME NEW d \in DispSet, disp' = [disp EXCEPT ![w] = d], d.pc = "sent",
             d.batch = disp[w].batch, d.target = disp[w].target, d.live = disp[w].live,
             rows' = [k \in DOMAIN rows |->
                        IF k \in disp[w].live THEN [rows[k] EXCEPT !.maybe = @ + 1]
                        ELSE rows[k]]
      PROVE  Delivers
    <2>1. PICK K : K = disp[w].live
        OBVIOUS
    <2>2. K \in SUBSET DOMAIN rows /\ K = Held(w) /\ HeldOf(d) = K
        BY <1>1, <1>4, <2>1 DEF Types, RowTypes, DispSet, HeldOf
    <2>3. \A k \in K : /\ rows[k].kind = "item" /\ rows[k].target = disp[w].target
                       /\ rows[k].status = "sending" /\ rows[k].maybe = 0
        BY <1>1, <2>2 DEF DeliveryInv
    <2>4. /\ RowsKeep(K)
          /\ \A k \in K : /\ rows'[k].status = rows[k].status
                          /\ rows'[k].attempts = rows[k].attempts
                          /\ rows'[k].maybe = rows[k].maybe + 1
        BY <1>4, <2>1, <2>2, RowsTransmitted DEF Types
    <2>5. \A k \in K : rows'[k].maybe = 1
        BY <2>3, <2>4
    <2>6. Ledger!LedgerNext
        BY <2>3, <2>4, <2>5, LedgerTransmits DEF Types
    <2>7. d.target \in Targets
        BY <1>1, <1>4 DEF DeliveryInv
    <2>8. /\ d.live \subseteq d.batch
          /\ disp' = [disp EXCEPT ![w] = d] /\ d.pc = "sent" /\ d.target = disp[w].target
        BY <1>1, <1>4
    <2>9. RowTypes' /\ DeliveryInv'
        BY ZenonT(40), <2>2, <2>3, <2>4, <2>5, <2>7, <2>8, DeliveryItem DEF Types
    <2> QED BY <2>4, <2>6, <2>9 DEF Delivers
<1> QED BY <1>2, <1>3, <1>4, SendEffect DEF Types

\* Answer settles what was transmitted.
LEMMA AnswerDelivers ==
    ASSUME Types, DeliveryInv, NEW w \in Workers, alertDisp' = alertDisp,
           NEW o \in Outcomes, Answer(w, o)
    PROVE  Delivers
<1>1. /\ disp[w].pc = "sent" /\ Held(w) = disp[w].live
      /\ disp' = [disp EXCEPT ![w] = Idle]
    BY DEF Answer, Held
<1>2. \A k \in Held(w) : /\ rows[k].kind = "item" /\ rows[k].status = "sending"
                         /\ rows[k].maybe = 1
    BY <1>1 DEF DeliveryInv
<1> DEFINE K == {k \in DOMAIN rows : k \in disp[w].live /\ rows[k].status = "sending"}
<1>3. K \subseteq Held(w)
    BY <1>1
<1>4. ASSUME RowsKeep(K), \A k \in K : rows'[k].status # "pending"
      PROVE  RowTypes' /\ DeliveryInv'
    <2> HIDE DEF K
    <2> QED BY <1>1, <1>2, <1>3, <1>4, IdleDisp, DeliveryItem DEF Types
<1>5. CASE o = "unknown"
    BY <1>1, <1>5, StopDelivers DEF Answer
<1>6. CASE o = "succeeded"
    <2>1. rows' = SetStatus(disp[w].live, "succeeded") /\ "succeeded" \in Statuses
        BY <1>6 DEF Answer, Statuses
    <2>2. /\ RowsKeep(K)
          /\ \A k \in K : /\ rows'[k].status = "succeeded"
                          /\ rows'[k].attempts = rows[k].attempts
                          /\ rows'[k].maybe = rows[k].maybe
        BY ZenonT(40), <2>1, RowsSet DEF Types
    <2> HIDE DEF K
    <2>3. Ledger!LedgerNext
        BY <1>2, <1>3, <2>2, LedgerAccepts DEF Types
    <2> QED BY <1>4, <2>2, <2>3 DEF Delivers
<1>7. CASE o = "failed"
    <2>1. rows' = Refused(disp[w].live, "failed", FALSE) /\ "failed" \in Statuses
        BY <1>7 DEF Answer, Statuses
    <2>2. /\ RowsKeep(K)
          /\ \A k \in K : /\ rows'[k].status = "failed"
                          /\ rows'[k].attempts = rows[k].attempts
                          /\ rows'[k].maybe = 0
        BY <2>1, RowsRefused DEF Types
    <2> HIDE DEF K
    <2>3. Ledger!LedgerNext
        BY <1>2, <1>3, <2>2, LedgerRefuses DEF Types
    <2> QED BY <1>4, <2>2, <2>3 DEF Delivers
<1> QED BY <1>5, <1>6, <1>7 DEF Outcomes

-----------------------------------------------------------------------------
(* Dispatch of alerts.                                                     *)

\* The dispatcher w lets go of its alert.
LEMMA NotSendingDisp ==
    ASSUME RowTypes
    PROVE  NotSending \in AlertDispSet /\ NotSending.pc = "idle"
BY DEF NotSending, AlertDispSet, Digests

\* ClaimAlert takes a pending alert to the destination its target has, or
\* fails it.
LEMMA ClaimAlertEffect ==
    ASSUME Types, DeliveryInv, NEW w \in AlertWorkers, ClaimAlert(w)
    PROVE  \E k \in PendingAlerts :
            \/ rows' = [rows EXCEPT ![k].status = "failed"] /\ alertDisp' = alertDisp
            \/ /\ rows' = [rows EXCEPT ![k].status = "sending", ![k].attempts = @ + 1]
               /\ target[rows[k].target].state = "live"
               /\ rows[k].cfg = target[rows[k].target].cfg
               /\ \E d \in AlertDispSet :
                    /\ alertDisp' = [alertDisp EXCEPT ![w] = d]
                    /\ d.pc = "send" /\ d.key = k
                    /\ d.digest = target[rows[k].target].digest
                    /\ d.attempts = rows[k].attempts + 1
<1>1. PICK k \in PendingAlerts :
        IF AlertCurrent(k)
        THEN /\ rows' = [rows EXCEPT ![k].status = "sending", ![k].attempts = @ + 1]
             /\ alertDisp' = [alertDisp EXCEPT ![w] =
                   [pc |-> "send", key |-> k, digest |-> target[rows[k].target].digest,
                    attempts |-> rows[k].attempts + 1]]
        ELSE /\ rows' = [rows EXCEPT ![k].status = "failed"]
             /\ UNCHANGED alertDisp
    BY DEF ClaimAlert
<1>2. k \in DOMAIN rows /\ rows[k].target \in Targets /\ rows[k].attempts \in Nat
    BY DEF PendingAlerts, Types, RowTypes, ItemSet, AlertSet
<1>3. target[rows[k].target].digest \in Digests
    BY <1>2 DEF Types, TargetTypes, TargetSet
<1>4. CASE ~AlertCurrent(k)
    BY <1>1, <1>4
<1>5. CASE AlertCurrent(k)
    <2>1. /\ rows' = [rows EXCEPT ![k].status = "sending", ![k].attempts = @ + 1]
          /\ alertDisp' = [alertDisp EXCEPT ![w] =
                [pc |-> "send", key |-> k, digest |-> target[rows[k].target].digest,
                 attempts |-> rows[k].attempts + 1]]
        BY <1>1, <1>5
    <2>2. /\ target[rows[k].target].state = "live"
          /\ rows[k].cfg = target[rows[k].target].cfg
        BY <1>5 DEF AlertCurrent, TargetAvailable
    <2>3. PICK d : d = [pc |-> "send", key |-> k, digest |-> target[rows[k].target].digest,
                        attempts |-> rows[k].attempts + 1]
        OBVIOUS
    <2>4. /\ d \in AlertDispSet /\ d.pc = "send" /\ d.key = k
          /\ d.digest = target[rows[k].target].digest
          /\ d.attempts = rows[k].attempts + 1
        BY <1>2, <1>3, <2>3 DEF AlertDispSet
    <2>5. alertDisp' = [alertDisp EXCEPT ![w] = d]
        BY <2>1, <2>3
    <2> QED BY <2>1, <2>2, <2>4, <2>5
<1> QED BY <1>4, <1>5

\* A claim of an alert.
LEMMA ClaimAlertDelivers ==
    ASSUME Types, DeliveryInv, NEW w \in AlertWorkers, ClaimAlert(w), disp' = disp
    PROVE  Delivers
<1>1. PICK k \in PendingAlerts :
        \/ rows' = [rows EXCEPT ![k].status = "failed"] /\ alertDisp' = alertDisp
        \/ /\ rows' = [rows EXCEPT ![k].status = "sending", ![k].attempts = @ + 1]
           /\ \E d \in AlertDispSet :
                /\ alertDisp' = [alertDisp EXCEPT ![w] = d]
                /\ d.pc = "send" /\ d.key = k
                /\ d.attempts = rows[k].attempts + 1
    BY ClaimAlertEffect
<1>2. /\ k \in DOMAIN rows /\ rows[k].kind = "alert" /\ rows[k].status = "pending"
      /\ rows[k].maybe = 0 /\ rows[k].attempts < MAX_DELIVERY_ATTEMPTS
    BY DEF PendingAlerts, DeliveryInv
<1>3. rows[k] \in MessageSet /\ rows \in [DOMAIN rows -> MessageSet]
    BY <1>2 DEF Types, RowTypes, MessageSet
<1>4. CASE rows' = [rows EXCEPT ![k].status = "failed"] /\ alertDisp' = alertDisp
    <2>1. PICK q : q = [rows[k] EXCEPT !.status = "failed"]
        OBVIOUS
    <2>2. /\ q \in MessageSet /\ SameMessage(q, rows[k])
          /\ q.status = "failed" /\ q.attempts = rows[k].attempts /\ q.maybe = rows[k].maybe
        BY <1>3, <2>1, RowStatus DEF Statuses
    <2>3. rows' = [rows EXCEPT ![k] = q]
        BY <1>4, <2>1
    <2>4. RowsKeep({k}) /\ rows'[k] = q
        BY <1>2, <2>2, <2>3, RowReplaced DEF Types
    <2>5. Ledger!LedgerNext
        BY <1>2, <2>2, <2>4, LedgerGivesUp DEF Types
    <2>6. RowTypes' /\ DeliveryInv'
        BY <1>2, <1>4, <2>2, <2>4, DeliveryQuiet DEF Types
    <2> QED BY <2>4, <2>5, <2>6 DEF Delivers
<1>5. ASSUME NEW d \in AlertDispSet, alertDisp' = [alertDisp EXCEPT ![w] = d],
             d.pc = "send", d.key = k, d.attempts = rows[k].attempts + 1,
             rows' = [rows EXCEPT ![k].status = "sending", ![k].attempts = @ + 1]
      PROVE  Delivers
    <2>1. PICK q : q = [rows[k] EXCEPT !.status = "sending", !.attempts = @ + 1]
        OBVIOUS
    <2>2. /\ q \in MessageSet /\ SameMessage(q, rows[k])
          /\ q.status = "sending" /\ q.attempts = rows[k].attempts + 1
          /\ q.maybe = rows[k].maybe
        BY <1>3, <2>1, RowClaimed
    <2>3. rows' = [rows EXCEPT ![k] = q]
        BY <1>3, <1>5, <2>1
    <2>4. RowsKeep({k}) /\ rows'[k] = q
        BY <1>2, <2>2, <2>3, RowReplaced DEF Types
    <2>5. Ledger!LedgerNext
        BY <1>2, <2>2, <2>4, LedgerTakes DEF Types
    <2>6. /\ alertDisp' = [alertDisp EXCEPT ![w] = d]
          /\ d.pc = "send" /\ d.key = k /\ d.attempts = rows'[k].attempts
          /\ rows'[k].status = "sending" /\ rows'[k].maybe = 0
        BY <1>2, <1>5, <2>2, <2>4
    <2>7. RowTypes' /\ DeliveryInv'
        BY <1>2, <2>4, <2>6, DeliveryAlert DEF Types
    <2> QED BY <2>4, <2>5, <2>7 DEF Delivers
<1> QED BY <1>1, <1>4, <1>5

\* The alert in hand fails before it was sent.
LEMMA DropAlertDelivers ==
    ASSUME Types, DeliveryInv, NEW w \in AlertWorkers, disp' = disp,
           alertDisp[w].pc = "send", rows' = SetStatus({alertDisp[w].key}, "failed"),
           alertDisp' = [alertDisp EXCEPT ![w] = NotSending]
    PROVE  Delivers
<1>1. PICK k : k = alertDisp[w].key
    OBVIOUS
<1>2. /\ k \in DOMAIN rows /\ rows[k].kind = "alert" /\ rows[k].status = "sending"
      /\ rows[k].maybe = 0
    BY <1>1 DEF DeliveryInv
<1> DEFINE K == {j \in DOMAIN rows : j \in {k} /\ rows[j].status = "sending"}
<1>3. /\ RowsKeep(K)
      /\ \A j \in K : /\ rows'[j].status = "failed"
                      /\ rows'[j].attempts = rows[j].attempts
                      /\ rows'[j].maybe = rows[j].maybe
    BY <1>1, RowsSet DEF Types, Statuses
<1>4. K = {k}
    BY <1>2
<1> HIDE DEF K
<1>5. Ledger!LedgerNext
    BY <1>2, <1>3, <1>4, LedgerGivesUp DEF Types
<1>6. \A j \in K : /\ rows[j].kind = "alert"
                   /\ alertDisp[w].pc # "idle" /\ j = alertDisp[w].key
                   /\ rows'[j].status # "pending"
    BY <1>1, <1>2, <1>3, <1>4
<1>7. NotSending \in AlertDispSet /\ NotSending.pc = "idle"
    BY NotSendingDisp DEF Types
<1>8. RowTypes' /\ DeliveryInv'
    BY <1>3, <1>6, <1>7, DeliveryAlert DEF Types
<1> QED BY <1>3, <1>5, <1>8 DEF Delivers

\* An alert dispatcher that stops leaves its row as it is.
LEMMA StopAlertDelivers ==
    ASSUME Types, DeliveryInv, NEW w \in AlertWorkers, disp' = disp,
           rows' = rows, alertDisp' = [alertDisp EXCEPT ![w] = NotSending]
    PROVE  Delivers
<1>1. RowsKeep({})
    BY RowsSame DEF Types
<1>2. Ledger!LedgerNext
    BY <1>1, LedgerGivesUp DEF Types
<1>3. RowTypes' /\ DeliveryInv'
    BY <1>1, NotSendingDisp, DeliveryAlert DEF Types
<1> QED BY <1>1, <1>2, <1>3 DEF Delivers

\* SendAlert transmits the alert in hand to the destination in hand, or not.
LEMMA SendAlertEffect ==
    ASSUME RowTypes, NEW w \in AlertWorkers, SendAlert(w)
    PROVE  \/ /\ rows' = rows \/ rows' = SetStatus({alertDisp[w].key}, "failed")
              /\ alertDisp' = [alertDisp EXCEPT ![w] = NotSending]
           \/ /\ rows' = [rows EXCEPT ![alertDisp[w].key].maybe = @ + 1]
              /\ \E d \in AlertDispSet :
                    /\ alertDisp' = [alertDisp EXCEPT ![w] = d] /\ d.pc = "sent"
                    /\ d.key = alertDisp[w].key /\ d.digest = alertDisp[w].digest
                    /\ d.attempts = alertDisp[w].attempts
<1>1. CASE TransportReady(target[rows[alertDisp[w].key].target].channel)
    <2>1. PICK r \in AlertDispSet : r = alertDisp[w]
        BY DEF RowTypes
    <2>2. PICK d : d = [r EXCEPT !.pc = "sent"]
        OBVIOUS
    <2>3. /\ d \in AlertDispSet /\ d.pc = "sent" /\ d.key = r.key /\ d.digest = r.digest
          /\ d.attempts = r.attempts
        BY <2>2 DEF AlertDispSet
    <2>4. /\ alertDisp' = [alertDisp EXCEPT ![w].pc = "sent"]
          /\ rows' = [rows EXCEPT ![alertDisp[w].key].maybe = @ + 1]
        BY <1>1 DEF SendAlert
    <2>5. alertDisp' = [alertDisp EXCEPT ![w] = d]
        BY <2>1, <2>2, <2>4 DEF RowTypes
    <2> QED BY <2>1, <2>3, <2>4, <2>5
<1>2. CASE ~TransportReady(target[rows[alertDisp[w].key].target].channel)
    BY <1>2 DEF SendAlert
<1> QED BY <1>1, <1>2

\* A transmission of an alert.
LEMMA SendAlertDelivers ==
    ASSUME Types, DeliveryInv, NEW w \in AlertWorkers, disp' = disp, SendAlert(w)
    PROVE  Delivers
<1>1. PICK k : k = alertDisp[w].key
    OBVIOUS
<1>2. alertDisp[w].pc = "send"
    BY DEF SendAlert
<1>3. /\ k \in DOMAIN rows /\ rows[k].kind = "alert" /\ rows[k].status = "sending"
      /\ rows[k].maybe = 0 /\ rows[k].attempts = alertDisp[w].attempts
    BY <1>1, <1>2 DEF DeliveryInv
<1>4. CASE rows' = rows /\ alertDisp' = [alertDisp EXCEPT ![w] = NotSending]
    BY <1>4, StopAlertDelivers
<1>5. CASE /\ rows' = SetStatus({alertDisp[w].key}, "failed")
           /\ alertDisp' = [alertDisp EXCEPT ![w] = NotSending]
    BY <1>2, <1>5, DropAlertDelivers
<1>6. ASSUME NEW d \in AlertDispSet, alertDisp' = [alertDisp EXCEPT ![w] = d],
             d.pc = "sent", d.key = alertDisp[w].key, d.attempts = alertDisp[w].attempts,
             rows' = [rows EXCEPT ![alertDisp[w].key].maybe = @ + 1]
      PROVE  Delivers
    <2>1. rows[k] \in MessageSet /\ rows \in [DOMAIN rows -> MessageSet]
        BY <1>3 DEF Types, RowTypes, MessageSet
    <2>2. PICK q : q = [rows[k] EXCEPT !.maybe = @ + 1]
        OBVIOUS
    <2>3. /\ q \in MessageSet /\ SameMessage(q, rows[k])
          /\ q.status = rows[k].status /\ q.attempts = rows[k].attempts
          /\ q.maybe = rows[k].maybe + 1
        BY <2>1, <2>2, RowSent
    <2>4. rows' = [rows EXCEPT ![k] = q]
        BY <1>1, <1>6, <2>1, <2>2
    <2>5. RowsKeep({k}) /\ rows'[k] = q
        BY <1>3, <2>3, <2>4, RowReplaced DEF Types
    <2>6. /\ rows'[k].status = "sending" /\ rows'[k].attempts = rows[k].attempts
          /\ rows'[k].maybe = 1
        BY <1>3, <2>3, <2>5
    <2>7. Ledger!LedgerNext
        BY <1>3, <2>5, <2>6, LedgerTransmits DEF Types
    <2>8. /\ alertDisp' = [alertDisp EXCEPT ![w] = d]
          /\ d.pc = "sent" /\ d.key = k /\ d.attempts = rows'[k].attempts
        BY <1>1, <1>3, <1>6, <2>6
    <2>9. RowTypes' /\ DeliveryInv'
        BY <1>1, <1>2, <1>3, <2>5, <2>6, <2>8, DeliveryAlert DEF Types
    <2> QED BY <2>5, <2>7, <2>9 DEF Delivers
<1> QED BY <1>4, <1>5, <1>6, SendAlertEffect DEF Types

\* AnswerAlert settles the alert or lets it wait for another try.
LEMMA AnswerAlertDelivers ==
    ASSUME Types, DeliveryInv, NEW w \in AlertWorkers, disp' = disp,
           NEW o \in AlertOutcomes, AnswerAlert(w, o)
    PROVE  Delivers
<1>1. PICK k : k = alertDisp[w].key
    OBVIOUS
<1>2. /\ alertDisp[w].pc = "sent"
      /\ alertDisp' = [alertDisp EXCEPT ![w] = NotSending]
    BY DEF AnswerAlert
<1>3. /\ k \in DOMAIN rows /\ rows[k].kind = "alert" /\ rows[k].status = "sending"
      /\ rows[k].maybe = 1 /\ rows[k].attempts = alertDisp[w].attempts
    BY <1>1, <1>2 DEF DeliveryInv
<1> DEFINE K == {j \in DOMAIN rows : j \in {k} /\ rows[j].status = "sending"}
<1>4. K = {k}
    BY <1>3
<1>5. ASSUME RowsKeep(K), rows'[k].status = "pending" =>
                rows'[k].maybe = 0 /\ rows'[k].attempts < MAX_DELIVERY_ATTEMPTS
      PROVE  RowTypes' /\ DeliveryInv'
    <2> HIDE DEF K
    <2> QED BY <1>1, <1>2, <1>3, <1>4, <1>5, NotSendingDisp, DeliveryAlert DEF Types
<1>6. ASSUME rows' = Refused({k}, "failed", FALSE)
      PROVE  Delivers
    <2>1. "failed" \in Statuses
        BY DEF Statuses
    <2>2. /\ RowsKeep(K)
          /\ \A j \in K : /\ rows'[j].status = "failed"
                          /\ rows'[j].attempts = rows[j].attempts
                          /\ rows'[j].maybe = 0
        BY <1>6, <2>1, RowsRefused DEF Types
    <2> HIDE DEF K
    <2>3. Ledger!LedgerNext
        BY <1>3, <1>4, <2>2, LedgerRefuses DEF Types
    <2> QED BY <1>4, <1>5, <2>2, <2>3 DEF Delivers
<1>7. CASE o = "unknown"
    BY <1>2, <1>7, StopAlertDelivers DEF AnswerAlert
<1>8. CASE o = "succeeded"
    <2>1. rows' = SetStatus({k}, "succeeded") /\ "succeeded" \in Statuses
        BY <1>1, <1>8 DEF AnswerAlert, Statuses
    <2>2. /\ RowsKeep(K)
          /\ \A j \in K : /\ rows'[j].status = "succeeded"
                          /\ rows'[j].attempts = rows[j].attempts
                          /\ rows'[j].maybe = rows[j].maybe
        BY <2>1, RowsSet DEF Types
    <2> HIDE DEF K
    <2>3. Ledger!LedgerNext
        BY <1>3, <1>4, <2>2, LedgerAccepts DEF Types
    <2> QED BY <1>4, <1>5, <2>2, <2>3 DEF Delivers
<1>9. CASE o = "failed"
    BY <1>1, <1>6, <1>9 DEF AnswerAlert
<1>10. CASE o = "retry" /\ alertDisp[w].attempts < MAX_DELIVERY_ATTEMPTS
    <2>1. rows' = Refused({k}, "pending", TRUE) /\ "pending" \in Statuses
        BY <1>1, <1>10 DEF AnswerAlert, Statuses
    <2>2. /\ RowsKeep(K)
          /\ \A j \in K : /\ rows'[j].status = "pending"
                          /\ rows'[j].attempts = rows[j].attempts
                          /\ rows'[j].maybe = 0
        BY <2>1, RowsPostponed DEF Types
    <2> HIDE DEF K
    <2>3. Ledger!LedgerNext
        BY <1>3, <1>4, <2>2, LedgerRefuses DEF Types
    <2> QED BY <1>3, <1>4, <1>5, <1>10, <2>2, <2>3 DEF Delivers
<1>11. CASE o = "retry" /\ ~(alertDisp[w].attempts < MAX_DELIVERY_ATTEMPTS)
    BY <1>1, <1>6, <1>11 DEF AnswerAlert
<1> QED BY <1>7, <1>8, <1>9, <1>10, <1>11 DEF AlertOutcomes

\* RetryDue only marks a pending alert as due.
LEMMA RetryDelivers ==
    ASSUME Types, DeliveryInv, NEW k \in DOMAIN rows, RetryDue(k),
           UNCHANGED <<disp, alertDisp>>
    PROVE  Delivers
<1>1. rows[k] \in MessageSet /\ rows \in [DOMAIN rows -> MessageSet]
    BY DEF Types, RowTypes, MessageSet
<1>2. PICK q : q = [rows[k] EXCEPT !.waiting = FALSE]
    OBVIOUS
<1>3. q \in MessageSet /\ SameMessage(q, rows[k]) /\ Progress(q, rows[k])
    BY <1>1, <1>2, RowDue DEF Progress
<1>4. rows' = [rows EXCEPT ![k] = q]
    BY <1>1, <1>2 DEF RetryDue
<1>5. RowsKeep({k}) /\ rows'[k] = q
    BY <1>3, <1>4, RowReplaced DEF Types
<1>6. RowsKeep({})
    BY <1>3, <1>5 DEF RowsKeep
<1>7. Ledger!LedgerNext
    BY <1>6, LedgerGivesUp DEF Types
<1>8. RowTypes' /\ DeliveryInv'
    BY <1>6, DeliveryQuiet DEF Types
<1> QED BY <1>6, <1>7, <1>8 DEF Delivers

=============================================================================
