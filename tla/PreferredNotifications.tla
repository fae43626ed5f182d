----------------------- MODULE PreferredNotifications -----------------------
(***************************************************************************)
(* Notifications of new items from preferred sources                       *)
(* (services/preferred_source_notifications.py): the account switch, the   *)
(* targets the user bound, the subscriptions that notify, the delivery     *)
(* rows staged in the transaction that publishes a feed snapshot, and the  *)
(* dispatchers that claim them, look again at everything they depend on    *)
(* and send them.                                                          *)
(*                                                                         *)
(* One user; every operation is the user's or an administrator's request.  *)
(* A delivery is claimed before it is checked and checked before it is     *)
(* sent, each in a transaction of its own; a check is three reads, of the  *)
(* account, of the target with its binding and transport, and of the       *)
(* subscriptions.                                                          *)
(***************************************************************************)
EXTENDS NotificationTargets

CONSTANTS
    Subs,       \* the user's subscriptions, one per source
    Articles,
    Workers     \* processes that dispatch

VARIABLES
    account,    \* user_notification_settings
    binding,    \* user_notification_target_bindings
    sub,        \* user_subscriptions, the notification columns
    feed,       \* the articles of the user's last snapshot
    published,  \* published_at of the articles seen so far
    disp,       \* the dispatchers
    withdrawn   \* history: rows whose owner withdrew while they were pending

prefVars == <<account, binding, sub, feed, published, disp, withdrawn>>

Switch(on, at, gen) == [enabled |-> on, enabledAt |-> at, gen |-> gen]
Unbound == Switch(FALSE, None, 0)

Idle == [pc |-> "idle", batch |-> {}, live |-> {}, target |-> None, digest |-> None]

SetUpPreferred(new) ==
    /\ account = Switch(TRUE, 0, 1)
    /\ binding = [t \in Targets |-> IF new THEN Unbound ELSE Switch(TRUE, 0, 1)]
    /\ sub = [s \in Subs |-> Switch(TRUE, 0, 1)]
    /\ feed = {}
    /\ published = [a \in Articles |-> None]
    /\ disp = [w \in Workers |-> Idle]
    /\ withdrawn = {}

-----------------------------------------------------------------------------
(* Settings.                                                               *)

PendingItems ==
    {k \in DOMAIN rows : rows[k].kind = "item" /\ rows[k].status = "pending"}

\* upsert_settings, the account switch.
SetAccount(on) ==
    /\ account.enabled # on
    /\ Tick
    /\ account' = Switch(on, IF on THEN Now ELSE None, account.gen + 1)
    /\ withdrawn' = IF on THEN withdrawn ELSE withdrawn \cup PendingItems
    /\ UNCHANGED <<targetVars, rows, binding, sub, feed, published, disp>>

\* An administrator disables the user: the switch is cleared, the generation
\* is not moved.  The user being enabled again leaves it off.
DisableUser ==
    /\ account.enabled
    /\ Tick
    /\ account' = Switch(FALSE, None, account.gen)
    /\ withdrawn' = withdrawn \cup PendingItems
    /\ UNCHANGED <<targetVars, rows, binding, sub, feed, published, disp>>

\* Fault: a binding selected again keeps its first watermark.
SetBindingsKeep(S) ==
    LET dropped == {t \in Targets \ S : binding[t].enabled}
        gone == {k \in DOMAIN rows : rows[k].kind = "item" /\ rows[k].target \in dropped}
    IN
    /\ \A t \in S : target[t].state = "live"
    /\ S # {t \in Targets : binding[t].enabled}
    /\ Tick
    /\ binding' = [t \in Targets |->
                    IF (t \in S) # binding[t].enabled
                    THEN [binding[t] EXCEPT !.enabled = (t \in S), !.gen = @ + 1]
                    ELSE binding[t]]
    /\ rows' = FailRows(gone)
    /\ UNCHANGED <<targetVars, account, sub, feed, published, disp, withdrawn>>

\* set_user_notification_target_bindings: the selection becomes S.
SetBindings(S) ==
    LET dropped == {t \in Targets \ S : binding[t].enabled}
        gone == {k \in DOMAIN rows : rows[k].kind = "item" /\ rows[k].target \in dropped}
    IN
    /\ \A t \in S : target[t].state = "live"
    /\ S # {t \in Targets : binding[t].enabled}
    /\ Tick
    /\ binding' = [t \in Targets |->
                    IF t \in S /\ ~binding[t].enabled
                    THEN Switch(TRUE, Now, binding[t].gen + 1)
                    ELSE IF t \in dropped
                    THEN [binding[t] EXCEPT !.enabled = FALSE, !.gen = @ + 1]
                    ELSE binding[t]]
    /\ rows' = FailRows(gone)
    /\ UNCHANGED <<targetVars, account, sub, feed, published, disp, withdrawn>>

\* update_subscription: switching notifications on is a new generation,
\* switching them off (also by disabling the subscription or its source, or
\* making it personal) only clears the watermark.
SetSubscription(s, on) ==
    /\ sub[s].enabled # on
    /\ Tick
    /\ sub' = [sub EXCEPT ![s] = IF on THEN Switch(TRUE, Now, @.gen + 1)
                                 ELSE Switch(FALSE, None, @.gen)]
    /\ withdrawn' = IF on THEN withdrawn
                    ELSE withdrawn \cup {k \in PendingItems : rows[k].sub = s}
    /\ UNCHANGED <<targetVars, rows, account, binding, feed, published, disp>>

-----------------------------------------------------------------------------
(* Staging, in the transaction that publishes snapshot S of the user.      *)

Watermark(at, w) == w # None /\ at > w

\* A delivery is staged for an article that the previous snapshot did not
\* have, published after every switch it depends on was thrown.
Stageable(s, a, t, pub) ==
    /\ account.enabled /\ Watermark(pub, account.enabledAt)
    /\ sub[s].enabled /\ Watermark(pub, sub[s].enabledAt)
    /\ binding[t].enabled /\ Watermark(pub, binding[t].enabledAt)
    /\ TargetAvailable(t, target[t]) /\ Watermark(pub, target[t].enabledAt)

Row(s, a, t, pub) ==
    [kind |-> "item", target |-> t, sub |-> s, status |-> "pending",
     account |-> account.gen, binding |-> binding[t].gen, subGen |-> sub[s].gen,
     cfg |-> target[t].cfg, act |-> target[t].act,
     at |-> Now, published |-> pub, attempts |-> 0, maybe |-> 0,
     waiting |-> FALSE, wanted |-> target[t].digest]

\* A first snapshot is the baseline: the model starts after it.  An article
\* is published at the instant of this snapshot or at the last one before it.
\* When the staging raises, its savepoint is undone and the snapshot stays.
PublishSnapshot(S) ==
    \E pubs \in [S \ feed -> {clock, Now}], staged \in BOOLEAN :
    LET pub(a) == IF published[a] = None THEN pubs[a] ELSE published[a]
        new == {k \in Subs \X (S \ feed) \X Targets :
                    staged /\ Stageable(k[1], k[2], k[3], pub(k[2]))} \ DOMAIN rows
    IN
    /\ S # feed
    /\ Tick
    /\ feed' = S
    /\ published' = [a \in Articles |-> IF a \in S \ feed THEN pub(a) ELSE published[a]]
    /\ rows' = [k \in DOMAIN rows \cup new |->
                    IF k \in DOMAIN rows THEN rows[k]
                    ELSE Row(k[1], k[2], k[3], pub(k[2]))]
    /\ UNCHANGED <<targetVars, account, binding, sub, disp, withdrawn>>

-----------------------------------------------------------------------------
(* Dispatch.                                                               *)

\* Fault: a row left in 'sending' is claimed again.
ClaimBatchStale(w) ==
    LET pending == {k \in DOMAIN rows : rows[k].kind = "item" /\ rows[k].status \in {"pending", "sending"}} IN
    /\ disp[w].pc = "idle"
    /\ \E k \in pending :
        /\ \A j \in pending : rows[k].at <= rows[j].at
        /\ LET batch == {j \in pending : rows[j].at = rows[k].at
                                         /\ rows[j].target = rows[k].target}
           IN /\ disp' = [disp EXCEPT ![w] = [Idle EXCEPT !.pc = "account",
                                !.batch = batch, !.target = rows[k].target]]
              /\ rows' = [j \in DOMAIN rows |->
                            IF j \in batch
                            THEN [rows[j] EXCEPT !.status = "sending", !.attempts = @ + 1]
                            ELSE rows[j]]
    /\ UNCHANGED <<targetVars, clock, account, binding, sub, feed, published, withdrawn>>

\* Fault: a claim waits for what is being sent.
ClaimBatchAlone(w) ==
    LET pending == PendingItems IN
    /\ disp[w].pc = "idle"
    /\ \A k \in DOMAIN rows : rows[k].status # "sending"
    /\ \E k \in pending :
        /\ \A j \in pending : rows[k].at <= rows[j].at
        /\ LET batch == {j \in pending : rows[j].at = rows[k].at
                                         /\ rows[j].target = rows[k].target}
           IN /\ disp' = [disp EXCEPT ![w] = [Idle EXCEPT !.pc = "account",
                                !.batch = batch, !.target = rows[k].target]]
              /\ rows' = [j \in DOMAIN rows |->
                            IF j \in batch
                            THEN [rows[j] EXCEPT !.status = "sending", !.attempts = @ + 1]
                            ELSE rows[j]]
    /\ UNCHANGED <<targetVars, clock, account, binding, sub, feed, published, withdrawn>>

\* _claim_pending_batch: the oldest pending row, with every pending row of the
\* same job for the same target.
ClaimBatch(w) ==
    LET pending == PendingItems IN
    /\ disp[w].pc = "idle"
    /\ \E k \in pending :
        /\ \A j \in pending : rows[k].at <= rows[j].at
        /\ LET batch == {j \in pending : rows[j].at = rows[k].at
                                         /\ rows[j].target = rows[k].target}
           IN /\ disp' = [disp EXCEPT ![w] = [Idle EXCEPT !.pc = "account",
                                !.batch = batch, !.target = rows[k].target]]
              /\ rows' = [j \in DOMAIN rows |->
                            IF j \in batch
                            THEN [rows[j] EXCEPT !.status = "sending", !.attempts = @ + 1]
                            ELSE rows[j]]
    /\ UNCHANGED <<targetVars, clock, account, binding, sub, feed, published, withdrawn>>

Newer(k, w) == Watermark(rows[k].published, w) /\ Watermark(rows[k].at, w)

Abandon(w) ==
    /\ rows' = SetStatus(disp[w].batch, "failed")
    /\ disp' = [disp EXCEPT ![w] = Idle]

\* Fault: only the switch is looked at.
CheckAccountSwitch(w) ==
    /\ disp[w].pc = "account"
    /\ IF account.enabled
       THEN /\ disp' = [disp EXCEPT ![w].pc = "target", ![w].live = disp[w].batch]
            /\ UNCHANGED rows
       ELSE Abandon(w)
    /\ UNCHANGED <<targetVars, clock, account, binding, sub, feed, published, withdrawn>>

\* The user and the account settings are read first.
CheckAccount(w) ==
    /\ disp[w].pc = "account"
    /\ IF account.enabled
       THEN /\ disp' = [disp EXCEPT ![w].pc = "target",
                  ![w].live = {k \in disp[w].batch :
                                rows[k].account = account.gen
                                /\ Newer(k, account.enabledAt)}]
            /\ UNCHANGED rows
       ELSE Abandon(w)
    /\ UNCHANGED <<targetVars, clock, account, binding, sub, feed, published, withdrawn>>

\* Then the target and its binding; the dispatcher keeps the target row.
CheckTarget(w) ==
    LET t == disp[w].target IN
    /\ disp[w].pc = "target"
    /\ IF binding[t].enabled /\ TargetAvailable(t, target[t])
       THEN /\ disp' = [disp EXCEPT ![w].pc = "rows", ![w].digest = target[t].digest,
                  ![w].live = {k \in @ :
                                /\ rows[k].cfg = target[t].cfg
                                /\ rows[k].act = target[t].act
                                /\ rows[k].binding = binding[t].gen
                                /\ Newer(k, target[t].enabledAt)
                                /\ Newer(k, binding[t].enabledAt)}]
            /\ UNCHANGED rows
       ELSE Abandon(w)
    /\ UNCHANGED <<targetVars, clock, account, binding, sub, feed, published, withdrawn>>

\* Then the subscription of every row; what failed a check is finished here.
CheckRows(w) ==
    LET live == {k \in disp[w].live :
                    /\ sub[rows[k].sub].enabled
                    /\ rows[k].subGen = sub[rows[k].sub].gen
                    /\ Newer(k, sub[rows[k].sub].enabledAt)}
    IN
    /\ disp[w].pc = "rows"
    /\ rows' = SetStatus(disp[w].batch \ live, "failed")
    /\ disp' = [disp EXCEPT ![w] = IF live = {} THEN Idle
                                   ELSE [@ EXCEPT !.pc = "send", !.live = live]]
    /\ UNCHANGED <<targetVars, clock, account, binding, sub, feed, published, withdrawn>>

\* Fault: the destination is whatever is stored now.
SendAnywhere(w) ==
    LET t == disp[w].target
        ks == disp[w].live
    IN
    /\ disp[w].pc = "send"
    /\ IF secret[t] # None /\ TransportReady(target[t].channel)
       THEN /\ disp' = [disp EXCEPT ![w].pc = "sent", ![w].digest = secret[t]]
            /\ rows' = [k \in DOMAIN rows |->
                        IF k \in ks THEN [rows[k] EXCEPT !.maybe = @ + 1] ELSE rows[k]]
       ELSE Abandon(w)
    /\ UNCHANGED <<targetVars, clock, account, binding, sub, feed, published, withdrawn>>

\* delivery_settings and _send_payload: the destination is the stored value,
\* if it is the one of the row in hand, and the transport must be ready.
Send(w) ==
    LET t == disp[w].target
        ks == disp[w].live
    IN
    /\ disp[w].pc = "send"
    /\ IF Bound(t, disp[w].digest) /\ TransportReady(target[t].channel)
       THEN /\ disp' = [disp EXCEPT ![w].pc = "sent"]
            /\ rows' = [k \in DOMAIN rows |->
                        IF k \in ks THEN [rows[k] EXCEPT !.maybe = @ + 1] ELSE rows[k]]
       ELSE /\ rows' = IF target[t].channel = "email" /\ Bound(t, disp[w].digest)
                       THEN rows                    \* reported as outcome unknown
                       ELSE SetStatus(ks, "failed")
            /\ disp' = [disp EXCEPT ![w] = Idle]
    /\ UNCHANGED <<targetVars, clock, account, binding, sub, feed, published, withdrawn>>

\* The answer: accepted, refused, or unknown, which leaves the rows in
\* 'sending' for good.
Answer(w, outcome) ==
    /\ disp[w].pc = "sent"
    /\ rows' = CASE outcome = "unknown" -> rows
                 [] outcome = "succeeded" -> SetStatus(disp[w].live, "succeeded")
                 [] outcome = "failed" -> Refused(disp[w].live, "failed", FALSE)
    /\ disp' = [disp EXCEPT ![w] = Idle]
    /\ UNCHANGED <<targetVars, clock, account, binding, sub, feed, published, withdrawn>>

Outcomes == {"succeeded", "failed", "unknown"}

\* The process dies with what it had claimed.
Crash(w) ==
    /\ disp[w].pc # "idle"
    /\ disp' = [disp EXCEPT ![w] = Idle]
    /\ UNCHANGED <<targetVars, rows, clock, account, binding, sub, feed, published, withdrawn>>
=============================================================================
