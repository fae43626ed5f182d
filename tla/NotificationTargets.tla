------------------------- MODULE NotificationTargets -------------------------
(***************************************************************************)
(* Notification targets and the workspace transports they go through:      *)
(* services/notification_targets.py, notification_email_transport.py,      *)
(* workspace_telegram_transport.py and their tables in service_store.py.   *)
(*                                                                         *)
(* A target is one destination (a mailbox, a webhook, a Telegram chat).    *)
(* Destinations and transport credentials live in the SecretStore file; a  *)
(* row only keeps the digest of the value it was saved with, so that a     *)
(* value replaced behind the row's back is never used.  A digest is        *)
(* represented by the value itself.                                        *)
(*                                                                         *)
(* The API's event loop runs one settings operation at a time, each in one *)
(* SQLite transaction; tests run in the thread pool and hold no            *)
(* transaction while they talk to the network, so that any number of       *)
(* operations may commit between a test's start and its result.            *)
(*                                                                         *)
(* `clock' is the wall clock, one instant per operation that stores a      *)
(* time; a store's microsecond timestamps never coincide here.             *)
(***************************************************************************)
EXTENDS Naturals, FiniteSets

CONSTANTS
    Targets,    \* notification target ids
    Dests,      \* destination values
    Tokens,     \* transport credentials
    Testers,    \* API threads that run a test
    MaxClock,   \* bound on the instants of a behaviour
    None

\* A test that was not made has no answer.
ASSUME NoneAssumption == None # "sent"

VARIABLES
    target,     \* notification_targets rows
    transport,  \* workspace_email_transports, workspace_telegram_transports
    secret,     \* the SecretStore file: a value per target and per transport
    tests,      \* the tests in flight
    rows,       \* the delivery rows of every outbox, by their unique key
    clock,
    proven      \* history: the destinations and credentials that answered a test

targetVars == <<target, transport, secret, tests, proven>>

Channels == {"email", "telegram", "webhook"}
TransportChannels == {"email", "telegram"}

NoTransport ==
    [exists |-> FALSE, enabled |-> FALSE, gen |-> 0, digest |-> None,
     test |-> None, testGen |-> 0]

NewTarget(c, d) ==
    [state |-> "live", channel |-> c, enabled |-> FALSE, enabledAt |-> None,
     cfg |-> 1, act |-> 1, digest |-> d, test |-> None, testCfg |-> 0]

NoTarget(c) == [NewTarget(c, None) EXCEPT !.state = "absent"]

NoTest == [pc |-> "idle"]

Now == clock + 1
Tick == clock < MaxClock /\ clock' = clock + 1

-----------------------------------------------------------------------------
(* Readiness.                                                              *)

\* _bound_credential, _bound_token, _destination: the stored value, if it is
\* the one the row was saved with.
Bound(id, digest) == digest # None /\ secret[id] = digest

\* _is_verified and _can_enable.
Verified(c) ==
    /\ transport[c].exists
    /\ Bound(c, transport[c].digest)
    /\ transport[c].test = "sent"
    /\ transport[c].testGen = transport[c].gen

\* is_ready: Telegram has a switch of its own, email has not.
TransportReady(c) ==
    \/ c = "webhook"
    \/ c = "email" /\ Verified(c)
    \/ c = "telegram" /\ transport[c].enabled /\ Verified(c)

TransportConfigured(c) ==
    c \in TransportChannels => transport[c].exists /\ Bound(c, transport[c].digest)

\* target_is_available, on a target row that may have been read earlier.
TargetAvailable(t, row) ==
    /\ row.state = "live"
    /\ row.enabled
    /\ row.enabledAt # None
    /\ Bound(t, row.digest)
    /\ row.test = "sent"
    /\ row.testCfg = row.cfg
    /\ TransportReady(row.channel)

-----------------------------------------------------------------------------
(* What the operations do to the delivery rows.                            *)

\* Fault: a status no reader of the outbox knows.
FailRowsUnknown(ks) ==
    [k \in DOMAIN rows |->
        IF k \in ks /\ rows[k].status = "pending"
        THEN [rows[k] EXCEPT !.status = "cancelled"] ELSE rows[k]]

FailRows(ks) ==
    [k \in DOMAIN rows |->
        IF k \in ks /\ rows[k].status = "pending"
        THEN [rows[k] EXCEPT !.status = "failed"] ELSE rows[k]]

\* fail_pending_notification_target_deliveries
TargetRows(t, kinds) ==
    {k \in DOMAIN rows : rows[k].target = t /\ rows[k].kind \in kinds}

\* invalidate_pending_email_deliveries, invalidate_notification_channel_deliveries
ChannelRows(c) == {k \in DOMAIN rows : target[rows[k].target].channel = c}

Kinds == {"item", "alert"}

\* The result of a delivery is stored if the row is still being sent.
SetStatus(ks, st) ==
    [k \in DOMAIN rows |->
        IF k \in ks /\ rows[k].status = "sending"
        THEN [rows[k] EXCEPT !.status = st] ELSE rows[k]]

\* The receiver refused: the message was certainly not accepted.
Refused(ks, st, waiting) ==
    [k \in DOMAIN rows |->
        IF k \in ks /\ rows[k].status = "sending"
        THEN [rows[k] EXCEPT !.status = st, !.maybe = 0, !.waiting = waiting]
        ELSE rows[k]]

\* advance_notification_channel_watermarks: the targets of a channel that is
\* usable again only send what is published from now on.
Advanced(c) ==
    [t \in Targets |->
        IF target[t].state = "live" /\ target[t].enabled /\ target[t].channel = c
        THEN [target[t] EXCEPT !.enabledAt = Now, !.act = @ + 1]
        ELSE target[t]]

-----------------------------------------------------------------------------
(* Workspace transports.                                                   *)

\* A change of the Bot Token: saved switched off and untested.  Clearing it
\* is the change to None.
SetTelegramToken(v) ==
    /\ Tick
    /\ secret' = [secret EXCEPT !["telegram"] = v]
    /\ transport' = [transport EXCEPT !["telegram"] =
                        [NoTransport EXCEPT !.exists = TRUE, !.digest = v,
                                            !.gen = transport["telegram"].gen + 1]]
    /\ rows' = FailRows(ChannelRows("telegram"))
    /\ UNCHANGED <<target, tests, proven>>

\* Fault: the targets keep their watermarks.
SwitchTelegramOnly(on) ==
    LET tr == transport["telegram"] IN
    /\ tr.exists /\ tr.enabled # on
    /\ on => Verified("telegram")
    /\ Tick
    /\ transport' = [transport EXCEPT !["telegram"].enabled = on]
    /\ rows' = FailRows(ChannelRows("telegram"))
    /\ UNCHANGED <<target, secret, tests, proven>>

\* Switching the Telegram transport on needs a successful test of the current
\* generation; a transport that becomes ready moves the watermarks.
SwitchTelegram(on) ==
    LET tr == transport["telegram"] IN
    /\ tr.exists /\ tr.enabled # on
    /\ on => Verified("telegram")
    /\ Tick
    /\ transport' = [transport EXCEPT !["telegram"].enabled = on]
    /\ rows' = FailRows(ChannelRows("telegram"))
    /\ target' = IF on THEN Advanced("telegram") ELSE target
    /\ UNCHANGED <<secret, tests, proven>>

\* A change of the mail account or its credential.  A change of the account
\* without a credential clears the one it had.
SetEmailCredential(v) ==
    /\ Tick
    /\ secret' = [secret EXCEPT !["email"] = v]
    /\ transport' = [transport EXCEPT !["email"] =
                        [NoTransport EXCEPT !.exists = TRUE, !.digest = v,
                                            !.gen = transport["email"].gen + 1]]
    /\ rows' = FailRows(ChannelRows("email"))
    /\ UNCHANGED <<target, tests, proven>>

\* The sender's display name: a new generation that keeps the credential, if
\* it is still bound.
RenameEmailSender ==
    LET tr == transport["email"] IN
    /\ tr.exists
    /\ Tick
    /\ transport' = [transport EXCEPT !["email"] =
                        [NoTransport EXCEPT !.exists = TRUE, !.gen = tr.gen + 1,
                            !.digest = IF Bound("email", tr.digest)
                                       THEN tr.digest ELSE None]]
    /\ rows' = FailRows(ChannelRows("email"))
    /\ UNCHANGED <<target, secret, tests, proven>>

\* Deleting a transport deletes its row, and with it its generation.
DeleteTransport(c) ==
    /\ transport[c].exists
    /\ Tick
    /\ secret' = [secret EXCEPT ![c] = None]
    /\ transport' = [transport EXCEPT ![c] = NoTransport]
    /\ rows' = FailRows(ChannelRows(c))
    /\ UNCHANGED <<target, tests, proven>>

\* The API dies after the SecretStore file was replaced and before the
\* transaction committed: nobody restores the old value.
SecretWriteCrash(id, v) ==
    /\ IF id \in TransportChannels
       THEN v \in Tokens \cup {None}
       ELSE v \in Dests /\ target[id].state = "live"
    /\ secret[id] # v
    /\ Tick
    /\ secret' = [secret EXCEPT ![id] = v]
    /\ UNCHANGED <<target, transport, tests, rows, proven>>

-----------------------------------------------------------------------------
(* Targets.                                                                *)

CreateTarget(t, d) ==
    /\ target[t].state = "absent"
    /\ Tick
    /\ target' = [target EXCEPT ![t] = NewTarget(@.channel, d)]
    /\ secret' = [secret EXCEPT ![t] = d]
    /\ UNCHANGED <<transport, tests, rows, proven>>

\* update with a configuration field: off, untested, a new generation of both
\* kinds, pending deliveries failed.  A request that also asks for the target
\* to be enabled is refused and its secrets restored: it changes nothing.
ConfigureTarget(t, d) ==
    /\ target[t].state = "live"
    /\ Tick
    /\ secret' = [secret EXCEPT ![t] = d]
    /\ target' = [target EXCEPT ![t] =
                    [NewTarget(@.channel, d) EXCEPT !.cfg = target[t].cfg + 1,
                                                    !.act = target[t].act + 1]]
    /\ rows' = FailRows(TargetRows(t, Kinds))
    /\ UNCHANGED <<transport, tests, proven>>

\* update of the switch: on only if the current configuration passed a test.
SwitchTarget(t, on) ==
    LET row == target[t] IN
    /\ row.state = "live" /\ row.enabled # on
    /\ on => row.test = "sent" /\ row.testCfg = row.cfg /\ TransportReady(row.channel)
    /\ Tick
    /\ target' = [target EXCEPT ![t].enabled = on,
                                ![t].enabledAt = IF on THEN Now ELSE None,
                                ![t].act = @ + 1]
    /\ rows' = FailRows(TargetRows(t, Kinds))
    /\ UNCHANGED <<transport, secret, tests, proven>>

\* archive: refused while a binding is enabled or a delivery is under way.
ArchiveTarget(t, bound) ==
    /\ target[t].state = "live"
    /\ ~bound
    /\ \A k \in TargetRows(t, Kinds) : rows[k].status \notin {"pending", "sending"}
    /\ Tick
    /\ secret' = [secret EXCEPT ![t] = None]
    /\ target' = [target EXCEPT ![t].state = "archived", ![t].enabled = FALSE,
                                ![t].enabledAt = None, ![t].digest = None,
                                ![t].act = @ + 1]
    /\ UNCHANGED <<transport, tests, rows, proven>>

-----------------------------------------------------------------------------
(* Tests.  A test keeps the rows it read: the target's configuration       *)
(* generation and digest, the transport's generation and digest.           *)

Test(pc, kind, id, c, answer) ==
    [pc |-> pc, kind |-> kind, id |-> id, channel |-> c, answer |-> answer,
     cfg |-> IF id \in Targets THEN target[id].cfg ELSE 0,
     digest |-> IF id \in Targets THEN target[id].digest ELSE None,
     gen |-> IF c \in TransportChannels THEN transport[c].gen ELSE 0,
     token |-> IF c \in TransportChannels THEN transport[c].digest ELSE None]

\* claim_workspace_*_transport_test_attempt
BeginTransportTest(p, c) ==
    /\ tests[p].pc = "idle"
    /\ transport[c].exists
    /\ tests' = [tests EXCEPT ![p] = Test("begun", "transport", c, c, None)]
    /\ UNCHANGED <<target, transport, secret, rows, clock, proven>>

\* NotificationTargetService.send_test
BeginTargetTest(p, t) ==
    /\ tests[p].pc = "idle"
    /\ target[t].state = "live"
    /\ Bound(t, target[t].digest)
    /\ TransportReady(target[t].channel)
    /\ tests' = [tests EXCEPT ![p] = Test("begun", "target", t, target[t].channel, None)]
    /\ UNCHANGED <<target, transport, secret, rows, clock, proven>>

\* send_test_and_enable
BeginServiceTest(p, t) ==
    /\ tests[p].pc = "idle"
    /\ target[t].state = "live"
    /\ Bound(t, target[t].digest)
    /\ TransportConfigured(target[t].channel)
    /\ tests' = [tests EXCEPT ![p] = Test("begun", "service", t, target[t].channel, None)]
    /\ UNCHANGED <<target, transport, secret, rows, clock, proven>>

\* The row of the transport a test sends through: a transport test uses the
\* one it claimed, the others read it again.
SendRow(p) ==
    LET x == tests[p] IN
    IF x.kind = "transport" \/ x.channel = "webhook"
    THEN x
    ELSE [x EXCEPT !.gen = transport[x.channel].gen,
                   !.token = transport[x.channel].digest]

\* Whether the test can be sent at all: the destination and the credential
\* must still be the ones of the rows in hand.
Sendable(x) ==
    /\ x.kind # "transport" => Bound(x.id, x.digest)
    /\ x.channel \in TransportChannels => Bound(x.channel, x.token)
    /\ x.kind = "target" => TransportReady(x.channel)

\* The network call: answered, refused, or with an outcome nobody knows.
SendTest(p, answer) ==
    LET x == SendRow(p) IN
    /\ tests[p].pc = "begun"
    /\ answer = "sent" => Sendable(x)
    /\ answer = "unknown" => x.kind # "transport"
    /\ tests' = [tests EXCEPT ![p] = [x EXCEPT !.pc = "answered", !.answer = answer]]
    /\ proven' = IF answer = "sent"
                 THEN proven \cup ({<<x.id, x.digest>>, <<x.channel, x.token>>}
                                    \ {<<x.id, None>>, <<x.channel, None>>})
                 ELSE proven
    /\ UNCHANGED <<target, transport, secret, rows, clock>>

\* record_workspace_telegram_transport_test: the result counts for the
\* generation that was tested.
RecordTelegramTest(p) ==
    LET x == tests[p] IN
    /\ x.pc = "answered" /\ x.kind = "transport" /\ x.channel = "telegram"
    /\ transport' = IF transport["telegram"].exists
                       /\ transport["telegram"].gen = x.gen
                    THEN [transport EXCEPT !["telegram"].test = x.answer,
                                           !["telegram"].testGen = x.gen]
                    ELSE transport
    /\ tests' = [tests EXCEPT ![p] = NoTest]
    /\ UNCHANGED <<target, secret, rows, clock, proven>>

\* record_email_transport_test: a first success moves the watermarks, a
\* failure fails what is pending.
RecordEmailTest(p) ==
    LET x == tests[p]
        tr == transport["email"]
        current == tr.exists /\ tr.gen = x.gen
        verified == tr.test = "sent" /\ tr.testGen = x.gen
    IN
    /\ x.pc = "answered" /\ x.kind = "transport" /\ x.channel = "email"
    /\ Tick
    /\ transport' = IF current
                    THEN [transport EXCEPT !["email"].test = x.answer,
                                           !["email"].testGen = x.gen,
                                           !["email"].enabled = (x.answer = "sent")]
                    ELSE transport
    /\ target' = IF current /\ x.answer = "sent" /\ ~verified
                 THEN Advanced("email") ELSE target
    /\ rows' = IF current /\ x.answer = "failed"
               THEN FailRows(ChannelRows("email")) ELSE rows
    /\ tests' = [tests EXCEPT ![p] = NoTest]
    /\ UNCHANGED <<secret, proven>>

\* Fault: the result counts for whatever is saved now.
RecordedAnyway(x) ==
    IF target[x.id].state = "live"
    THEN [target EXCEPT ![x.id].test = x.answer, ![x.id].testCfg = target[x.id].cfg]
    ELSE target

\* _record_test: the result of a test of this configuration generation.
Recorded(x) ==
    IF target[x.id].state = "live" /\ target[x.id].cfg = x.cfg
    THEN [target EXCEPT ![x.id].test = x.answer, ![x.id].testCfg = x.cfg]
    ELSE target

RecordTargetTest(p) ==
    LET x == tests[p] IN
    /\ x.pc = "answered"
    /\ \/ x.kind = "target"
       \/ x.kind = "service" /\ x.answer # "sent"
    /\ target' = Recorded(x)
    /\ tests' = [tests EXCEPT ![p] = NoTest]
    /\ UNCHANGED <<transport, secret, rows, clock, proven>>

\* activate_notification_service_after_test: the target and the transport are
\* accepted together, if both are still of the tested generations; otherwise
\* the result is recorded as unknown.
Activate(p) ==
    LET x == tests[p]
        c == x.channel
        row == target[x.id]
        tr == transport[c]
        tested == tr.test = "sent" /\ tr.testGen = x.gen
        restored == IF c = "telegram" THEN ~(tr.enabled /\ tested) ELSE ~tested
        active == row.enabled /\ row.test = "sent" /\ row.testCfg = x.cfg
        current == /\ row.state = "live" /\ row.cfg = x.cfg
                   /\ c \in TransportChannels =>
                        tr.exists /\ tr.gen = x.gen /\ tr.digest # None
        base == IF c \in TransportChannels /\ restored THEN Advanced(c) ELSE target
    IN
    /\ x.pc = "answered" /\ x.kind = "service" /\ x.answer = "sent"
    /\ Tick
    /\ IF current
       THEN /\ transport' = IF c \in TransportChannels
                            THEN [transport EXCEPT ![c].enabled = TRUE,
                                      ![c].test = "sent", ![c].testGen = x.gen]
                            ELSE transport
            /\ target' = [base EXCEPT ![x.id].enabled = TRUE,
                            ![x.id].enabledAt = IF active THEN @ ELSE Now,
                            ![x.id].act = IF active THEN @ ELSE @ + 1,
                            ![x.id].test = "sent",
                            ![x.id].testCfg = x.cfg]
       ELSE /\ target' = Recorded([x EXCEPT !.answer = "unknown"])
            /\ UNCHANGED transport
    /\ tests' = [tests EXCEPT ![p] = NoTest]
    /\ UNCHANGED <<secret, rows, proven>>

\* The API dies: its tests leave no result.
LoseTest(p) ==
    /\ tests[p].pc # "idle"
    /\ tests' = [tests EXCEPT ![p] = NoTest]
    /\ UNCHANGED <<target, transport, secret, rows, clock, proven>>

-----------------------------------------------------------------------------
(* Every target is in use through one channel, or is still to be created.  *)

SetUpTransport(v) ==
    [NoTransport EXCEPT !.exists = TRUE, !.enabled = TRUE, !.gen = 1,
                        !.digest = v, !.test = "sent", !.testGen = 1]

SetUpTargets(c, d, v, new) ==
    /\ target = [t \in Targets |->
                    IF new THEN NoTarget(c)
                    ELSE [NewTarget(c, d) EXCEPT !.enabled = TRUE, !.enabledAt = 0,
                                                 !.test = "sent", !.testCfg = 1]]
    /\ transport = [x \in TransportChannels |->
                        IF x = c /\ ~new THEN SetUpTransport(v) ELSE NoTransport]
    /\ secret = [x \in Targets \cup TransportChannels |->
                    CASE new -> None
                      [] ~new /\ x \in Targets -> d
                      [] ~new /\ x \notin Targets -> IF x = c THEN v ELSE None]
    /\ proven = IF new THEN {}
                ELSE {<<t, d>> : t \in Targets} \cup {<<x, v>> : x \in {c} \cap TransportChannels}
    /\ tests = [p \in Testers |-> NoTest]
    /\ rows = << >>
    /\ clock = 0
=============================================================================
