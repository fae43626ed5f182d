---------------------------- MODULE Notifications ----------------------------
(***************************************************************************)
(* The notification system: the settings of targets and transports and     *)
(* their tests, the item notifications of one user and the operational     *)
(* alerts of the workspace, over the same targets and transports.          *)
(***************************************************************************)
EXTENDS PreferredNotifications, ActorAlerts

CONSTANTS
    StartChannels,  \* the channels the targets may have
    StartNew,       \* whether they are still to be created
    Scenes          \* bound: what may happen in one behaviour, "tests" or "alerts"

ASSUME ClockAssumption == MaxClock \in Nat

ASSUME ChannelAssumption == StartChannels \subseteq Channels

\* An outbox nobody dispatches is left out of the model: nothing is announced.
ASSUME OutboxAssumption ==
    /\ Workers = {} => Subs = {}
    /\ AlertWorkers = {} => Incidents = {}

VARIABLES
    scene,          \* one of Scenes
    paused          \* history: until when an outbox was switched off for a target

vars == <<targetVars, rows, clock, prefVars, alertVars, scene, paused>>

\* The outboxes somebody dispatches.
Outboxes ==
    (IF Workers = {} THEN {} ELSE {"item"}) \cup (IF AlertWorkers = {} THEN {} ELSE {"alert"})

Init ==
    \E c \in StartChannels, d \in Dests, v \in Tokens, new \in StartNew :
        /\ SetUpTargets(c, d, v, new)
        /\ SetUpPreferred(new)
        /\ SetUpAlerts(~new)
        /\ scene \in Scenes
        /\ paused = [kind \in Outboxes |-> [t \in Targets |-> 0]]

-----------------------------------------------------------------------------
Used == {target[t].channel : t \in Targets} \cap TransportChannels

TransportSettings ==
    \/ /\ "telegram" \in Used
       /\ \/ \E v \in Tokens \cup {None} : SetTelegramToken(v)
          \/ \E on \in BOOLEAN : SwitchTelegram(on)
    \/ /\ "email" \in Used
       /\ \/ \E v \in Tokens \cup {None} : SetEmailCredential(v)
          \/ RenameEmailSender
    \/ \E c \in Used : DeleteTransport(c)
    \/ \E id \in Targets \cup Used, v \in Dests \cup Tokens \cup {None} :
            SecretWriteCrash(id, v)

TargetSettings ==
    \E t \in Targets :
        \/ \E d \in Dests : CreateTarget(t, d) \/ ConfigureTarget(t, d)
        \/ \E on \in BOOLEAN : SwitchTarget(t, on)
        \/ ArchiveTarget(t, binding[t].enabled \/ alertBinding[t].enabled)

TestNext ==
    /\ "tests" \in scene
    /\ \E p \in Testers :
         \/ \E c \in Used : BeginTransportTest(p, c)
         \/ \E t \in Targets : BeginTargetTest(p, t) \/ BeginServiceTest(p, t)
         \/ \E answer \in {"sent", "failed", "unknown"} : SendTest(p, answer)
         \/ RecordTelegramTest(p) \/ RecordEmailTest(p)
         \/ RecordTargetTest(p) \/ Activate(p)
         \/ LoseTest(p)

PreferredSettings ==
    /\ "item" \in Outboxes
    /\ \/ \E on \in BOOLEAN : SetAccount(on)
       \/ DisableUser
       \/ \E S \in SUBSET Targets : SetBindings(S)
       \/ \E s \in Subs, on \in BOOLEAN : SetSubscription(s, on)

Dispatch(w) ==
    \/ ClaimBatch(w) \/ CheckAccount(w) \/ CheckTarget(w) \/ CheckRows(w)
    \/ Send(w)
    \/ \E o \in Outcomes : Answer(w, o)

DispatchAlerts(w) ==
    \/ ClaimAlert(w) \/ SendAlert(w)
    \/ \E o \in AlertOutcomes : AnswerAlert(w, o)

AlertNext ==
    \/ /\ "alerts" \in scene
       /\ \E on \in BOOLEAN, events \in {AlertEvents, {"opened"}}, S \in SUBSET Targets :
            SetAlerts(on, events, S)
    \/ \E n \in Incidents : OpenIncident(n) \/ ResolveIncident(n)
    \/ \E w \in AlertWorkers : DispatchAlerts(w) \/ CrashAlert(w)
    \/ \E k \in DOMAIN rows : RetryDue(k)

\* The switches of an outbox for a target.  A transport that is down counts,
\* in the way its settings bring it down.
TransportOff(c) ==
    \/ c = "telegram" /\ ~transport[c].enabled
    \/ c = "email" /\ ~(transport[c].test = "sent" /\ transport[c].testGen = transport[c].gen)

Off(kind, t) ==
    \/ kind = "item" /\ ~(account.enabled /\ binding[t].enabled)
    \/ kind = "alert" /\ ~(alertSet.enabled /\ alertBinding[t].enabled)
    \/ ~target[t].enabled
    \/ TransportOff(target[t].channel)

Observe ==
    paused' = [kind \in Outboxes |-> [t \in Targets |->
                    IF Off(kind, t) \/ Off(kind, t)' THEN clock' ELSE paused[kind][t]]]

Next ==
    /\ \/ (TransportSettings \/ TargetSettings \/ TestNext) /\ UNCHANGED <<prefVars, alertVars>>
       \/ /\ \/ PreferredSettings
             \/ \E S \in SUBSET Articles : PublishSnapshot(S)
             \/ \E w \in Workers : Dispatch(w) \/ Crash(w)
          /\ UNCHANGED alertVars
       \/ AlertNext /\ UNCHANGED prefVars
    /\ Observe
    /\ UNCHANGED scene

Spec == Init /\ [][Next]_vars

\* The worker's cycle dispatches the items; every network call has a
\* time limit, so that a send ends in one of the outcomes.
Fairness ==
    \A w \in Workers : WF_vars(Dispatch(w) /\ UNCHANGED <<alertVars, scene>> /\ Observe)

FairSpec == Spec /\ Fairness

-----------------------------------------------------------------------------
(* Properties.                                                             *)

\* Every variable has the values the tables and processes can hold.
NotificationsTypeOK ==
    /\ clock \in 0..MaxClock
    /\ \A t \in Targets :
        /\ target[t].state \in {"absent", "live", "archived"}
        /\ target[t].channel \in Channels
        /\ target[t].digest \in Dests \cup {None}
        /\ target[t].test \in {None, "sent", "failed", "unknown"}
    /\ \A c \in TransportChannels : transport[c].digest \in Tokens \cup {None}
    /\ \A k \in DOMAIN rows :
        rows[k].status \in {"pending", "sending", "succeeded", "failed"}
    /\ \A w \in Workers :
        /\ disp[w].pc \in {"idle", "account", "target", "rows", "send", "sent"}
        /\ disp[w].live \subseteq disp[w].batch
        /\ disp[w].batch \subseteq DOMAIN rows
    /\ \A w \in AlertWorkers : alertDisp[w].pc \in {"idle", "send", "sent"}

\* A message leaves for the destination its target had when it was announced,
\* whatever was saved, tested or switched between the claim and the send.
RightDestination ==
    /\ \A w \in Workers : disp[w].pc = "sent" =>
        \A k \in disp[w].live : rows[k].wanted = disp[w].digest
    /\ \A w \in AlertWorkers : alertDisp[w].pc = "sent" =>
        rows[alertDisp[w].key].wanted = alertDisp[w].digest

\* A notification the user withdrew while it was waiting (by switching off the
\* account or the subscription) is not sent, even if the switch is on again
\* when it is claimed.
WithdrawnNeverSent ==
    \A w \in Workers : disp[w].pc \in {"send", "sent"} => disp[w].live \cap withdrawn = {}

\* A target in use has a destination that answered a test, across tests whose
\* result arrives after the target was saved again.
TestedInUse ==
    \A t \in Targets : TargetAvailable(t, target[t]) => <<t, target[t].digest>> \in proven

\* Nothing is announced that was published before the outbox was last switched
\* on again for its target: what accumulates during a pause is never caught up.
NoBackfill ==
    [][\A k \in DOMAIN rows' \ DOMAIN rows :
            rows'[k].published > paused[rows'[k].kind][rows'[k].target]]_vars

\* The contract's transport generation: a transport counts as verified only if
\* its stored credential answered a test.
TransportTested ==
    \A c \in TransportChannels : Verified(c) => <<c, transport[c].digest>> \in proven

\* Both outboxes together are one ledger of messages.
MessageKeys == (Subs \X Articles \X Targets) \cup (AlertEvents \X Incidents \X Targets)

Entry(k) ==
    IF k \in DOMAIN rows
    THEN [status |-> rows[k].status, tries |-> rows[k].attempts, maybe |-> rows[k].maybe]
    ELSE [status |-> "none", tries |-> 0, maybe |-> 0]

Ledger == INSTANCE DeliveryLedger WITH
    Keys <- MessageKeys,
    MaxTries <- MAX_DELIVERY_ATTEMPTS,
    ledger <- [k \in MessageKeys |-> Entry(k)]

\* Item notifications and alerts are announced once, never sent a second time
\* unless the receiver refused them, and never more than three times.
ImplementsLedger == Ledger!LedgerSpec

\* A staged message is taken up by a dispatcher or failed, whatever crashes.
TakenUp == Ledger!TakenUp

-----------------------------------------------------------------------------
(* The inductive invariants behind them.                                   *)

Times == Nat \cup {None}
Digests == Dests \cup {None}
Answers == {None, "sent", "failed", "unknown"}
Statuses == {"pending", "sending", "succeeded", "failed"}
Switches == [enabled : BOOLEAN, enabledAt : Times, gen : Nat]

TargetSet ==
    [state : {"absent", "live", "archived"}, channel : Channels, enabled : BOOLEAN,
     enabledAt : Times, cfg : Nat \ {0}, act : Nat, digest : Digests,
     test : Answers, testCfg : Nat]

TransportSet ==
    [exists : BOOLEAN, enabled : BOOLEAN, gen : Nat, digest : Tokens \cup {None},
     test : Answers, testGen : Nat]

TestSet ==
    [pc : {"begun", "answered"}, kind : {"transport", "target", "service"},
     id : Targets \cup TransportChannels, channel : Channels, answer : Answers,
     cfg : Nat, digest : Digests, gen : Nat, token : Tokens \cup {None}]

ItemSet ==
    [kind : {"item"}, target : Targets, sub : Subs, status : Statuses,
     account : Nat, binding : Nat, subGen : Nat, cfg : Nat, act : Nat,
     at : Nat, published : Nat, attempts : Nat, maybe : Nat,
     waiting : BOOLEAN, wanted : Digests]

AlertSet ==
    [kind : {"alert"}, target : Targets, status : Statuses,
     account : Nat, binding : Nat, cfg : Nat, act : Nat,
     at : Nat, published : Nat, attempts : Nat, maybe : Nat,
     waiting : BOOLEAN, wanted : Digests]

\* Settings of targets and transports, and the tests under way.
TargetTypes ==
    /\ clock \in 0..MaxClock
    /\ target \in [Targets -> TargetSet]
    /\ transport \in [TransportChannels -> TransportSet]
    /\ tests \in [Testers -> {NoTest} \cup TestSet]

\* The switches of the two outboxes.
SwitchTypes ==
    /\ account \in Switches
    /\ binding \in [Targets -> Switches]
    /\ sub \in [Subs -> Switches]
    /\ feed \subseteq Articles
    /\ published \in [Articles -> Times]
    /\ alertSet \in [enabled : BOOLEAN, enabledAt : Times, gen : Nat,
                     events : SUBSET AlertEvents]
    /\ alertBinding \in [Targets -> Switches]

\* The rows, and the rows the dispatchers have in hand.
DispSet ==
    [pc : {"idle", "account", "target", "rows", "send", "sent"},
     batch : SUBSET DOMAIN rows, live : SUBSET DOMAIN rows,
     target : Targets \cup {None}, digest : Digests]

AlertDispSet ==
    [pc : {"idle", "send", "sent"}, key : DOMAIN rows \cup {None},
     digest : Digests, attempts : Nat]

RowTypes ==
    /\ DOMAIN rows \subseteq MessageKeys
    /\ rows \in [DOMAIN rows -> ItemSet \cup AlertSet]
    /\ disp \in [Workers -> DispSet]
    /\ alertDisp \in [AlertWorkers -> AlertDispSet]

\* What a dispatcher may still change.
Held(w) == IF disp[w].pc \in {"send", "sent"} THEN disp[w].live ELSE disp[w].batch

\* Claimed rows belong to one dispatcher, are in 'sending', and count the
\* transmission exactly while its answer is awaited.
DeliveryInv ==
    /\ \A k \in DOMAIN rows : rows[k].status = "pending" =>
        rows[k].maybe = 0 /\ rows[k].attempts < MAX_DELIVERY_ATTEMPTS
    /\ \A w \in Workers :
        /\ disp[w].live \subseteq disp[w].batch
        /\ disp[w].pc = "idle" => disp[w].batch = {}
        /\ disp[w].pc # "idle" => disp[w].target \in Targets
        /\ \A k \in Held(w) :
            /\ rows[k].kind = "item" /\ rows[k].target = disp[w].target
            /\ rows[k].status = "sending"
            /\ rows[k].maybe = IF disp[w].pc = "sent" THEN 1 ELSE 0
    /\ \A v, w \in Workers : v # w => Held(v) \cap Held(w) = {}
    /\ \A w \in AlertWorkers : alertDisp[w].pc # "idle" =>
        LET k == alertDisp[w].key IN
        /\ k \in DOMAIN rows /\ rows[k].kind = "alert"
        /\ rows[k].status = "sending"
        /\ rows[k].attempts = alertDisp[w].attempts
        /\ rows[k].maybe = IF alertDisp[w].pc = "sent" THEN 1 ELSE 0
    /\ \A v, w \in AlertWorkers :
        v # w /\ alertDisp[v].pc # "idle" /\ alertDisp[w].pc # "idle"
            => alertDisp[v].key # alertDisp[w].key

\* A result that counts for the current configuration of a target is one of
\* its current destination, already recorded or still to be.
TestedInv ==
    /\ \A t \in Targets :
        target[t].state = "live" /\ target[t].test = "sent" /\ target[t].testCfg = target[t].cfg
            => <<t, target[t].digest>> \in proven
    /\ \A p \in Testers : tests[p].pc # "idle" /\ tests[p].kind # "transport" =>
        LET x == tests[p] IN
        /\ x.id \in Targets /\ target[x.id].state # "absent"
        /\ x.cfg <= target[x.id].cfg
        /\ target[x.id].state = "live" /\ target[x.id].cfg = x.cfg
            => x.digest = target[x.id].digest
        /\ x.pc = "answered" /\ x.answer = "sent" => <<x.id, x.digest>> \in proven

\* A configuration generation of a target stands for one destination: the
\* rows and the dispatchers that carry the current one carry it.
AddressInv ==
    /\ \A k \in DOMAIN rows :
        LET row == target[rows[k].target] IN
        /\ row.state # "absent"
        /\ rows[k].cfg <= row.cfg
        /\ row.state = "live" /\ row.cfg = rows[k].cfg => rows[k].wanted = row.digest
    /\ \A w \in Workers : disp[w].pc \in {"rows", "send", "sent"} =>
        \A k \in disp[w].live : rows[k].wanted = disp[w].digest
    /\ \A w \in AlertWorkers : alertDisp[w].pc # "idle" =>
        rows[alertDisp[w].key].wanted = alertDisp[w].digest

\* The switch a row was announced under is off, or was thrown since.
AccountPast(k) == ~account.enabled \/ rows[k].account < account.gen
SubPast(k) == ~sub[rows[k].sub].enabled \/ rows[k].subGen < sub[rows[k].sub].gen

\* What was withdrawn is recognised by one of the generations the dispatcher
\* compares, and past its first check by the one it has yet to compare.
WithdrawnInv ==
    /\ \A k \in DOMAIN rows : rows[k].kind = "item" =>
        rows[k].account <= account.gen /\ rows[k].subGen <= sub[rows[k].sub].gen
    /\ \A k \in withdrawn :
        k \in DOMAIN rows /\ rows[k].kind = "item" /\ (AccountPast(k) \/ SubPast(k))
    /\ \A w \in Workers : disp[w].pc \in {"target", "rows"} =>
        \A k \in disp[w].live \cap withdrawn : SubPast(k)
    /\ WithdrawnNeverSent

\* The watermarks a message of an outbox is compared with.
Marks(kind, t) ==
    IF kind = "item" THEN {account.enabledAt, binding[t].enabledAt, target[t].enabledAt}
    ELSE {alertSet.enabledAt, alertBinding[t].enabledAt, target[t].enabledAt}

\* One of them is not older than the last pause.
PauseInv ==
    /\ \A t \in Targets : target[t].enabled => target[t].state = "live"
    /\ \A kind \in Outboxes, t \in Targets :
        /\ paused[kind][t] \in 0..clock
        /\ ~Off(kind, t) => \E m \in Marks(kind, t) : m \in Nat /\ paused[kind][t] <= m
=============================================================================
