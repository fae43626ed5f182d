------------------------ MODULE NotificationTheorems ------------------------
(***************************************************************************)
(* The theorems about the notification system: the lemmas about settings,  *)
(* staging and dispatch are put together, one step of the system at a time.*)
(***************************************************************************)
EXTENDS NotificationProofs

-----------------------------------------------------------------------------
(* The switches of the two outboxes.                                       *)

\* A switch as it is thrown.
LEMMA SwitchRow ==
    ASSUME NEW at \in Times, NEW g \in Nat
    PROVE  /\ Switch(TRUE, at, g) \in Switches /\ Switch(FALSE, at, g) \in Switches
           /\ [enabled |-> TRUE, enabledAt |-> at, gen |-> g] \in Switches
BY DEF Switch, Switches

\* A binding that is dropped.
LEMMA SwitchDropped ==
    ASSUME NEW r \in Switches, NEW q, q = [r EXCEPT !.enabled = FALSE, !.gen = @ + 1]
    PROVE  q \in Switches /\ ~q.enabled
<1>1. PICK n : n = r.gen + 1
    OBVIOUS
<1>2. n \in Nat
    BY <1>1 DEF Switches
<1>3. q = [r EXCEPT !.enabled = FALSE, !.gen = n]
    BY <1>1
<1> QED BY <1>2, <1>3 DEF Switches

\* SetBindings keeps the types of the bindings.
LEMMA BindingsType ==
    ASSUME Types, NEW S, SetBindings(S)
    PROVE  binding' \in [Targets -> Switches]
<1>1. Now \in Times
    BY ClockAssumption DEF Types, TargetTypes, Now, Times
<1>2. \A t \in Targets : binding[t] \in Switches
    BY DEF Types, SwitchTypes
<1>3. \A t \in Targets : [binding[t] EXCEPT !.enabled = FALSE, !.gen = @ + 1] \in Switches
    BY <1>2, SwitchDropped, Zenon
<1>4. \A t \in Targets : binding[t].gen + 1 \in Nat
    BY <1>2 DEF Switches
<1>5. \A t \in Targets : Switch(TRUE, Now, binding[t].gen + 1) \in Switches
    BY <1>1, <1>4, SwitchRow, Zenon
<1> QED BY <1>2, <1>3, <1>5 DEF SetBindings

\* SetAlerts keeps the types of the alert settings.
LEMMA AlertSettingsType ==
    ASSUME Types, NEW on \in BOOLEAN, NEW events \in {AlertEvents, {"opened"}},
           NEW S, SetAlerts(on, events, S)
    PROVE  /\ alertSet' \in [enabled : BOOLEAN, enabledAt : Times, gen : Nat,
                             events : SUBSET AlertEvents]
           /\ alertBinding' \in [Targets -> Switches]
<1>1. Now \in Times /\ None \in Times /\ events \in SUBSET AlertEvents
    BY ClockAssumption DEF Types, TargetTypes, Now, Times, AlertEvents
<1>2. PICK at, g : /\ at = (IF ~on THEN None
                            ELSE IF alertSet.enabled THEN alertSet.enabledAt ELSE Now)
                   /\ g = (IF on # alertSet.enabled \/ events # alertSet.events
                           THEN alertSet.gen + 1 ELSE alertSet.gen)
    OBVIOUS
<1>3. at \in Times /\ g \in Nat
    BY <1>1, <1>2 DEF Types, SwitchTypes
<1>4. alertSet' = [enabled |-> on, events |-> events, enabledAt |-> at, gen |-> g]
    BY <1>2 DEF SetAlerts
<1>5. \A t \in Targets : alertBinding[t] \in Switches
    BY DEF Types, SwitchTypes
<1>6. \A t \in Targets : [alertBinding[t] EXCEPT !.enabled = FALSE, !.gen = @ + 1] \in Switches
    BY <1>5, SwitchDropped, Zenon
<1>7. \A t \in Targets : alertBinding[t].gen + 1 \in Nat
    BY <1>5 DEF Switches
<1>8. \A t \in Targets :
        [enabled |-> TRUE, enabledAt |-> Now, gen |-> alertBinding[t].gen + 1] \in Switches
    BY <1>1, <1>7, SwitchRow, Zenon
<1>9. alertBinding' \in [Targets -> Switches]
    BY <1>5, <1>6, <1>8 DEF SetAlerts
<1> QED BY <1>1, <1>3, <1>4, <1>9

\* Every step keeps the types of the switches.
LEMMA SwitchesNext ==
    ASSUME Types, [Next]_vars
    PROVE  SwitchTypes'
<1>1. Now \in Times /\ None \in Times
    BY ClockAssumption DEF Types, TargetTypes, Now, Times
<1>2. CASE UNCHANGED <<account, binding, sub, feed, published, alertSet, alertBinding>>
    BY <1>2 DEF Types, SwitchTypes
<1>3. ASSUME NEW on \in BOOLEAN, SetAccount(on) \/ DisableUser, UNCHANGED alertVars
      PROVE  SwitchTypes'
    <2>1. account.gen \in Nat /\ account.gen + 1 \in Nat
        BY DEF Types, SwitchTypes, Switches
    <2>2. PICK at \in Times, g \in Nat :
            account' = Switch(TRUE, at, g) \/ account' = Switch(FALSE, at, g)
        BY <1>1, <1>3, <2>1 DEF SetAccount, DisableUser
    <2>3. account' \in Switches
        BY <2>2, SwitchRow, Zenon
    <2> QED BY <1>3, <2>3 DEF SetAccount, DisableUser, alertVars, Types, SwitchTypes
<1>4. ASSUME NEW S, SetBindings(S), UNCHANGED alertVars
      PROVE  SwitchTypes'
    <2>1. binding' \in [Targets -> Switches]
        BY <1>4, BindingsType
    <2> QED BY <1>4, <2>1 DEF SetBindings, alertVars, Types, SwitchTypes
<1>5. ASSUME NEW s \in Subs, NEW on \in BOOLEAN, SetSubscription(s, on), UNCHANGED alertVars
      PROVE  SwitchTypes'
    <2>1. sub[s].gen \in Nat /\ sub[s].gen + 1 \in Nat
        BY DEF Types, SwitchTypes, Switches
    <2>2. /\ Switch(TRUE, Now, sub[s].gen + 1) \in Switches
          /\ Switch(FALSE, None, sub[s].gen) \in Switches
        BY <1>1, <2>1, SwitchRow, Zenon
    <2>3. sub' \in [Subs -> Switches]
        BY <1>5, <2>2 DEF SetSubscription, Types, SwitchTypes
    <2> QED BY <1>5, <2>3 DEF SetSubscription, alertVars, Types, SwitchTypes
<1>6. ASSUME NEW S \in SUBSET Articles, PublishSnapshot(S), UNCHANGED alertVars
      PROVE  SwitchTypes'
    <2>1. feed' \subseteq Articles /\ published' \in [Articles -> Times]
        BY <1>6, PublishStages
    <2>2. UNCHANGED <<account, binding, sub>>
        BY <1>6 DEF PublishSnapshot
    <2> QED BY <1>6, <2>1, <2>2 DEF alertVars, Types, SwitchTypes
<1>7. ASSUME NEW on \in BOOLEAN, NEW events \in {AlertEvents, {"opened"}},
             NEW S, SetAlerts(on, events, S), UNCHANGED prefVars
      PROVE  SwitchTypes'
    <2>1. /\ alertSet' \in [enabled : BOOLEAN, enabledAt : Times, gen : Nat,
                            events : SUBSET AlertEvents]
          /\ alertBinding' \in [Targets -> Switches]
        BY <1>7, AlertSettingsType
    <2> QED BY <1>7, <2>1 DEF prefVars, Types, SwitchTypes
<1>8. CASE /\ TransportSettings \/ TargetSettings \/ TestNext
           /\ UNCHANGED <<prefVars, alertVars>>
    BY <1>2, <1>8 DEF prefVars, alertVars
<1>9. CASE PreferredSettings /\ UNCHANGED alertVars
    BY <1>9, <1>3, <1>4, <1>5 DEF PreferredSettings
<1>10. ASSUME NEW w, Dispatch(w) \/ Crash(w), UNCHANGED alertVars
       PROVE  SwitchTypes'
    BY <1>2, <1>10 DEF Dispatch, ClaimBatch, CheckAccount, CheckTarget, CheckRows, Send,
                       Answer, Crash, alertVars
<1>11. CASE AlertNext /\ UNCHANGED prefVars
    <2>1. ASSUME NEW w, DispatchAlerts(w) \/ CrashAlert(w)
          PROVE  SwitchTypes'
        BY <1>2, <1>11, <2>1 DEF DispatchAlerts, ClaimAlert, SendAlert, AnswerAlert,
                                 CrashAlert, prefVars
    <2>2. ASSUME NEW n, OpenIncident(n) \/ ResolveIncident(n)
          PROVE  SwitchTypes'
        BY <1>2, <1>11, <2>2 DEF OpenIncident, ResolveIncident, prefVars
    <2>3. ASSUME NEW k, RetryDue(k)
          PROVE  SwitchTypes'
        BY <1>2, <1>11, <2>3 DEF RetryDue, prefVars, alertVars
    <2> QED BY <1>7, <1>11, <2>1, <2>2, <2>3 DEF AlertNext
<1>12. CASE UNCHANGED vars
    BY <1>2, <1>12 DEF vars, prefVars, alertVars
<1> QED BY <1>6, <1>8, <1>9, <1>10, <1>11, <1>12 DEF Next

-----------------------------------------------------------------------------
(* The rows, over every step.                                              *)

\* Rows nobody touches.
LEMMA SameDelivers ==
    ASSUME Types, DeliveryInv, UNCHANGED <<rows, disp, alertDisp>>
    PROVE  Delivers
<1>1. RowsKeep({})
    BY RowsSame DEF Types
<1>2. Ledger!LedgerNext
    BY <1>1, LedgerGivesUp DEF Types
<1>3. RowTypes' /\ DeliveryInv'
    BY <1>1, DeliveryQuiet DEF Types
<1> QED BY <1>1, <1>2, <1>3 DEF Delivers

\* A settings operation fails pending rows.
LEMMA FailDelivers ==
    ASSUME Types, DeliveryInv, NEW ks, rows' = FailRows(ks), UNCHANGED <<disp, alertDisp>>
    PROVE  Delivers
<1> DEFINE K == {k \in DOMAIN rows : k \in ks /\ rows[k].status = "pending"}
<1>1. /\ RowsKeep(K)
      /\ \A k \in K : /\ rows'[k].status = "failed"
                      /\ rows'[k].attempts = rows[k].attempts
                      /\ rows'[k].maybe = rows[k].maybe
    BY RowsFailed DEF Types
<1>2. \A k \in K : rows[k].status = "pending" /\ rows[k].maybe = 0
    BY DEF DeliveryInv
<1> HIDE DEF K
<1>3. Ledger!LedgerNext
    BY <1>1, <1>2, LedgerGivesUp DEF Types
<1>4. RowTypes' /\ DeliveryInv'
    BY <1>1, <1>2, DeliveryQuiet DEF Types
<1> QED BY <1>1, <1>3, <1>4 DEF Delivers

\* What every step owes: the rows are delivered on, or new ones announced.
Announces ==
    /\ Staged /\ UNCHANGED <<target, disp, alertDisp>>
    /\ \A k \in DOMAIN rows' \ DOMAIN rows : NewItem(rows'[k]) \/ NewAlert(rows'[k])

RowStep ==
    /\ RowTypes' /\ DeliveryInv' /\ Ledger!LedgerNext
    /\ (\E K : RowsKeep(K)) \/ Announces

\* Staging is such a step.
LEMMA StagingStep ==
    ASSUME Types, DeliveryInv, Announces
    PROVE  RowStep
<1>1. RowTypes' /\ DeliveryInv'
    BY DeliveryStaged DEF Types, Announces
<1>2. Ledger!LedgerNext
    BY LedgerAnnounces DEF Announces
<1> QED BY <1>1, <1>2 DEF RowStep

\* So are the steps of a dispatcher of items, and its crash.
LEMMA DispatchStep ==
    ASSUME Types, DeliveryInv, NEW w \in Workers, Dispatch(w) \/ Crash(w), alertDisp' = alertDisp
    PROVE  Delivers
<1>1. ASSUME NEW o \in Outcomes, Answer(w, o)
      PROVE  Delivers
    BY <1>1, AnswerDelivers
<1>2. CASE Crash(w)
    <2>1. rows' = rows /\ disp' = [disp EXCEPT ![w] = Idle]
        BY <1>2 DEF Crash
    <2> QED BY <2>1, StopDelivers
<1> QED BY <1>1, <1>2, ClaimDelivers, ChecksDeliver, SendDelivers DEF Dispatch

\* And those of a dispatcher of alerts.
LEMMA AlertDispatchStep ==
    ASSUME Types, DeliveryInv, NEW w \in AlertWorkers,
           DispatchAlerts(w) \/ CrashAlert(w), disp' = disp
    PROVE  Delivers
<1>1. ASSUME NEW o \in AlertOutcomes, AnswerAlert(w, o)
      PROVE  Delivers
    BY <1>1, AnswerAlertDelivers
<1>2. CASE CrashAlert(w)
    <2>1. rows' = rows /\ alertDisp' = [alertDisp EXCEPT ![w] = NotSending]
        BY <1>2 DEF CrashAlert
    <2> QED BY <2>1, StopAlertDelivers
<1> QED BY <1>1, <1>2, ClaimAlertDelivers, SendAlertDelivers DEF DispatchAlerts

\* An incident that opens or is resolved announces alerts.
LEMMA IncidentStep ==
    ASSUME Types, DeliveryInv, NEW n \in Incidents,
           OpenIncident(n) \/ ResolveIncident(n), disp' = disp
    PROVE  RowStep
<1>1. clock \in Nat /\ Now \in Nat
    BY ClockAssumption DEF Types, TargetTypes, Now
<1>2. PICK event \in AlertEvents, allowed \in SUBSET Targets, at \in Nat :
        rows' = StageAlerts(event, n, allowed, at)
    <2>1. CASE OpenIncident(n)
        BY <2>1, <1>1 DEF OpenIncident, AlertEvents
    <2>2. CASE ResolveIncident(n)
        <3>1. {t \in Targets : <<"opened", n, t>> \in DOMAIN rows} \in SUBSET Targets
            OBVIOUS
        <3> QED BY <2>2, <3>1, <1>1 DEF ResolveIncident, AlertEvents
    <2> QED BY <2>1, <2>2
<1>3. alertDisp' = alertDisp /\ target' = target
    BY DEF OpenIncident, ResolveIncident, targetVars
<1>4. Announces
    BY <1>2, <1>3, AlertsStaged DEF Announces
<1> QED BY <1>4, StagingStep

\* Every step of the system is one, or leaves the rows to the settings.
LEMMA RowsNext ==
    ASSUME Types, TestedInv, DeliveryInv, [Next]_vars
    PROVE  RowStep
<1>1. ASSUME Delivers PROVE RowStep
    BY <1>1 DEF Delivers, RowStep
<1>2. CASE /\ TransportSettings \/ TargetSettings \/ TestNext
           /\ UNCHANGED <<prefVars, alertVars>>
    <2>1. rows' = rows \/ \E ks : rows' = FailRows(ks)
        BY <1>2, SettingsNext DEF Types
    <2>2. UNCHANGED <<disp, alertDisp>>
        BY <1>2 DEF prefVars, alertVars
    <2> QED BY <1>1, <2>1, <2>2, SameDelivers, FailDelivers
<1>3. CASE PreferredSettings /\ UNCHANGED alertVars
    <2>1. rows' = rows \/ \E ks : rows' = FailRows(ks)
        BY <1>3 DEF PreferredSettings, SetAccount, DisableUser, SetBindings, SetSubscription
    <2>2. UNCHANGED <<disp, alertDisp>>
        BY <1>3 DEF PreferredSettings, SetAccount, DisableUser, SetBindings, SetSubscription,
                    alertVars
    <2> QED BY <1>1, <2>1, <2>2, SameDelivers, FailDelivers
<1>4. ASSUME NEW S \in SUBSET Articles, PublishSnapshot(S), UNCHANGED alertVars
      PROVE  RowStep
    <2>1. UNCHANGED <<target, disp, alertDisp>>
        BY <1>4 DEF PublishSnapshot, targetVars, alertVars
    <2>2. Announces
        BY <1>4, <2>1, PublishStages DEF Announces
    <2> QED BY <2>2, StagingStep
<1>5. ASSUME NEW w \in Workers, Dispatch(w) \/ Crash(w), UNCHANGED alertVars
      PROVE  RowStep
    BY <1>1, <1>5, DispatchStep DEF alertVars
<1>6. CASE AlertNext /\ UNCHANGED prefVars
    <2>1. disp' = disp
        BY <1>6 DEF prefVars
    <2>2. ASSUME NEW on, NEW events, NEW S, SetAlerts(on, events, S)
          PROVE  RowStep
        <3>1. (\E ks : rows' = FailRows(ks)) /\ alertDisp' = alertDisp
            BY <2>2 DEF SetAlerts
        <3> QED BY <1>1, <2>1, <3>1, FailDelivers
    <2>3. ASSUME NEW k \in DOMAIN rows, RetryDue(k)
          PROVE  RowStep
        <3>1. UNCHANGED <<disp, alertDisp>>
            BY <2>1, <2>3 DEF RetryDue, alertVars
        <3> QED BY <1>1, <2>3, <3>1, RetryDelivers
    <2>4. ASSUME NEW w \in AlertWorkers, DispatchAlerts(w) \/ CrashAlert(w)
          PROVE  RowStep
        BY <1>1, <2>1, <2>4, AlertDispatchStep
    <2> QED BY <1>6, <2>1, <2>2, <2>3, <2>4, IncidentStep DEF AlertNext
<1>7. CASE UNCHANGED vars
    BY <1>1, <1>7, SameDelivers DEF vars, prefVars, alertVars
<1> QED BY <1>2, <1>3, <1>4, <1>5, <1>6, <1>7 DEF Next

-----------------------------------------------------------------------------
(* The first theorems.                                                     *)

SystemInv == Types /\ TestedInv /\ DeliveryInv

\* The system starts with empty outboxes and idle dispatchers.
LEMMA SystemInit ==
    ASSUME Init
    PROVE  SystemInv /\ DOMAIN rows = {}
<1>1. TargetTypes /\ TestedInv
    BY TargetsInit
<1>2. PICK c, d, v, new : /\ new \in StartNew
                          /\ SetUpTargets(c, d, v, new)
                          /\ SetUpPreferred(new)
                          /\ SetUpAlerts(~new)
    BY DEF Init
<1>3. DOMAIN rows = {} /\ rows \in [DOMAIN rows -> ItemSet \cup AlertSet]
    BY <1>2 DEF SetUpTargets
<1>4. disp = [w \in Workers |-> Idle] /\ alertDisp = [w \in AlertWorkers |-> NotSending]
    BY <1>2 DEF SetUpPreferred, SetUpAlerts
<1>5. Idle \in DispSet /\ NotSending \in AlertDispSet
    BY DEF Idle, NotSending, DispSet, AlertDispSet, Digests
<1>6. RowTypes
    BY <1>3, <1>4, <1>5 DEF RowTypes
<1>7. /\ Idle.pc = "idle" /\ Idle.batch = {} /\ Idle.live = {} /\ NotSending.pc = "idle"
    BY DEF Idle, NotSending
<1>8. DeliveryInv
    BY <1>3, <1>4, <1>7 DEF DeliveryInv, Held
<1>9. 0 \in Times /\ None \in Times
    BY DEF Times
<1>10. /\ account \in Switches /\ binding \in [Targets -> Switches]
       /\ sub \in [Subs -> Switches]
    <2>1. Switch(TRUE, 0, 1) \in Switches /\ Unbound \in Switches
        BY <1>9 DEF Switch, Switches, Unbound
    <2> QED BY <1>2, <2>1 DEF SetUpPreferred
<1>11. feed \subseteq Articles /\ published \in [Articles -> Times]
    BY <1>2, <1>9 DEF SetUpPreferred
<1>12. /\ alertSet \in [enabled : BOOLEAN, enabledAt : Times, gen : Nat,
                        events : SUBSET AlertEvents]
       /\ alertBinding \in [Targets -> Switches]
    <2>1. CASE new
        <3>1. /\ alertSet = [enabled |-> FALSE, enabledAt |-> None, gen |-> 1,
                             events |-> AlertEvents]
              /\ alertBinding = [t \in Targets |->
                                    [enabled |-> FALSE, enabledAt |-> None, gen |-> 0]]
            BY <1>2, <2>1 DEF SetUpAlerts
        <3> QED BY <3>1, <1>9 DEF Switches
    <2>2. CASE ~new
        <3>1. /\ alertSet = [enabled |-> TRUE, enabledAt |-> 0, gen |-> 1,
                             events |-> AlertEvents]
              /\ alertBinding = [t \in Targets |->
                                    [enabled |-> TRUE, enabledAt |-> 0, gen |-> 1]]
            BY <1>2, <2>2 DEF SetUpAlerts
        <3> QED BY <3>1, <1>9 DEF Switches
    <2> QED BY <2>1, <2>2
<1>13. SwitchTypes
    BY <1>10, <1>11, <1>12 DEF SwitchTypes
<1> QED BY <1>1, <1>3, <1>6, <1>8, <1>13 DEF SystemInv, Types

\* Every step keeps them.
LEMMA SystemNext ==
    ASSUME SystemInv, [Next]_vars
    PROVE  SystemInv' /\ RowStep
BY TargetsNext, SwitchesNext, RowsNext DEF SystemInv, Types, RowStep

\* What a dispatcher has in hand is claimed, by it alone, and the settings,
\* tests, rows and dispatchers have their types.
THEOREM SystemInvariant == Spec => []SystemInv
<1>1. Init => SystemInv
    BY SystemInit
<1>2. SystemInv /\ [Next]_vars => SystemInv'
    BY SystemNext
<1> QED BY <1>1, <1>2, PTL DEF Spec

\* NotificationsTypeOK: tables and processes hold the values they can.
THEOREM NotificationTypes == Spec => []NotificationsTypeOK
<1>1. SystemInv => NotificationsTypeOK
    <2> SUFFICES ASSUME SystemInv PROVE NotificationsTypeOK
        OBVIOUS
    <2>1. /\ clock \in 0..MaxClock
          /\ \A t \in Targets : target[t] \in TargetSet
          /\ \A c \in TransportChannels : transport[c] \in TransportSet
        BY DEF SystemInv, Types, TargetTypes
    <2>2. \A k \in DOMAIN rows : rows[k].status \in Statuses
        BY DEF SystemInv, Types, RowTypes, ItemSet, AlertSet
    <2>3. /\ \A w \in Workers : disp[w] \in DispSet /\ disp[w].live \subseteq disp[w].batch
          /\ \A w \in AlertWorkers : alertDisp[w] \in AlertDispSet
        BY DEF SystemInv, Types, RowTypes, DeliveryInv
    <2>4. \A t \in Targets :
            /\ target[t].state \in {"absent", "live", "archived"}
            /\ target[t].channel \in Channels
            /\ target[t].digest \in Dests \cup {None}
            /\ target[t].test \in {None, "sent", "failed", "unknown"}
        BY <2>1 DEF TargetSet, Digests, Answers
    <2>5. \A c \in TransportChannels : transport[c].digest \in Tokens \cup {None}
        BY <2>1 DEF TransportSet
    <2>6. \A w \in Workers :
            /\ disp[w].pc \in {"idle", "account", "target", "rows", "send", "sent"}
            /\ disp[w].batch \subseteq DOMAIN rows
        BY <2>3 DEF DispSet
    <2>7. \A w \in AlertWorkers : alertDisp[w].pc \in {"idle", "send", "sent"}
        BY <2>3 DEF AlertDispSet
    <2> QED BY <2>1, <2>2, <2>3, <2>4, <2>5, <2>6, <2>7 DEF NotificationsTypeOK, Statuses
<1> QED BY <1>1, SystemInvariant, PTL

\* TestedInUse: a target is used only with a destination that answered a test,
\* although tests are recorded after any number of other operations.
THEOREM OnlyTestedInUse == Spec => []TestedInUse
<1>1. SystemInv => TestedInUse
    BY DEF SystemInv, TestedInv, TestedInUse, TargetAvailable
<1> QED BY <1>1, SystemInvariant, PTL

\* ImplementsLedger: both outboxes together announce a message once, hand it to
\* one sender at a time and transmit it again only after a refusal, at most
\* three times, whatever crashes and whatever settings change in between.
THEOREM OutboxesImplementLedger == Spec => ImplementsLedger
<1>1. Init => Ledger!LedgerInit
    <2> SUFFICES ASSUME Init PROVE Ledger!LedgerInit
        OBVIOUS
    <2>1. \A k \in MessageKeys : Entry(k) = [status |-> "none", tries |-> 0, maybe |-> 0]
        BY SystemInit DEF Entry
    <2> QED BY <2>1 DEF Ledger!LedgerInit, Ledger!Unknown
<1>2. SystemInv /\ [Next]_vars => Ledger!LedgerNext
    BY SystemNext DEF RowStep
<1> QED BY <1>1, <1>2, SystemInvariant, PTL DEF Spec, ImplementsLedger, Ledger!LedgerSpec

-----------------------------------------------------------------------------
(* The path of a dispatcher.                                               *)

\* What the dispatcher that ends in d found at its last check.
Moves(d, e) ==
    \/ d = e
    \/ d.pc \in {"idle", "account"}
    \/ /\ d.pc = "target" /\ e.pc = "account" /\ d.live \subseteq e.batch
       /\ account.enabled /\ \A k \in d.live : rows[k].account = account.gen
    \/ /\ d.pc = "rows" /\ e.pc = "target" /\ d.live \subseteq e.live /\ d.target = e.target
       /\ target[d.target].state = "live" /\ d.digest = target[d.target].digest
       /\ \A k \in d.live : rows[k].cfg = target[d.target].cfg
    \/ /\ d.pc = "send" /\ e.pc = "rows" /\ d.live \subseteq e.live /\ d.digest = e.digest
       /\ \A k \in d.live : sub[rows[k].sub].enabled /\ rows[k].subGen = sub[rows[k].sub].gen
    \/ d.pc = "sent" /\ e.pc = "send" /\ d.live = e.live /\ d.digest = e.digest

AlertMoves(d, e) ==
    \/ d = e
    \/ d.pc = "idle"
    \/ /\ d.pc = "send" /\ d.key \in DOMAIN rows
       /\ target[rows[d.key].target].state = "live"
       /\ rows[d.key].cfg = target[rows[d.key].target].cfg
       /\ d.digest = target[rows[d.key].target].digest
    \/ d.pc = "sent" /\ e.pc = "send" /\ d.key = e.key /\ d.digest = e.digest

AllMove ==
    /\ \A w \in Workers : Moves(disp'[w], disp[w])
    /\ \A w \in AlertWorkers : AlertMoves(alertDisp'[w], alertDisp[w])

\* One dispatcher of items moves.
LEMMA OneMoves ==
    ASSUME RowTypes, NEW w \in Workers, NEW d, disp' = [disp EXCEPT ![w] = d],
           Moves(d, disp[w]), alertDisp' = alertDisp
    PROVE  AllMove
<1>1. ASSUME NEW v \in Workers PROVE Moves(disp'[v], disp[v])
    <2>1. CASE v = w
        BY <2>1 DEF RowTypes
    <2>2. CASE v # w
        <3>1. disp'[v] = disp[v]
            BY <2>2 DEF RowTypes
        <3> QED BY <3>1 DEF Moves
    <2> QED BY <2>1, <2>2
<1>2. ASSUME NEW v \in AlertWorkers PROVE AlertMoves(alertDisp'[v], alertDisp[v])
    BY DEF AlertMoves
<1> QED BY <1>1, <1>2 DEF AllMove

\* One dispatcher of alerts moves.
LEMMA OneAlertMoves ==
    ASSUME RowTypes, NEW w \in AlertWorkers, NEW d, alertDisp' = [alertDisp EXCEPT ![w] = d],
           AlertMoves(d, alertDisp[w]), disp' = disp
    PROVE  AllMove
<1>1. ASSUME NEW v \in AlertWorkers PROVE AlertMoves(alertDisp'[v], alertDisp[v])
    <2>1. CASE v = w
        BY <2>1 DEF RowTypes
    <2>2. CASE v # w
        <3>1. alertDisp'[v] = alertDisp[v]
            BY <2>2 DEF RowTypes
        <3> QED BY <3>1 DEF AlertMoves
    <2> QED BY <2>1, <2>2
<1>2. ASSUME NEW v \in Workers PROVE Moves(disp'[v], disp[v])
    BY DEF Moves
<1> QED BY <1>1, <1>2 DEF AllMove

\* Nobody moves.
LEMMA NobodyMoves ==
    ASSUME UNCHANGED <<disp, alertDisp>>
    PROVE  AllMove
BY DEF AllMove, Moves, AlertMoves

\* The steps of a dispatcher of items.
LEMMA DispatchMoves ==
    ASSUME Types, DeliveryInv, NEW w \in Workers, Dispatch(w) \/ Crash(w), alertDisp' = alertDisp
    PROVE  AllMove
<1>1. ASSUME disp' = [disp EXCEPT ![w] = Idle] PROVE AllMove
    BY <1>1, OneMoves DEF Moves, Idle, Types
<1>2. CASE ClaimBatch(w)
    <2>1. PICK b, t : disp' = [disp EXCEPT ![w] =
                        [Idle EXCEPT !.pc = "account", !.batch = b, !.target = t]]
        BY <1>2 DEF ClaimBatch
    <2>2. PICK d : d = [Idle EXCEPT !.pc = "account", !.batch = b, !.target = t]
        OBVIOUS
    <2>3. d.pc = "account"
        BY <2>2 DEF Idle
    <2>4. Moves(d, disp[w])
        BY <2>3 DEF Moves
    <2>5. disp' = [disp EXCEPT ![w] = d]
        BY <2>1, <2>2, Zenon
    <2> QED BY <2>4, <2>5, OneMoves DEF Types
<1>3. CASE CheckAccount(w)
    <2>1. CASE Abandon(w)
        BY <1>1, <2>1 DEF Abandon
    <2>2. CASE ~Abandon(w)
        <3>1. disp[w].pc = "account"
            BY <1>3 DEF CheckAccount
        <3>2. PICK d \in DispSet :
                /\ account.enabled
                /\ disp' = [disp EXCEPT ![w] = d] /\ d.pc = "target"
                /\ d.batch = disp[w].batch /\ d.live \subseteq d.batch
                /\ \A k \in d.live : rows[k].account = account.gen
            BY <1>3, <2>2, CheckAccountEffect DEF Types
        <3>3. Moves(d, disp[w])
            BY <3>1, <3>2 DEF Moves
        <3> QED BY <3>2, <3>3, OneMoves DEF Types
    <2> QED BY <2>1, <2>2
<1>4. CASE CheckTarget(w)
    <2>1. CASE Abandon(w)
        BY <1>1, <2>1 DEF Abandon
    <2>2. CASE ~Abandon(w)
        <3>1. disp[w].pc = "target"
            BY <1>4 DEF CheckTarget
        <3>2. PICK d \in DispSet :
                /\ disp' = [disp EXCEPT ![w] = d] /\ d.pc = "rows"
                /\ d.target = disp[w].target /\ d.live \subseteq disp[w].live
                /\ target[d.target].state = "live" /\ d.digest = target[d.target].digest
                /\ \A k \in d.live : rows[k].cfg = target[d.target].cfg
            BY <1>4, <2>2, CheckTargetEffect
        <3>3. Moves(d, disp[w])
            BY <3>1, <3>2 DEF Moves
        <3> QED BY <3>2, <3>3, OneMoves DEF Types
    <2> QED BY <2>1, <2>2
<1>5. CASE CheckRows(w)
    <2>1. disp[w].pc = "rows"
        BY <1>5 DEF CheckRows
    <2>2. PICK L \in SUBSET disp[w].live :
            /\ \A k \in L : sub[rows[k].sub].enabled /\ rows[k].subGen = sub[rows[k].sub].gen
            /\ \/ disp' = [disp EXCEPT ![w] = Idle]
               \/ \E d \in DispSet :
                    /\ disp' = [disp EXCEPT ![w] = d] /\ d.pc = "send"
                    /\ d.digest = disp[w].digest /\ d.live = L
        BY <1>5, CheckRowsEffect DEF Types
    <2>3. ASSUME NEW d \in DispSet, disp' = [disp EXCEPT ![w] = d], d.pc = "send",
                 d.digest = disp[w].digest, d.live = L
          PROVE  AllMove
        <3>1. Moves(d, disp[w])
            BY <2>1, <2>2, <2>3 DEF Moves
        <3> QED BY <2>3, <3>1, OneMoves DEF Types
    <2> QED BY <1>1, <2>2, <2>3
<1>6. CASE Send(w)
    <2>1. disp[w].pc = "send"
        BY <1>6 DEF Send
    <2>2. \/ disp' = [disp EXCEPT ![w] = Idle]
          \/ \E d \in DispSet :
                /\ disp' = [disp EXCEPT ![w] = d] /\ d.pc = "sent"
                /\ d.digest = disp[w].digest /\ d.live = disp[w].live
        BY <1>6, SendEffect DEF Types
    <2>3. ASSUME NEW d \in DispSet, disp' = [disp EXCEPT ![w] = d], d.pc = "sent",
                 d.digest = disp[w].digest, d.live = disp[w].live
          PROVE  AllMove
        <3>1. Moves(d, disp[w])
            BY <2>1, <2>3 DEF Moves
        <3> QED BY <2>3, <3>1, OneMoves DEF Types
    <2> QED BY <1>1, <2>2, <2>3
<1>7. ASSUME NEW o, Answer(w, o) PROVE AllMove
    BY <1>1, <1>7 DEF Answer
<1>8. CASE Crash(w)
    BY <1>1, <1>8 DEF Crash
<1> QED BY <1>2, <1>3, <1>4, <1>5, <1>6, <1>7, <1>8 DEF Dispatch

\* The steps of a dispatcher of alerts.
LEMMA AlertDispatchMoves ==
    ASSUME Types, DeliveryInv, NEW w \in AlertWorkers,
           DispatchAlerts(w) \/ CrashAlert(w), disp' = disp
    PROVE  AllMove
<1>1. ASSUME alertDisp' = [alertDisp EXCEPT ![w] = NotSending] PROVE AllMove
    BY <1>1, OneAlertMoves DEF AlertMoves, NotSending, Types
<1>2. CASE ClaimAlert(w)
    <2> DEFINE Sends(k) ==
            /\ target[rows[k].target].state = "live"
            /\ rows[k].cfg = target[rows[k].target].cfg
            /\ \E d \in AlertDispSet :
                 /\ alertDisp' = [alertDisp EXCEPT ![w] = d]
                 /\ d.pc = "send" /\ d.key = k
                 /\ d.digest = target[rows[k].target].digest
    <2>1. PICK k \in PendingAlerts : alertDisp' = alertDisp \/ Sends(k)
        <3>1. PICK k \in PendingAlerts :
                \/ alertDisp' = alertDisp
                \/ /\ target[rows[k].target].state = "live"
                   /\ rows[k].cfg = target[rows[k].target].cfg
                   /\ \E d \in AlertDispSet :
                        /\ alertDisp' = [alertDisp EXCEPT ![w] = d]
                        /\ d.pc = "send" /\ d.key = k
                        /\ d.digest = target[rows[k].target].digest
                        /\ d.attempts = rows[k].attempts + 1
            BY <1>2, ClaimAlertEffect
        <3> QED BY <3>1
    <2>2. k \in DOMAIN rows
        BY DEF PendingAlerts
    <2>3. ASSUME target[rows[k].target].state = "live",
                 rows[k].cfg = target[rows[k].target].cfg,
                 NEW d \in AlertDispSet, alertDisp' = [alertDisp EXCEPT ![w] = d],
                 d.pc = "send", d.key = k, d.digest = target[rows[k].target].digest
          PROVE  AllMove
        <3>1. AlertMoves(d, alertDisp[w])
            BY <2>2, <2>3 DEF AlertMoves
        <3> QED BY <2>3, <3>1, OneAlertMoves DEF Types
    <2> QED BY <2>1, <2>3, NobodyMoves
<1>3. CASE SendAlert(w)
    <2>1. alertDisp[w].pc = "send"
        BY <1>3 DEF SendAlert
    <2>2. \/ alertDisp' = [alertDisp EXCEPT ![w] = NotSending]
          \/ \E d \in AlertDispSet :
                /\ alertDisp' = [alertDisp EXCEPT ![w] = d]
                /\ d.pc = "sent" /\ d.key = alertDisp[w].key
                /\ d.digest = alertDisp[w].digest
        BY <1>3, SendAlertEffect DEF Types
    <2>3. ASSUME NEW d \in AlertDispSet, alertDisp' = [alertDisp EXCEPT ![w] = d],
                 d.pc = "sent", d.key = alertDisp[w].key, d.digest = alertDisp[w].digest
          PROVE  AllMove
        <3>1. AlertMoves(d, alertDisp[w])
            BY <2>1, <2>3 DEF AlertMoves
        <3> QED BY <2>3, <3>1, OneAlertMoves DEF Types
    <2> QED BY <1>1, <2>2, <2>3
<1>4. ASSUME NEW o, AnswerAlert(w, o) PROVE AllMove
    BY <1>1, <1>4 DEF AnswerAlert
<1>5. CASE CrashAlert(w)
    BY <1>1, <1>5 DEF CrashAlert
<1> QED BY <1>2, <1>3, <1>4, <1>5 DEF DispatchAlerts

-----------------------------------------------------------------------------
(* Destinations and withdrawals.                                           *)

\* The switches whose being thrown withdraws what is pending.
Withdraws ==
    \/ \E on \in BOOLEAN : SetAccount(on)
    \/ DisableUser
    \/ \E s \in Subs, on \in BOOLEAN : SetSubscription(s, on)

\* Every step moves the dispatchers along their path; what they check for
\* withdrawal only changes while they stand still.
LEMMA StepKinds ==
    ASSUME SystemInv, [Next]_vars
    PROVE  AllMove /\ (UNCHANGED <<account, sub, withdrawn>> \/ Withdraws)
<1>1. Types /\ DeliveryInv
    BY DEF SystemInv
<1>2. CASE /\ TransportSettings \/ TargetSettings \/ TestNext
           /\ UNCHANGED <<prefVars, alertVars>>
    BY <1>2, NobodyMoves DEF prefVars, alertVars
<1>3. CASE PreferredSettings /\ UNCHANGED alertVars
    <2>1. UNCHANGED <<disp, alertDisp>>
        BY <1>3 DEF PreferredSettings, SetAccount, DisableUser, SetBindings, SetSubscription,
                    alertVars
    <2>2. UNCHANGED <<account, sub, withdrawn>> \/ Withdraws
        BY <1>3 DEF PreferredSettings, SetBindings, Withdraws
    <2> QED BY <2>1, <2>2, NobodyMoves
<1>4. ASSUME NEW S \in SUBSET Articles, PublishSnapshot(S), UNCHANGED alertVars
      PROVE  AllMove /\ UNCHANGED <<account, sub, withdrawn>>
    BY <1>4, NobodyMoves DEF PublishSnapshot, alertVars
<1>5. ASSUME NEW w \in Workers, Dispatch(w) \/ Crash(w), UNCHANGED alertVars
      PROVE  AllMove /\ UNCHANGED <<account, sub, withdrawn>>
    <2>1. AllMove
        BY <1>1, <1>5, DispatchMoves DEF alertVars
    <2>2. UNCHANGED <<account, sub, withdrawn>>
        BY <1>5 DEF Dispatch, ClaimBatch, CheckAccount, CheckTarget, CheckRows, Send,
                    Answer, Crash
    <2> QED BY <2>1, <2>2
<1>6. CASE AlertNext /\ UNCHANGED prefVars
    <2>1. disp' = disp /\ UNCHANGED <<account, sub, withdrawn>>
        BY <1>6 DEF prefVars
    <2>2. ASSUME NEW on, NEW events, NEW S, SetAlerts(on, events, S)
          PROVE  AllMove
        BY <2>1, <2>2, NobodyMoves DEF SetAlerts
    <2>3. ASSUME NEW k, RetryDue(k)
          PROVE  AllMove
        BY <2>1, <2>3, NobodyMoves DEF RetryDue, alertVars
    <2>4. ASSUME NEW w \in AlertWorkers, DispatchAlerts(w) \/ CrashAlert(w)
          PROVE  AllMove
        BY <1>1, <2>1, <2>4, AlertDispatchMoves
    <2>5. ASSUME NEW n, OpenIncident(n) \/ ResolveIncident(n)
          PROVE  AllMove
        BY <2>1, <2>5, NobodyMoves DEF OpenIncident, ResolveIncident
    <2> QED BY <1>6, <2>1, <2>2, <2>3, <2>4, <2>5 DEF AlertNext
<1>7. CASE UNCHANGED vars
    BY <1>7, NobodyMoves DEF vars, prefVars, alertVars
<1> QED BY <1>2, <1>3, <1>4, <1>5, <1>6, <1>7 DEF Next

\* Rows stay the messages they are; a row that appears was announced now.
LEMMA MessagesKept ==
    ASSUME RowStep
    PROVE  /\ \A k \in DOMAIN rows : k \in DOMAIN rows' /\ SameMessage(rows'[k], rows[k])
           /\ \A k \in DOMAIN rows' \ DOMAIN rows :
                Announces /\ (NewItem(rows'[k]) \/ NewAlert(rows'[k]))
<1>1. ASSUME NEW K, RowsKeep(K)
      PROVE  /\ \A k \in DOMAIN rows : k \in DOMAIN rows' /\ SameMessage(rows'[k], rows[k])
             /\ DOMAIN rows' \ DOMAIN rows = {}
    BY <1>1 DEF RowsKeep
<1>2. CASE Announces
    BY <1>2, SameSelf DEF Announces, Staged
<1> QED BY <1>1, <1>2 DEF RowStep

\* A new row carries the destination and generation of a target in use.
LEMMA NewRowTarget ==
    ASSUME NEW q, NewItem(q) \/ NewAlert(q)
    PROVE  /\ q.target \in Targets /\ target[q.target].state = "live"
           /\ q.cfg = target[q.target].cfg /\ q.wanted = target[q.target].digest
BY DEF NewItem, NewAlert, Stageable, AlertStageable, TargetAvailable

\* Every step keeps AddressInv.
LEMMA AddressNext ==
    ASSUME SystemInv, AddressInv, [Next]_vars
    PROVE  AddressInv'
<1>1. Types /\ DeliveryInv /\ TestedInv /\ SystemInv' /\ RowStep
    BY SystemNext DEF SystemInv
<1>2. TargetTypes /\ SettingEvolves
    BY <1>1, TargetsNext DEF Types
<1>3. AllMove
    BY StepKinds
<1>4. \A k \in DOMAIN rows : rows[k].target \in Targets /\ rows[k].cfg \in Nat
    BY <1>1 DEF Types, RowTypes, ItemSet, AlertSet
<1>5. \A t \in Targets : target[t].cfg \in Nat /\ target'[t].cfg \in Nat
    BY <1>1 DEF SystemInv, Types, TargetTypes, TargetSet
<1>6. ASSUME NEW k \in DOMAIN rows'
      PROVE  LET row == target'[rows'[k].target] IN
             /\ row.state # "absent"
             /\ rows'[k].cfg <= row.cfg
             /\ row.state = "live" /\ row.cfg = rows'[k].cfg => rows'[k].wanted = row.digest
    <2>1. CASE k \in DOMAIN rows
        <3>1. /\ rows'[k].target = rows[k].target /\ rows'[k].cfg = rows[k].cfg
              /\ rows'[k].wanted = rows[k].wanted
            BY <1>1, <2>1, MessagesKept DEF SameMessage
        <3>2. PICK t \in Targets : t = rows[k].target
            BY <1>4, <2>1
        <3>3. /\ target[t].state # "absent" /\ rows[k].cfg <= target[t].cfg
              /\ target[t].state = "live" /\ target[t].cfg = rows[k].cfg
                    => rows[k].wanted = target[t].digest
            BY <2>1, <3>2 DEF AddressInv
        <3>4. /\ target'[t].state # "absent" /\ target[t].cfg <= target'[t].cfg
              /\ target'[t].state = "live" /\ target'[t].cfg = target[t].cfg
                    => target[t].state = "live" /\ target'[t].digest = target[t].digest
            BY <1>2, <3>3 DEF SettingEvolves
        <3>5. rows[k].cfg \in Nat /\ target[t].cfg \in Nat /\ target'[t].cfg \in Nat
            BY <1>4, <1>5, <2>1
        <3> QED BY <3>1, <3>2, <3>3, <3>4, <3>5
    <2>2. CASE k \notin DOMAIN rows
        <3>1. target' = target /\ (NewItem(rows'[k]) \/ NewAlert(rows'[k]))
            BY <1>1, <2>2, MessagesKept DEF Announces
        <3>2. /\ rows'[k].target \in Targets /\ target[rows'[k].target].state = "live"
              /\ rows'[k].cfg = target[rows'[k].target].cfg
              /\ rows'[k].wanted = target[rows'[k].target].digest
            BY <3>1, NewRowTarget
        <3> QED BY <1>5, <3>1, <3>2
    <2> QED BY <2>1, <2>2
<1>7. ASSUME NEW w \in Workers, disp'[w].pc \in {"rows", "send", "sent"},
             NEW k \in disp'[w].live
      PROVE  rows'[k].wanted = disp'[w].digest
    <2>1. Moves(disp'[w], disp[w])
        BY <1>3 DEF AllMove
    <2>2. disp'[w].live \subseteq disp[w].live /\ disp[w].pc \in {"target", "rows", "send", "sent"}
        BY <1>7, <2>1 DEF Moves
    <2>3. k \in DOMAIN rows /\ disp[w].live \subseteq disp[w].batch
        BY <1>1, <2>2 DEF Types, RowTypes, DispSet, DeliveryInv
    <2>4. rows'[k].wanted = rows[k].wanted
        BY <1>1, <2>3, MessagesKept DEF SameMessage
    <2>5. CASE disp[w].pc = "target"
        <3>1. k \in Held(w)
            BY <2>2, <2>3, <2>5 DEF Held
        <3>2. rows[k].target = disp[w].target
            BY <1>1, <3>1 DEF DeliveryInv
        <3>3. /\ disp'[w].target = disp[w].target /\ target[disp[w].target].state = "live"
              /\ disp'[w].digest = target[disp[w].target].digest
              /\ rows[k].cfg = target[disp[w].target].cfg
            BY <1>7, <2>1, <2>5 DEF Moves
        <3>4. rows[k].wanted = disp'[w].digest
            BY <2>3, <3>2, <3>3 DEF AddressInv
        <3> QED BY <2>4, <3>4
    <2>6. CASE disp[w].pc # "target"
        <3>1. disp'[w].digest = disp[w].digest
            BY <1>7, <2>1, <2>6 DEF Moves
        <3>2. rows[k].wanted = disp[w].digest
            BY <2>2, <2>6 DEF AddressInv
        <3> QED BY <2>4, <3>1, <3>2
    <2> QED BY <2>5, <2>6
<1>8. ASSUME NEW w \in AlertWorkers, alertDisp'[w].pc # "idle"
      PROVE  rows'[alertDisp'[w].key].wanted = alertDisp'[w].digest
    <2>1. AlertMoves(alertDisp'[w], alertDisp[w])
        BY <1>3 DEF AllMove
    <2>2. PICK k : k = alertDisp'[w].key
        OBVIOUS
    <2>3. k \in DOMAIN rows /\ rows[k].wanted = alertDisp'[w].digest
        <3>1. CASE alertDisp[w].pc # "idle" /\ alertDisp[w].key = k
                   /\ alertDisp'[w].digest = alertDisp[w].digest
            BY <1>1, <3>1 DEF AddressInv, DeliveryInv
        <3>2. CASE /\ k \in DOMAIN rows
                   /\ target[rows[k].target].state = "live"
                   /\ rows[k].cfg = target[rows[k].target].cfg
                   /\ alertDisp'[w].digest = target[rows[k].target].digest
            BY <3>2 DEF AddressInv
        <3> QED BY <1>8, <2>1, <2>2, <3>1, <3>2 DEF AlertMoves
    <2> QED BY <1>1, <2>2, <2>3, MessagesKept DEF SameMessage
<1> QED BY <1>6, <1>7, <1>8 DEF AddressInv

\* A generation of a target's configuration stands for one destination, in the
\* rows and in the hands of the dispatchers.
THEOREM AddressInvariant == Spec => []AddressInv
<1>1. Init => AddressInv
    <2> SUFFICES ASSUME Init PROVE AddressInv
        OBVIOUS
    <2>1. DOMAIN rows = {}
        BY SystemInit
    <2>2. /\ \A w \in Workers : disp[w].pc = "idle"
          /\ \A w \in AlertWorkers : alertDisp[w].pc = "idle"
        BY DEF Init, SetUpPreferred, SetUpAlerts, Idle, NotSending
    <2> QED BY <2>1, <2>2 DEF AddressInv
<1>2. SystemInv /\ AddressInv /\ [Next]_vars => AddressInv'
    BY AddressNext
<1> QED BY <1>1, <1>2, SystemInvariant, PTL DEF Spec

\* RightDestination: a message leaves for the destination its target had when
\* it was announced.
THEOREM DestinationKept == Spec => []RightDestination
<1>1. AddressInv => RightDestination
    BY DEF AddressInv, RightDestination
<1> QED BY <1>1, AddressInvariant, PTL

\* The generations of the switches and of the items under them.
LEMMA Generations ==
    ASSUME Types
    PROVE  /\ account.gen \in Nat /\ \A s \in Subs : sub[s].gen \in Nat
           /\ \A k \in DOMAIN rows : rows[k].kind = "item" =>
                rows[k].sub \in Subs /\ rows[k].account \in Nat /\ rows[k].subGen \in Nat
<1>1. account.gen \in Nat /\ \A s \in Subs : sub[s].gen \in Nat
    BY DEF Types, SwitchTypes, Switches
<1>2. ASSUME NEW k \in DOMAIN rows, rows[k].kind = "item"
      PROVE  rows[k].sub \in Subs /\ rows[k].account \in Nat /\ rows[k].subGen \in Nat
    <2>1. rows[k] \in ItemSet
        BY <1>2 DEF Types, RowTypes, AlertSet
    <2> QED BY <2>1 DEF ItemSet
<1> QED BY <1>1, <1>2

\* A switch that is thrown leaves what was announced under it behind.
LEMMA SwitchThrown ==
    ASSUME Types, WithdrawnInv, Withdraws
    PROVE  /\ UNCHANGED <<rows, disp>>
           /\ account'.gen >= account.gen /\ \A s \in Subs : sub'[s].gen >= sub[s].gen
           /\ \A k \in DOMAIN rows : rows[k].kind = "item" =>
                /\ AccountPast(k) => AccountPast(k)'
                /\ SubPast(k) => SubPast(k)'
           /\ \A k \in withdrawn' \ withdrawn :
                k \in PendingItems /\ (AccountPast(k)' \/ SubPast(k)')
<1>1. /\ account.gen \in Nat /\ \A s \in Subs : sub[s].gen \in Nat
      /\ \A k \in DOMAIN rows : rows[k].kind = "item" =>
            rows[k].sub \in Subs /\ rows[k].account \in Nat /\ rows[k].subGen \in Nat
    BY Generations
<1>2. \A k \in DOMAIN rows : rows[k].kind = "item" =>
        rows[k].account <= account.gen /\ rows[k].subGen <= sub[rows[k].sub].gen
    BY DEF WithdrawnInv
<1>3. ASSUME NEW on \in BOOLEAN, SetAccount(on)
      PROVE  /\ account'.gen = account.gen + 1 /\ account'.enabled = on
             /\ sub' = sub /\ UNCHANGED <<rows, disp>>
             /\ account.enabled # on
             /\ withdrawn' = IF on THEN withdrawn ELSE withdrawn \cup PendingItems
    BY <1>3 DEF SetAccount, Switch
<1>4. ASSUME NEW on \in BOOLEAN, SetAccount(on)
      PROVE  \A k \in DOMAIN rows : rows[k].kind = "item" => AccountPast(k)'
    BY <1>1, <1>2, <1>3, <1>4 DEF AccountPast
<1>5. ASSUME DisableUser
      PROVE  /\ account'.gen = account.gen /\ ~account'.enabled
             /\ sub' = sub /\ UNCHANGED <<rows, disp>>
             /\ withdrawn' = withdrawn \cup PendingItems
    BY <1>5 DEF DisableUser, Switch
<1>6. ASSUME NEW s \in Subs, NEW on \in BOOLEAN, SetSubscription(s, on)
      PROVE  /\ account' = account /\ UNCHANGED <<rows, disp>>
             /\ \A r \in Subs \ {s} : sub'[r] = sub[r]
             /\ \/ sub'[s].gen = sub[s].gen + 1
                \/ sub'[s].gen = sub[s].gen /\ ~sub'[s].enabled
             /\ withdrawn' \subseteq withdrawn \cup {k \in PendingItems : rows[k].sub = s}
    <2>1. /\ account' = account /\ UNCHANGED <<rows, disp>>
          /\ withdrawn' \subseteq withdrawn \cup {k \in PendingItems : rows[k].sub = s}
        BY <1>6 DEF SetSubscription
    <2>2. /\ \A r \in Subs \ {s} : sub'[r] = sub[r]
          /\ sub'[s] = IF on THEN Switch(TRUE, Now, sub[s].gen + 1)
                       ELSE Switch(FALSE, None, sub[s].gen)
        BY <1>6 DEF SetSubscription, Types, SwitchTypes
    <2> QED BY <2>1, <2>2 DEF Switch
<1>7. CASE \E on \in BOOLEAN : SetAccount(on)
    <2>1. PICK on \in BOOLEAN : SetAccount(on)
        BY <1>7
    <2>2. /\ account'.gen = account.gen + 1 /\ sub' = sub /\ UNCHANGED <<rows, disp>>
          /\ withdrawn' \subseteq withdrawn \cup PendingItems
        BY <2>1, <1>3
    <2>3. \A k \in DOMAIN rows : rows[k].kind = "item" => AccountPast(k)'
        BY <2>1, <1>4
    <2>4. \A k : SubPast(k)' = SubPast(k)
        BY <2>2 DEF SubPast
    <2> QED BY <1>1, <2>2, <2>3, <2>4 DEF PendingItems
<1>8. CASE DisableUser
    <2>1. \A k : AccountPast(k)' /\ SubPast(k)' = SubPast(k)
        BY <1>5, <1>8 DEF AccountPast, SubPast
    <2> QED BY <1>1, <1>5, <1>8, <2>1
<1>9. CASE \E s \in Subs, on \in BOOLEAN : SetSubscription(s, on)
    <2>1. PICK s \in Subs, on \in BOOLEAN : SetSubscription(s, on)
        BY <1>9
    <2>2. /\ account' = account /\ UNCHANGED <<rows, disp>>
          /\ \A r \in Subs \ {s} : sub'[r] = sub[r]
          /\ \/ sub'[s].gen = sub[s].gen + 1
             \/ sub'[s].gen = sub[s].gen /\ ~sub'[s].enabled
          /\ withdrawn' \subseteq withdrawn \cup {k \in PendingItems : rows[k].sub = s}
        BY <2>1, <1>6
    <2>3. \A k : AccountPast(k)' = AccountPast(k)
        BY <2>2 DEF AccountPast
    <2>4. \A k \in DOMAIN rows : rows[k].kind = "item" /\ rows[k].sub = s => SubPast(k)'
        BY <1>1, <1>2, <2>2 DEF SubPast
    <2>5. \A k \in DOMAIN rows : rows[k].kind = "item" /\ rows[k].sub # s =>
            (SubPast(k) => SubPast(k)')
        BY <1>1, <2>2 DEF SubPast
    <2>6. \A r \in Subs : sub'[r].gen >= sub[r].gen
        BY <1>1, <2>2
    <2>7. \A k \in withdrawn' \ withdrawn : k \in PendingItems /\ rows[k].sub = s
        BY <2>2
    <2> QED BY <1>1, <2>2, <2>3, <2>4, <2>5, <2>6, <2>7 DEF PendingItems
<1> QED BY <1>7, <1>8, <1>9 DEF Withdraws

\* Every step keeps WithdrawnInv.
LEMMA WithdrawnNext ==
    ASSUME SystemInv, WithdrawnInv, [Next]_vars
    PROVE  WithdrawnInv'
<1>1. Types /\ DeliveryInv /\ SystemInv' /\ RowStep /\ AllMove
    BY SystemNext, StepKinds DEF SystemInv
<1>2. /\ account.gen \in Nat /\ \A s \in Subs : sub[s].gen \in Nat
      /\ \A k \in DOMAIN rows : rows[k].kind = "item" =>
            rows[k].sub \in Subs /\ rows[k].account \in Nat /\ rows[k].subGen \in Nat
    BY <1>1, Generations
<1>3. ASSUME NEW w \in Workers, disp[w].pc \in {"target", "rows", "send", "sent"}
      PROVE  disp[w].live \cap PendingItems = {}
    <2>1. disp[w].live \subseteq Held(w)
        BY <1>1, <1>3 DEF Held, DeliveryInv
    <2> QED BY <1>1, <2>1 DEF DeliveryInv, PendingItems
<1>4. CASE UNCHANGED <<account, sub, withdrawn>>
    <2>1. ASSUME NEW k \in DOMAIN rows'
          PROVE  rows'[k].kind = "item" =>
                    rows'[k].account <= account.gen /\ rows'[k].subGen <= sub[rows'[k].sub].gen
        <3>1. CASE k \in DOMAIN rows
            BY <1>1, <3>1, MessagesKept DEF SameMessage, WithdrawnInv
        <3>2. CASE NewItem(rows'[k])
            BY <1>2, <3>2 DEF NewItem
        <3>3. CASE NewAlert(rows'[k])
            BY <3>3 DEF NewAlert, AlertSet
        <3> QED BY <1>1, <3>1, <3>2, <3>3, MessagesKept
    <2>2. ASSUME NEW k \in DOMAIN rows, rows[k].kind = "item"
          PROVE  k \in DOMAIN rows' /\ rows'[k].kind = "item"
                 /\ AccountPast(k)' = AccountPast(k) /\ SubPast(k)' = SubPast(k)
        BY <1>1, <1>4, <2>2, MessagesKept DEF SameMessage, AccountPast, SubPast
    <2>3. \A k \in withdrawn :
            k \in DOMAIN rows /\ rows[k].kind = "item" /\ (AccountPast(k) \/ SubPast(k))
        BY DEF WithdrawnInv
    <2>4. \A k \in withdrawn' :
            k \in DOMAIN rows' /\ rows'[k].kind = "item" /\ (AccountPast(k)' \/ SubPast(k)')
        BY <1>4, <2>2, <2>3
    <2>5. ASSUME NEW w \in Workers, disp'[w].pc \in {"target", "rows"},
                 NEW k \in disp'[w].live, k \in withdrawn
          PROVE  SubPast(k)'
        <3>1. Moves(disp'[w], disp[w])
            BY <1>1 DEF AllMove
        <3>2. CASE disp[w].pc \in {"target", "rows"} /\ k \in disp[w].live
            BY <2>2, <2>3, <2>5, <3>2 DEF WithdrawnInv
        <3>3. CASE account.enabled /\ rows[k].account = account.gen
            BY <1>2, <2>2, <2>3, <2>5, <3>3 DEF AccountPast
        <3> QED BY <2>5, <3>1, <3>2, <3>3 DEF Moves
    <2>6. ASSUME NEW w \in Workers, disp'[w].pc \in {"send", "sent"},
                 NEW k \in disp'[w].live, k \in withdrawn
          PROVE  FALSE
        <3>1. Moves(disp'[w], disp[w])
            BY <1>1 DEF AllMove
        <3>2. CASE disp[w].pc \in {"send", "sent"} /\ k \in disp[w].live
            BY <2>6, <3>2 DEF WithdrawnInv, WithdrawnNeverSent
        <3>3. CASE /\ disp[w].pc = "rows" /\ k \in disp[w].live
                   /\ sub[rows[k].sub].enabled /\ rows[k].subGen = sub[rows[k].sub].gen
            <4>1. SubPast(k)
                BY <2>6, <3>3 DEF WithdrawnInv
            <4> QED BY <1>2, <2>3, <2>6, <3>3, <4>1 DEF SubPast
        <3> QED BY <2>6, <3>1, <3>2, <3>3 DEF Moves
    <2> QED BY <1>4, <2>1, <2>4, <2>5, <2>6 DEF WithdrawnInv, WithdrawnNeverSent
<1>5. CASE Withdraws
    <2>1. /\ UNCHANGED <<rows, disp>>
          /\ account'.gen >= account.gen /\ \A s \in Subs : sub'[s].gen >= sub[s].gen
          /\ \A k \in DOMAIN rows : rows[k].kind = "item" =>
                /\ AccountPast(k) => AccountPast(k)'
                /\ SubPast(k) => SubPast(k)'
          /\ \A k \in withdrawn' \ withdrawn :
                k \in PendingItems /\ (AccountPast(k)' \/ SubPast(k)')
        BY <1>1, <1>5, SwitchThrown
    <2>2. account'.gen \in Nat /\ \A s \in Subs : sub'[s].gen \in Nat
        BY <1>1 DEF SystemInv, Types, SwitchTypes, Switches
    <2>3. \A k \in DOMAIN rows : rows[k].kind = "item" =>
            rows[k].account <= account'.gen /\ rows[k].subGen <= sub'[rows[k].sub].gen
        BY <1>2, <2>1, <2>2 DEF WithdrawnInv
    <2>4. \A k \in withdrawn' :
            k \in DOMAIN rows /\ rows[k].kind = "item" /\ (AccountPast(k)' \/ SubPast(k)')
        BY <2>1 DEF WithdrawnInv, PendingItems
    <2>5. ASSUME NEW w \in Workers, disp[w].pc \in {"target", "rows"},
                 NEW k \in disp[w].live, k \in withdrawn'
          PROVE  SubPast(k)'
        <3>1. k \in withdrawn
            BY <1>3, <2>1, <2>5
        <3> QED BY <2>1, <2>5, <3>1 DEF WithdrawnInv
    <2>6. \A w \in Workers : disp[w].pc \in {"send", "sent"} =>
            disp[w].live \cap withdrawn' = {}
        BY <1>3, <2>1 DEF WithdrawnInv, WithdrawnNeverSent
    <2> QED BY <2>1, <2>3, <2>4, <2>5, <2>6 DEF WithdrawnInv, WithdrawnNeverSent
<1> QED BY <1>4, <1>5, StepKinds

\* What was withdrawn is recognised by a generation a dispatcher still compares.
THEOREM WithdrawnInvariant == Spec => []WithdrawnInv
<1>1. Init => WithdrawnInv
    <2> SUFFICES ASSUME Init PROVE WithdrawnInv
        OBVIOUS
    <2>1. DOMAIN rows = {} /\ withdrawn = {}
        BY SystemInit DEF Init, SetUpPreferred
    <2> QED BY <2>1 DEF WithdrawnInv, WithdrawnNeverSent
<1>2. SystemInv /\ WithdrawnInv /\ [Next]_vars => WithdrawnInv'
    BY WithdrawnNext
<1> QED BY <1>1, <1>2, SystemInvariant, PTL DEF Spec

\* WithdrawnNeverSent: a notification withdrawn while it was pending is never
\* transmitted, even if the switch is on again when it is claimed.
THEOREM WithdrawalHonoured == Spec => []WithdrawnNeverSent
<1>1. WithdrawnInv => WithdrawnNeverSent
    BY DEF WithdrawnInv
<1> QED BY <1>1, WithdrawnInvariant, PTL

-----------------------------------------------------------------------------
(* Pauses.                                                                 *)

\* What the settings of a target and its transport say of it.
SettingOn(t) == target[t].enabled /\ ~TransportOff(target[t].channel)
EnabledLive == \A t \in Targets : target[t].enabled => target[t].state = "live"

\* A target that comes into use, again or for the first time, has a watermark
\* of this instant.
WatermarksMove ==
    /\ EnabledLive'
    /\ \A t \in Targets : SettingOn(t)' =>
        \/ target'[t].enabledAt = clock'
        \/ SettingOn(t) /\ target'[t].enabledAt = target[t].enabledAt

\* It has if the targets keep their switches and no transport comes up.
LEMMA SwitchesStay ==
    ASSUME TargetTypes, EnabledLive,
           \A t \in Targets : /\ target'[t].state = target[t].state
                              /\ target'[t].channel = target[t].channel
                              /\ target'[t].enabled = target[t].enabled
                              /\ target'[t].enabledAt = target[t].enabledAt,
           \A c \in Channels : TransportOff(c) => TransportOff(c)'
    PROVE  WatermarksMove
<1>1. \A t \in Targets : target[t].channel \in Channels
    BY DEF TargetTypes, TargetSet
<1>2. EnabledLive'
    BY DEF EnabledLive
<1>3. ASSUME NEW t \in Targets, SettingOn(t)'
      PROVE  SettingOn(t)
    <2>1. PICK c \in Channels : c = target[t].channel
        BY <1>1
    <2>2. target'[t].enabled /\ ~TransportOff(c)'
        BY <1>3, <2>1 DEF SettingOn, TransportOff
    <2> QED BY <2>1, <2>2 DEF SettingOn
<1> QED BY <1>2, <1>3 DEF WatermarksMove

\* It has if the targets of the one transport that may come up move on.
LEMMA ChannelAdvances ==
    ASSUME TargetTypes, EnabledLive, NEW c, target' = Advanced(c), clock' = Now,
           \A b \in Channels \ {c} : TransportOff(b) => TransportOff(b)'
    PROVE  WatermarksMove
<1>1. PICK f : f = Advanced(c)
    OBVIOUS
<1>2. \A t \in Targets :
        /\ f[t].state = target[t].state /\ f[t].channel = target[t].channel
        /\ f[t].enabled = target[t].enabled
        /\ f[t].enabledAt =
            IF target[t].state = "live" /\ target[t].enabled /\ target[t].channel = c
            THEN Now ELSE target[t].enabledAt
    BY <1>1, AdvancedTargets
<1>3. target' = f
    BY <1>1
<1>4. EnabledLive'
    BY <1>2, <1>3 DEF EnabledLive
<1>5. ASSUME NEW t \in Targets, SettingOn(t)'
      PROVE  \/ target'[t].enabledAt = clock'
             \/ SettingOn(t) /\ target'[t].enabledAt = target[t].enabledAt
    <2>1. target[t].enabled /\ target[t].state = "live" /\ target[t].channel \in Channels
        BY <1>2, <1>3, <1>5 DEF SettingOn, EnabledLive, TargetTypes, TargetSet
    <2>2. CASE target[t].channel = c
        BY <1>2, <1>3, <2>1, <2>2
    <2>3. CASE target[t].channel # c
        <3>1. PICK b \in Channels : b = target[t].channel
            BY <2>1
        <3>2. target'[t].channel = b
            BY <1>2, <1>3, <3>1
        <3>3. ~TransportOff(b)'
            BY <1>5, <3>2 DEF SettingOn, TransportOff
        <3>4. ~TransportOff(target[t].channel)
            BY <2>3, <3>1, <3>3
        <3> QED BY <1>2, <1>3, <2>1, <2>3, <3>4 DEF SettingOn
    <2> QED BY <2>2, <2>3
<1> QED BY <1>4, <1>5 DEF WatermarksMove

\* It has if one target is saved, off or with a watermark of now.
LEMMA TargetSaved ==
    ASSUME TargetTypes, EnabledLive, NEW t \in Targets,
           target' = [target EXCEPT ![t] = target'[t]], transport' = transport,
           target'[t].enabled => target'[t].state = "live" /\ target'[t].enabledAt = clock'
    PROVE  WatermarksMove
<1>1. \A u \in Targets \ {t} : target'[u] = target[u]
    BY DEF TargetTypes
<1>2. \A c : TransportOff(c)' = TransportOff(c)
    BY DEF TransportOff
<1> QED BY <1>1, <1>2 DEF WatermarksMove, EnabledLive, SettingOn

\* A transport that is replaced leaves the others as they are.
LEMMA TransportReplaced ==
    ASSUME TargetTypes, NEW c \in TransportChannels, NEW q,
           transport' = [transport EXCEPT ![c] = q]
    PROVE  /\ transport'[c] = q
           /\ \A b : b # c => TransportOff(b)' = TransportOff(b)
           /\ c = "telegram" => (TransportOff(c)' <=> ~q.enabled)
           /\ c = "email" => (TransportOff(c)' <=> ~(q.test = "sent" /\ q.testGen = q.gen))
<1>1. transport'[c] = q /\ \A b \in TransportChannels \ {c} : transport'[b] = transport[b]
    BY DEF TargetTypes
<1>2. ASSUME NEW b, b # c PROVE TransportOff(b)' = TransportOff(b)
    <2>1. CASE b \in TransportChannels
        BY <1>1, <1>2, <2>1 DEF TransportOff
    <2>2. CASE b \notin TransportChannels
        BY <2>2 DEF TransportOff, TransportChannels
    <2> QED BY <2>1, <2>2
<1>3. CASE c = "telegram"
    BY <1>1, <1>3 DEF TransportOff
<1>4. CASE c = "email"
    BY <1>1, <1>4 DEF TransportOff
<1> QED BY <1>1, <1>2, <1>3, <1>4 DEF TransportChannels

\* A transport that is saved again is down.
LEMMA TransportSaved ==
    ASSUME TargetTypes, EnabledLive, NEW c \in TransportChannels, NEW q, target' = target,
           transport' = [transport EXCEPT ![c] = q],
           c = "telegram" => ~q.enabled,
           c = "email" => ~(q.test = "sent" /\ q.testGen = q.gen)
    PROVE  WatermarksMove
<1>1. TransportOff(c)' /\ \A b : b # c => TransportOff(b)' = TransportOff(b)
    BY TransportReplaced DEF TransportChannels
<1>2. \A b \in Channels : TransportOff(b) => TransportOff(b)'
    BY <1>1
<1> QED BY <1>2, SwitchesStay

\* The settings of the transports.
LEMMA TransportSettingsMove ==
    ASSUME TargetTypes, EnabledLive, TransportSettings
    PROVE  WatermarksMove
<1> USE DEF TransportChannels
<1>1. ASSUME NEW c \in TransportChannels, NEW v, target' = target,
             transport' = [transport EXCEPT ![c] =
                            [NoTransport EXCEPT !.exists = TRUE, !.digest = v,
                                                !.gen = transport[c].gen + 1]]
      PROVE  WatermarksMove
    <2>1. PICK g : g = transport[c].gen + 1
        OBVIOUS
    <2>2. g # 0
        BY <2>1 DEF TargetTypes, TransportSet
    <2>3. PICK q : q = [NoTransport EXCEPT !.exists = TRUE, !.digest = v, !.gen = g]
        OBVIOUS
    <2>4. ~q.enabled /\ q.testGen = 0 /\ q.gen = g
        BY <2>3 DEF NoTransport
    <2>5. transport' = [transport EXCEPT ![c] = q]
        BY <1>1, <2>1, <2>3, Zenon
    <2>6. ~(q.test = "sent" /\ q.testGen = q.gen)
        BY <2>2, <2>4
    <2> QED BY <1>1, <2>4, <2>5, <2>6, TransportSaved
<1>2. ASSUME NEW on \in BOOLEAN, SwitchTelegram(on)
      PROVE  WatermarksMove
    <2>1. PICK r \in TransportSet : r = transport["telegram"]
        BY DEF TargetTypes
    <2>2. PICK q : q = [r EXCEPT !.enabled = on]
        OBVIOUS
    <2>3. q.enabled = on
        BY <2>2 DEF TransportSet
    <2>4. transport' = [transport EXCEPT !["telegram"] = q] /\ clock' = Now
        BY <1>2, <2>1, <2>2 DEF SwitchTelegram, TargetTypes, Tick, Now
    <2>5. CASE on
        <3>1. target' = Advanced("telegram")
            BY <1>2, <2>5 DEF SwitchTelegram
        <3>2. \A b : b # "telegram" => TransportOff(b)' = TransportOff(b)
            BY <2>4, TransportReplaced
        <3> QED BY <2>4, <3>1, <3>2, ChannelAdvances
    <2>6. CASE ~on
        <3>1. target' = target /\ ~q.enabled
            BY <1>2, <2>3, <2>6 DEF SwitchTelegram
        <3> QED BY <2>4, <3>1, TransportSaved
    <2> QED BY <2>5, <2>6
<1>3. CASE RenameEmailSender
    <2>1. PICK r \in TransportSet : r = transport["email"]
        BY DEF TargetTypes
    <2>2. PICK g, v : /\ g = r.gen + 1
                      /\ v = IF Bound("email", r.digest) THEN r.digest ELSE None
        OBVIOUS
    <2>3. g # 0
        BY <2>2 DEF TransportSet
    <2>4. PICK q : q = [NoTransport EXCEPT !.exists = TRUE, !.gen = g, !.digest = v]
        OBVIOUS
    <2>5. q.testGen = 0 /\ q.gen = g
        BY <2>4 DEF NoTransport
    <2>6. transport' = [transport EXCEPT !["email"] = q] /\ target' = target
        BY <1>3, <2>1, <2>2, <2>4 DEF RenameEmailSender
    <2> QED BY <2>3, <2>5, <2>6, TransportSaved
<1>4. ASSUME NEW c \in TransportChannels, DeleteTransport(c)
      PROVE  WatermarksMove
    <2>1. transport' = [transport EXCEPT ![c] = NoTransport] /\ target' = target
        BY <1>4 DEF DeleteTransport
    <2>2. ~NoTransport.enabled /\ NoTransport.test # "sent"
        BY NoneAssumption DEF NoTransport
    <2> QED BY <2>1, <2>2, TransportSaved
<1>5. Used \subseteq TransportChannels
    BY DEF Used
<1>6. ASSUME NEW v, SetTelegramToken(v)
      PROVE  WatermarksMove
    BY <1>1, <1>6 DEF SetTelegramToken
<1>7. ASSUME NEW v, SetEmailCredential(v)
      PROVE  WatermarksMove
    BY <1>1, <1>7 DEF SetEmailCredential
<1>8. ASSUME NEW id, NEW v, SecretWriteCrash(id, v)
      PROVE  WatermarksMove
    <2>1. target' = target /\ transport' = transport
        BY <1>8 DEF SecretWriteCrash
    <2>2. \A c : TransportOff(c)' = TransportOff(c)
        BY <2>1 DEF TransportOff
    <2> QED BY <2>1, <2>2, SwitchesStay
<1> QED BY <1>2, <1>3, <1>4, <1>5, <1>6, <1>7, <1>8 DEF TransportSettings

\* The settings of the targets.
LEMMA TargetSettingsMove ==
    ASSUME TargetTypes, EnabledLive, TargetSettings
    PROVE  WatermarksMove
<1>1. PICK t \in Targets :
        \/ \E d \in Dests : CreateTarget(t, d) \/ ConfigureTarget(t, d)
        \/ \E on \in BOOLEAN : SwitchTarget(t, on)
        \/ ArchiveTarget(t, binding[t].enabled \/ alertBinding[t].enabled)
    BY DEF TargetSettings
<1>2. transport' = transport /\ clock' = Now
    BY <1>1 DEF CreateTarget, ConfigureTarget, SwitchTarget, ArchiveTarget, Tick, Now
<1>3. target' = [target EXCEPT ![t] = target'[t]]
    BY <1>1, CreateEffect, ConfigureEffect, SwitchEffect, ArchiveEffect
<1>4. target'[t].enabled => target'[t].state = "live" /\ target'[t].enabledAt = clock'
    BY <1>1, <1>2, CreateEffect, ConfigureEffect, SwitchEffect, ArchiveEffect
<1> QED BY <1>2, <1>3, <1>4, TargetSaved

\* The result of a test of the mail transport.
LEMMA EmailTestMoves ==
    ASSUME TargetTypes, EnabledLive, NEW p, RecordEmailTest(p)
    PROVE  WatermarksMove
<1> DEFINE x == tests[p]
           tr == transport["email"]
           current == tr.exists /\ tr.gen = x.gen
           verified == tr.test = "sent" /\ tr.testGen = x.gen
<1>1. PICK r \in TransportSet : r = transport["email"]
    BY DEF TargetTypes, TransportChannels
<1>2. PICK b \in BOOLEAN : b = (x.answer = "sent")
    OBVIOUS
<1>3. PICK q : q = [r EXCEPT !.test = x.answer, !.testGen = x.gen, !.enabled = b]
    OBVIOUS
<1>4. q.test = x.answer /\ q.testGen = x.gen /\ q.gen = r.gen
    BY <1>3 DEF TransportSet
<1>5. clock' = Now
    BY DEF RecordEmailTest, Tick, Now
<1>6. CASE ~current
    <2>1. transport' = transport /\ target' = target
        BY <1>6 DEF RecordEmailTest
    <2>2. \A c : TransportOff(c)' = TransportOff(c)
        BY <2>1 DEF TransportOff
    <2> QED BY <2>1, <2>2, SwitchesStay
<1>7. CASE current
    <2>1. transport' = [transport EXCEPT !["email"] = q]
        BY <1>1, <1>2, <1>3, <1>7 DEF RecordEmailTest, TargetTypes, TransportChannels
    <2>2. /\ \A c : c # "email" => TransportOff(c)' = TransportOff(c)
          /\ TransportOff("email")' <=> ~(q.test = "sent" /\ q.testGen = q.gen)
        BY <2>1, TransportReplaced DEF TransportChannels
    <2>3. CASE x.answer = "sent" /\ ~verified
        <3>1. target' = Advanced("email")
            BY <1>7, <2>3 DEF RecordEmailTest
        <3> QED BY <1>5, <2>2, <3>1, ChannelAdvances
    <2>4. CASE x.answer # "sent"
        <3>1. target' = target /\ TransportOff("email")'
            BY <1>4, <2>2, <2>4 DEF RecordEmailTest
        <3>2. \A c \in Channels : TransportOff(c) => TransportOff(c)'
            BY <2>2, <3>1
        <3> QED BY <3>1, <3>2, SwitchesStay
    <2>5. CASE x.answer = "sent" /\ verified
        <3>1. target' = target /\ ~TransportOff("email")
            BY <1>7, <2>5 DEF RecordEmailTest, TransportOff
        <3>2. \A c \in Channels : TransportOff(c) => TransportOff(c)'
            BY <2>2, <3>1
        <3> QED BY <3>1, <3>2, SwitchesStay
    <2> QED BY <2>3, <2>4, <2>5
<1> QED BY <1>6, <1>7

\* A test that puts a service into use.
LEMMA ActivateMoves ==
    ASSUME TargetTypes, EnabledLive, NEW p, Activate(p),
           tests[p] \in TestSet, tests[p].id \in Targets
    PROVE  WatermarksMove
<1> DEFINE x == tests[p]
           c == x.channel
           row == target[x.id]
           tr == transport[c]
           tested == tr.test = "sent" /\ tr.testGen = x.gen
           restored == IF c = "telegram" THEN ~(tr.enabled /\ tested) ELSE ~tested
           active == row.enabled /\ row.test = "sent" /\ row.testCfg = x.cfg
           current == /\ row.state = "live" /\ row.cfg = x.cfg
                      /\ c \in TransportChannels =>
                           tr.exists /\ tr.gen = x.gen /\ tr.digest # None
           base == IF c \in TransportChannels /\ restored THEN Advanced(c) ELSE target
<1>0. clock' = Now
    BY DEF Activate, Tick, Now
<1>1. CASE ~current
    <2>1. PICK y : y = [x EXCEPT !.answer = "unknown"]
        OBVIOUS
    <2>2. y.id = x.id /\ y.cfg = x.cfg /\ y.answer = "unknown" /\ y.cfg \in Nat
        BY <2>1 DEF TestSet
    <2>3. target' = Recorded(y) /\ transport' = transport
        BY <1>1, <2>1 DEF Activate
    <2>4. \A t \in Targets :
            /\ SameSetting(target'[t], target[t])
            /\ target'[t].enabled = target[t].enabled
            /\ target'[t].enabledAt = target[t].enabledAt
        BY <2>2, <2>3, RecordedEffect DEF Answers
    <2>5. \A b : TransportOff(b)' = TransportOff(b)
        BY <2>3 DEF TransportOff
    <2> QED BY <2>4, <2>5, SwitchesStay DEF SameSetting
<1>2. CASE current
    <2>1. PICK f : f = base
        OBVIOUS
    <2>2. /\ f \in [Targets -> TargetSet]
          /\ \A t \in Targets :
                /\ f[t].state = target[t].state /\ f[t].channel = target[t].channel
                /\ f[t].enabled = target[t].enabled
                /\ \/ f[t].enabledAt = target[t].enabledAt
                   \/ f[t].enabledAt = Now
                /\ c \in TransportChannels /\ restored /\ target[t].enabled
                   /\ target[t].channel = c => f[t].enabledAt = Now
        <3>1. CASE c \in TransportChannels /\ restored
            BY <2>1, <3>1, AdvancedTargets DEF EnabledLive
        <3>2. CASE ~(c \in TransportChannels /\ restored)
            BY <2>1, <3>2 DEF TargetTypes
        <3> QED BY <3>1, <3>2
    <2>3. PICK r \in TargetSet : r = f[x.id]
        BY <2>2
    <2>4. PICK n, m : /\ n = (IF active THEN r.enabledAt ELSE Now)
                      /\ m = (IF active THEN r.act ELSE r.act + 1)
        OBVIOUS
    <2>5. PICK q : q = [r EXCEPT !.enabled = TRUE, !.enabledAt = n, !.act = m,
                                 !.test = "sent", !.testCfg = x.cfg]
        OBVIOUS
    <2>6. target' = [f EXCEPT ![x.id].enabled = TRUE,
                              ![x.id].enabledAt = IF active THEN @ ELSE Now,
                              ![x.id].act = IF active THEN @ ELSE @ + 1,
                              ![x.id].test = "sent",
                              ![x.id].testCfg = x.cfg]
        <3>1. target' = [base EXCEPT ![x.id].enabled = TRUE,
                              ![x.id].enabledAt = IF active THEN @ ELSE Now,
                              ![x.id].act = IF active THEN @ ELSE @ + 1,
                              ![x.id].test = "sent",
                              ![x.id].testCfg = x.cfg]
            BY <1>2, Zenon DEF Activate
        <3> QED BY <3>1, <2>1, Zenon
    <2>7. target' = [f EXCEPT ![x.id] = q] /\ target'[x.id] = q
        BY <2>2, <2>3, <2>4, <2>5, <2>6
    <2>8. q.state = r.state /\ q.channel = r.channel /\ q.enabledAt = n
        BY <2>5 DEF TargetSet
    <2>9. \A t \in Targets \ {x.id} : target'[t] = f[t]
        BY <2>2, <2>7
    <2>10. \A t \in Targets :
            /\ target'[t].state = target[t].state /\ target'[t].channel = target[t].channel
            /\ \/ target'[t].enabledAt = Now /\ target[t].state = "live"
               \/ /\ target[t].enabled \/ ~target'[t].enabled
                  /\ target'[t].enabledAt = f[t].enabledAt
        <3>1. row.state = "live"
            BY <1>2
        <3>2. active => row.enabled
            OBVIOUS
        <3> HIDE DEF active
        <3>3. /\ q.state = target[x.id].state /\ q.channel = target[x.id].channel
              /\ \/ q.enabledAt = Now /\ target[x.id].state = "live"
                 \/ target[x.id].enabled /\ q.enabledAt = f[x.id].enabledAt
            BY <2>2, <2>3, <2>4, <2>8, <3>1, <3>2
        <3> QED BY <2>2, <2>7, <2>9, <3>3
    <2>11. \A b : b # c \/ c \notin TransportChannels => TransportOff(b)' = TransportOff(b)
        <3>1. CASE c \notin TransportChannels
            <4>1. transport' = transport
                BY <1>2, <3>1 DEF Activate
            <4> QED BY <4>1 DEF TransportOff
        <3>2. CASE c \in TransportChannels
            <4>1. transport' = [transport EXCEPT ![c].enabled = TRUE,
                                    ![c].test = "sent", ![c].testGen = x.gen]
                BY <1>2, <3>2 DEF Activate
            <4>2. \A b \in TransportChannels \ {c} : transport'[b] = transport[b]
                BY <4>1 DEF TargetTypes
            <4>3. ASSUME NEW b, b # c PROVE TransportOff(b)' = TransportOff(b)
                <5>1. CASE b \in TransportChannels
                    BY <4>2, <4>3, <5>1 DEF TransportOff
                <5>2. CASE b \notin TransportChannels
                    BY <5>2 DEF TransportOff, TransportChannels
                <5> QED BY <5>1, <5>2
            <4> QED BY <3>2, <4>3
        <3> QED BY <3>1, <3>2
    <2>12. c \in TransportChannels /\ ~restored => ~TransportOff(c)
        BY <1>2 DEF TransportOff, TransportChannels
    <2>13. EnabledLive'
        BY <2>10 DEF EnabledLive
    <2>14. ASSUME NEW t \in Targets, SettingOn(t)'
           PROVE  \/ target'[t].enabledAt = clock'
                  \/ SettingOn(t) /\ target'[t].enabledAt = target[t].enabledAt
        <3>1. CASE target'[t].enabledAt = Now
            BY <1>0, <3>1
        <3>2. CASE target'[t].enabledAt # Now
            <4>1. /\ target[t].enabled /\ target'[t].enabledAt = f[t].enabledAt
                  /\ target'[t].channel = target[t].channel
                BY <2>10, <2>14, <3>2 DEF SettingOn
            <4>2. f[t].enabledAt = target[t].enabledAt
                BY <2>2, <3>2, <4>1
            <4>3. ~(c \in TransportChannels /\ restored /\ target[t].channel = c)
                BY <2>2, <3>2, <4>1
            <4>4. PICK b : b = target[t].channel
                OBVIOUS
            <4>5. ~TransportOff(b)'
                BY <2>14, <4>1, <4>4 DEF SettingOn, TransportOff
            <4>6. ~TransportOff(b)
                BY <2>11, <2>12, <4>3, <4>4, <4>5
            <4> QED BY <4>1, <4>2, <4>4, <4>6 DEF SettingOn
        <3> QED BY <3>1, <3>2
    <2> QED BY <2>13, <2>14 DEF WatermarksMove
<1> QED BY <1>1, <1>2

\* Tests.
LEMMA TestsMove ==
    ASSUME TargetTypes, TestedInv, EnabledLive, TestNext
    PROVE  WatermarksMove
<1>1. ASSUME target' = target, transport' = transport PROVE WatermarksMove
    <2>1. \A c : TransportOff(c)' = TransportOff(c)
        BY <1>1 DEF TransportOff
    <2> QED BY <1>1, <2>1, SwitchesStay
<1>2. PICK p \in Testers :
         \/ \E c \in Used : BeginTransportTest(p, c)
         \/ \E t \in Targets : BeginTargetTest(p, t) \/ BeginServiceTest(p, t)
         \/ \E answer \in {"sent", "failed", "unknown"} : SendTest(p, answer)
         \/ RecordTelegramTest(p) \/ RecordEmailTest(p)
         \/ RecordTargetTest(p) \/ Activate(p)
         \/ LoseTest(p)
    BY DEF TestNext
<1>3. CASE \/ \E c \in Used : BeginTransportTest(p, c)
           \/ \E t \in Targets : BeginTargetTest(p, t) \/ BeginServiceTest(p, t)
           \/ \E answer \in {"sent", "failed", "unknown"} : SendTest(p, answer)
           \/ LoseTest(p)
    <2>1. target' = target /\ transport' = transport
        BY <1>3, Zenon DEF BeginTransportTest, BeginTargetTest, BeginServiceTest, SendTest, LoseTest
    <2> QED BY <1>1, <2>1
<1>4. ASSUME tests[p].pc = "answered"
      PROVE  tests[p] \in TestSet /\ (tests[p].kind # "transport" => tests[p].id \in Targets)
    <2>1. tests[p].pc # "idle" /\ tests[p] # NoTest
        BY <1>4 DEF NoTest
    <2>2. tests[p] \in TestSet
        BY <2>1 DEF TargetTypes
    <2>3. tests[p].kind # "transport" => tests[p].id \in Targets
        BY <2>1 DEF TestedInv
    <2> QED BY <2>2, <2>3
<1>5. CASE RecordTelegramTest(p)
    <2>1. PICK r \in TransportSet : r = transport["telegram"]
        BY DEF TargetTypes, TransportChannels
    <2>2. PICK q : q = [r EXCEPT !.test = tests[p].answer, !.testGen = tests[p].gen]
        OBVIOUS
    <2>3. q.enabled = r.enabled
        BY <2>2 DEF TransportSet
    <2>4. target' = target
        BY <1>5 DEF RecordTelegramTest
    <2>5. transport' = transport \/ transport' = [transport EXCEPT !["telegram"] = q]
        BY <1>5, <2>1, <2>2 DEF RecordTelegramTest, TargetTypes, TransportChannels
    <2>6. ASSUME transport' = [transport EXCEPT !["telegram"] = q]
          PROVE  WatermarksMove
        <3>1. /\ \A c : c # "telegram" => TransportOff(c)' = TransportOff(c)
              /\ TransportOff("telegram")' <=> ~q.enabled
            BY <2>6, TransportReplaced DEF TransportChannels
        <3>2. TransportOff("telegram") <=> ~q.enabled
            BY <2>1, <2>3 DEF TransportOff
        <3>3. \A c \in Channels : TransportOff(c) => TransportOff(c)'
            BY <3>1, <3>2
        <3> QED BY <2>4, <3>3, SwitchesStay
    <2> QED BY <1>1, <2>4, <2>5, <2>6
<1>6. CASE RecordEmailTest(p)
    BY <1>6, EmailTestMoves
<1>7. CASE RecordTargetTest(p)
    <2>1. PICK x : x = tests[p]
        OBVIOUS
    <2>2. /\ x.id \in Targets /\ x.answer \in Answers /\ x.cfg \in Nat
        BY <1>4, <1>7, <2>1 DEF RecordTargetTest, TestSet
    <2>3. target' = Recorded(x) /\ transport' = transport
        BY <1>7, <2>1 DEF RecordTargetTest
    <2>4. \A t \in Targets :
            /\ SameSetting(target'[t], target[t])
            /\ target'[t].enabled = target[t].enabled
            /\ target'[t].enabledAt = target[t].enabledAt
        BY <2>2, <2>3, RecordedEffect
    <2>5. \A c : TransportOff(c)' = TransportOff(c)
        BY <2>3 DEF TransportOff
    <2> QED BY <2>4, <2>5, SwitchesStay DEF SameSetting
<1>8. CASE Activate(p)
    <2>1. tests[p] \in TestSet /\ tests[p].id \in Targets
        BY <1>4, <1>8 DEF Activate
    <2> QED BY <1>8, <2>1, ActivateMoves
<1> QED BY <1>2, <1>3, <1>5, <1>6, <1>7, <1>8

\* The switches of an outbox, and their watermarks.
ItemOn(t) == account.enabled /\ binding[t].enabled
AlertOn(t) == alertSet.enabled /\ alertBinding[t].enabled
ItemMarks(t) == {account.enabledAt, binding[t].enabledAt}
AlertMarks(t) == {alertSet.enabledAt, alertBinding[t].enabledAt}

\* An outbox that is switched on for a target has a watermark of this instant.
SwitchesMove ==
    \A t \in Targets :
        /\ ItemOn(t)' => clock' \in ItemMarks(t)' \/ (ItemOn(t) /\ ItemMarks(t)' = ItemMarks(t))
        /\ AlertOn(t)' => clock' \in AlertMarks(t)' \/ (AlertOn(t) /\ AlertMarks(t)' = AlertMarks(t))

\* The switches of the items.
LEMMA ItemSwitchesMove ==
    ASSUME Types, PreferredSettings, UNCHANGED <<alertSet, alertBinding>>
    PROVE  SwitchesMove
<1>1. \A t \in Targets : AlertOn(t)' = AlertOn(t) /\ AlertMarks(t)' = AlertMarks(t)
    BY DEF AlertOn, AlertMarks
<1>2. ASSUME NEW on \in BOOLEAN, SetAccount(on), NEW t \in Targets, ItemOn(t)'
      PROVE  clock' \in ItemMarks(t)'
    <2>1. account' = Switch(on, IF on THEN Now ELSE None, account.gen + 1) /\ clock' = Now
        BY <1>2 DEF SetAccount, Tick, Now
    <2>2. account'.enabled = on /\ account'.enabledAt = IF on THEN Now ELSE None
        BY <2>1 DEF Switch
    <2>3. on
        BY <1>2, <2>2 DEF ItemOn
    <2> QED BY <2>1, <2>2, <2>3 DEF ItemMarks
<1>3. ASSUME DisableUser, NEW t \in Targets PROVE ~ItemOn(t)'
    BY <1>3 DEF DisableUser, Switch, ItemOn
<1>4. ASSUME NEW S, SetBindings(S), NEW t \in Targets, ItemOn(t)'
      PROVE  clock' \in ItemMarks(t)' \/ (ItemOn(t) /\ ItemMarks(t)' = ItemMarks(t))
    <2>1. account' = account /\ clock' = Now
        BY <1>4 DEF SetBindings, Tick, Now
    <2>2. PICK q : q = [binding[t] EXCEPT !.enabled = FALSE, !.gen = @ + 1]
        OBVIOUS
    <2>3. ~q.enabled
        BY <2>2, SwitchDropped DEF Types, SwitchTypes
    <2>4. \/ binding'[t] = binding[t]
          \/ binding'[t] = Switch(TRUE, Now, binding[t].gen + 1)
          \/ binding'[t] = q
        BY <1>4, <2>2 DEF SetBindings
    <2>5. CASE binding'[t] = binding[t]
        BY <1>4, <2>1, <2>5 DEF ItemOn, ItemMarks
    <2>6. CASE binding'[t] = Switch(TRUE, Now, binding[t].gen + 1)
        BY <2>1, <2>6 DEF ItemMarks, Switch
    <2>7. CASE binding'[t] = q
        BY <1>4, <2>3, <2>7 DEF ItemOn
    <2> QED BY <2>4, <2>5, <2>6, <2>7
<1>5. ASSUME NEW s \in Subs, NEW on \in BOOLEAN, SetSubscription(s, on), NEW t \in Targets
      PROVE  ItemOn(t)' = ItemOn(t) /\ ItemMarks(t)' = ItemMarks(t)
    BY <1>5 DEF SetSubscription, ItemOn, ItemMarks
<1>6. \A t \in Targets :
        ItemOn(t)' => clock' \in ItemMarks(t)' \/ (ItemOn(t) /\ ItemMarks(t)' = ItemMarks(t))
    BY <1>2, <1>3, <1>4, <1>5 DEF PreferredSettings
<1> QED BY <1>1, <1>6 DEF SwitchesMove

\* The switches of the alerts.
LEMMA AlertSwitchesMove ==
    ASSUME Types, NEW on \in BOOLEAN, NEW events, NEW S, SetAlerts(on, events, S),
           UNCHANGED <<account, binding>>
    PROVE  SwitchesMove
<1>1. \A t \in Targets : ItemOn(t)' = ItemOn(t) /\ ItemMarks(t)' = ItemMarks(t)
    BY DEF ItemOn, ItemMarks
<1>2. ASSUME NEW t \in Targets, AlertOn(t)'
      PROVE  clock' \in AlertMarks(t)' \/ (AlertOn(t) /\ AlertMarks(t)' = AlertMarks(t))
    <2>1. clock' = Now
        BY DEF SetAlerts, Tick, Now
    <2>2. PICK g : alertSet' = [enabled |-> on, events |-> events,
                        enabledAt |-> IF ~on THEN None
                                      ELSE IF alertSet.enabled THEN alertSet.enabledAt ELSE Now,
                        gen |-> g]
        BY DEF SetAlerts
    <2>3. on
        BY <1>2, <2>2 DEF AlertOn
    <2>4. \/ alertSet'.enabledAt = Now
          \/ alertSet.enabled /\ alertSet'.enabledAt = alertSet.enabledAt
        BY <2>2, <2>3
    <2>5. PICK q : q = [alertBinding[t] EXCEPT !.enabled = FALSE, !.gen = @ + 1]
        OBVIOUS
    <2>6. ~q.enabled
        BY <2>5, SwitchDropped DEF Types, SwitchTypes
    <2>7. \/ alertBinding'[t] = alertBinding[t]
          \/ alertBinding'[t] = [enabled |-> TRUE, enabledAt |-> Now,
                                 gen |-> alertBinding[t].gen + 1]
          \/ alertBinding'[t] = q
        BY <2>5 DEF SetAlerts
    <2>8. \/ alertBinding'[t] = alertBinding[t] /\ alertBinding[t].enabled
          \/ alertBinding'[t].enabledAt = Now
        <3>1. alertBinding'[t].enabled
            BY <1>2 DEF AlertOn
        <3> QED BY <2>6, <2>7, <3>1
    <2> QED BY <2>1, <2>4, <2>8 DEF AlertOn, AlertMarks
<1> QED BY <1>1, <1>2 DEF SwitchesMove

\* Every step moves the watermarks of what it switches on.
LEMMA MarksNext ==
    ASSUME SystemInv, EnabledLive, [Next]_vars
    PROVE  WatermarksMove /\ SwitchesMove
<1>1. Types /\ TargetTypes /\ TestedInv
    BY DEF SystemInv, Types
<1>2. ASSUME UNCHANGED targetVars PROVE WatermarksMove
    <2>1. target' = target /\ transport' = transport
        BY <1>2 DEF targetVars
    <2>2. \A c : TransportOff(c)' = TransportOff(c)
        BY <2>1 DEF TransportOff
    <2> QED BY <1>1, <2>1, <2>2, SwitchesStay
<1>3. ASSUME UNCHANGED <<account, binding, alertSet, alertBinding>> PROVE SwitchesMove
    BY <1>3 DEF SwitchesMove, ItemOn, AlertOn, ItemMarks, AlertMarks
<1>4. CASE /\ TransportSettings \/ TargetSettings \/ TestNext
           /\ UNCHANGED <<prefVars, alertVars>>
    <2>1. SwitchesMove
        BY <1>3, <1>4 DEF prefVars, alertVars
    <2> QED BY <1>1, <1>4, <2>1, TransportSettingsMove, TargetSettingsMove, TestsMove
<1>5. CASE PreferredSettings /\ UNCHANGED alertVars
    <2>1. SwitchesMove
        BY <1>1, <1>5, ItemSwitchesMove DEF alertVars
    <2> QED BY <1>2, <1>5, <2>1, OutboxesApart
<1>6. ASSUME NEW S \in SUBSET Articles, PublishSnapshot(S), UNCHANGED alertVars
      PROVE  WatermarksMove /\ SwitchesMove
    <2>1. UNCHANGED targetVars
        BY <1>6, OutboxesApart
    <2>2. UNCHANGED <<account, binding, alertSet, alertBinding>>
        BY <1>6 DEF PublishSnapshot, alertVars
    <2> QED BY <1>2, <1>3, <2>1, <2>2
<1>7. ASSUME NEW w \in Workers, Dispatch(w) \/ Crash(w), UNCHANGED alertVars
      PROVE  WatermarksMove /\ SwitchesMove
    <2>1. UNCHANGED targetVars
        BY <1>7, OutboxesApart
    <2>2. UNCHANGED <<account, binding, alertSet, alertBinding>>
        BY <1>7 DEF Dispatch, ClaimBatch, CheckAccount, CheckTarget, CheckRows, Send,
                    Answer, Crash, alertVars
    <2> QED BY <1>2, <1>3, <2>1, <2>2
<1>8. CASE AlertNext /\ UNCHANGED prefVars
    <2>1. WatermarksMove /\ UNCHANGED <<account, binding>>
        BY <1>2, <1>8, OutboxesApart DEF prefVars
    <2>2. ASSUME NEW w, DispatchAlerts(w) \/ CrashAlert(w)
          PROVE  SwitchesMove
        BY <1>3, <2>1, <2>2 DEF DispatchAlerts, ClaimAlert, SendAlert, AnswerAlert, CrashAlert
    <2>3. ASSUME NEW n, OpenIncident(n) \/ ResolveIncident(n)
          PROVE  SwitchesMove
        BY <1>3, <2>1, <2>3 DEF OpenIncident, ResolveIncident
    <2>4. ASSUME NEW k, RetryDue(k)
          PROVE  SwitchesMove
        BY <1>3, <2>1, <2>4 DEF RetryDue, alertVars
    <2>5. ASSUME NEW on \in BOOLEAN, NEW events, NEW S, SetAlerts(on, events, S)
          PROVE  SwitchesMove
        BY <1>1, <2>1, <2>5, AlertSwitchesMove
    <2> QED BY <1>8, <2>1, <2>2, <2>3, <2>4, <2>5 DEF AlertNext
<1>9. CASE UNCHANGED vars
    BY <1>2, <1>3, <1>9 DEF vars, prefVars, alertVars
<1> QED BY <1>4, <1>5, <1>6, <1>7, <1>8, <1>9 DEF Next

\* An outbox is on for a target if all its switches are.
LEMMA OffSwitches ==
    ASSUME NEW kind \in Outboxes, NEW t \in Targets
    PROVE  /\ kind = "item" \/ kind = "alert"
           /\ kind = "item" =>
                /\ ~Off(kind, t) <=> ItemOn(t) /\ SettingOn(t)
                /\ Marks(kind, t) = ItemMarks(t) \cup {target[t].enabledAt}
           /\ kind = "alert" =>
                /\ ~Off(kind, t) <=> AlertOn(t) /\ SettingOn(t)
                /\ Marks(kind, t) = AlertMarks(t) \cup {target[t].enabledAt}
BY DEF Outboxes, Off, Marks, ItemOn, AlertOn, SettingOn, ItemMarks, AlertMarks

\* What is switched on has a watermark of this instant.
LEMMA OnFromNow ==
    ASSUME WatermarksMove, SwitchesMove, NEW kind \in Outboxes, NEW t \in Targets,
           ~Off(kind, t)'
    PROVE  \/ clock' \in Marks(kind, t)'
           \/ ~Off(kind, t) /\ Marks(kind, t)' = Marks(kind, t)
<1>1. SettingOn(t)' =>
        \/ target'[t].enabledAt = clock'
        \/ SettingOn(t) /\ target'[t].enabledAt = target[t].enabledAt
    BY DEF WatermarksMove
<1>2. CASE kind = "item"
    <2>1. ItemOn(t)' /\ SettingOn(t)'
          /\ Marks(kind, t)' = ItemMarks(t)' \cup {target'[t].enabledAt}
        BY <1>2 DEF Off, Marks, ItemOn, SettingOn, ItemMarks
    <2>2. clock' \in ItemMarks(t)' \/ (ItemOn(t) /\ ItemMarks(t)' = ItemMarks(t))
        BY <2>1 DEF SwitchesMove
    <2> QED BY <1>1, <1>2, <2>1, <2>2, OffSwitches
<1>3. CASE kind = "alert"
    <2>1. AlertOn(t)' /\ SettingOn(t)'
          /\ Marks(kind, t)' = AlertMarks(t)' \cup {target'[t].enabledAt}
        BY <1>3 DEF Off, Marks, AlertOn, SettingOn, AlertMarks
    <2>2. clock' \in AlertMarks(t)' \/ (AlertOn(t) /\ AlertMarks(t)' = AlertMarks(t))
        BY <2>1 DEF SwitchesMove
    <2> QED BY <1>1, <1>3, <2>1, <2>2, OffSwitches
<1> QED BY <1>2, <1>3, OffSwitches

\* Every step keeps PauseInv.
LEMMA PauseNext ==
    ASSUME SystemInv, PauseInv, [Next]_vars
    PROVE  PauseInv'
<1>1. EnabledLive
    BY DEF PauseInv, EnabledLive
<1>2. WatermarksMove /\ SwitchesMove
    BY <1>1, MarksNext
<1>3. clock' \in Nat /\ clock' >= clock /\ clock \in Nat
    <2>1. Ticks /\ clock \in 0..MaxClock
        BY TargetsNext DEF SystemInv, Types, TargetTypes
    <2> QED BY <2>1, ClockType, ClockAssumption
<1>4. \A t \in Targets : target'[t].enabled => target'[t].state = "live"
    BY <1>2 DEF WatermarksMove, EnabledLive
<1>5. ASSUME NEW kind \in Outboxes, NEW t \in Targets
      PROVE  /\ paused'[kind][t] \in 0..clock'
             /\ ~Off(kind, t)' => \E m \in Marks(kind, t)' : m \in Nat /\ paused'[kind][t] <= m
    <2>1. /\ paused[kind][t] \in 0..clock
          /\ ~Off(kind, t) => \E m \in Marks(kind, t) : m \in Nat /\ paused[kind][t] <= m
        BY DEF PauseInv
    <2>2. CASE Next
        <3>1. paused'[kind][t] = IF Off(kind, t) \/ Off(kind, t)' THEN clock' ELSE paused[kind][t]
            BY <2>2 DEF Next, Observe
        <3>2. paused'[kind][t] \in 0..clock'
            BY <1>3, <2>1, <3>1
        <3>3. ASSUME ~Off(kind, t)'
              PROVE  \E m \in Marks(kind, t)' : m \in Nat /\ paused'[kind][t] <= m
            <4>1. CASE clock' \in Marks(kind, t)'
                BY <1>3, <3>2, <4>1
            <4>2. CASE ~Off(kind, t) /\ Marks(kind, t)' = Marks(kind, t)
                BY <2>1, <3>1, <3>3, <4>2
            <4> QED BY <1>2, <3>3, <4>1, <4>2, OnFromNow
        <3> QED BY <3>2, <3>3
    <2>3. CASE UNCHANGED vars
        <3>1. /\ paused' = paused /\ clock' = clock /\ target' = target /\ transport' = transport
              /\ UNCHANGED <<account, binding, alertSet, alertBinding>>
            BY <2>3 DEF vars, targetVars, prefVars, alertVars
        <3>2. Off(kind, t)' = Off(kind, t) /\ Marks(kind, t)' = Marks(kind, t)
            BY <3>1 DEF Off, TransportOff, Marks
        <3> QED BY <2>1, <3>1, <3>2
    <2> QED BY <2>2, <2>3
<1> QED BY <1>4, <1>5 DEF PauseInv, Outboxes

\* One of the watermarks of an outbox that is on is not older than the last
\* pause of the outbox.
THEOREM PauseInvariant == Spec => []PauseInv
<1>1. Init => PauseInv
    <2> SUFFICES ASSUME Init PROVE PauseInv
        OBVIOUS
    <2>1. PICK c, d, v, new : /\ new \in StartNew
                              /\ SetUpTargets(c, d, v, new)
                              /\ SetUpPreferred(new)
                              /\ SetUpAlerts(~new)
        BY DEF Init
    <2>2. /\ clock = 0 /\ account.enabledAt = 0
          /\ paused = [kind \in Outboxes |-> [t \in Targets |-> 0]]
        BY <2>1 DEF SetUpTargets, SetUpPreferred, Switch, Init
    <2>3. CASE new
        <3>1. /\ target = [t \in Targets |-> NoTarget(c)]
              /\ alertSet.enabled = FALSE
            BY <2>1, <2>3 DEF SetUpTargets, SetUpAlerts
        <3>2. NoTarget(c).enabled = FALSE
            BY DEF NoTarget, NewTarget
        <3>3. \A t \in Targets : ~target[t].enabled
            BY <3>1, <3>2
        <3> QED BY <2>2, <3>3 DEF PauseInv, Off
    <2>4. CASE ~new
        <3>1. PICK q : q = [NewTarget(c, d) EXCEPT !.enabled = TRUE, !.enabledAt = 0,
                                                   !.test = "sent", !.testCfg = 1]
            OBVIOUS
        <3>2. q.state = "live" /\ q.enabledAt = 0
            BY <3>1 DEF NewTarget
        <3>3. \A t \in Targets : target[t] = q
            BY <2>1, <2>4, <3>1 DEF SetUpTargets
        <3>4. \A kind \in Outboxes, t \in Targets : 0 \in Marks(kind, t)
            BY <3>2, <3>3 DEF Marks
        <3> QED BY <2>2, <3>2, <3>3, <3>4 DEF PauseInv
    <2> QED BY <2>3, <2>4
<1>2. SystemInv /\ PauseInv /\ [Next]_vars => PauseInv'
    BY PauseNext
<1> QED BY <1>1, <1>2, SystemInvariant, PTL DEF Spec

\* A new row is newer than every watermark of an outbox that is on.
LEMMA NewRowMarks ==
    ASSUME SystemInv, NEW q, NewItem(q) \/ NewAlert(q)
    PROVE  /\ q.kind \in Outboxes /\ q.target \in Targets /\ q.published \in Nat
           /\ ~Off(q.kind, q.target)
           /\ \A m \in Marks(q.kind, q.target) : q.published > m
<1>1. ASSUME NEW t \in Targets, TargetAvailable(t, target[t])
      PROVE  SettingOn(t)
    BY <1>1 DEF TargetAvailable, TransportReady, Verified, SettingOn, TransportOff
<1>2. CASE NewItem(q)
    <2>1. PICK s \in Subs, a \in Articles, t \in Targets, pub \in Nat :
            /\ Stageable(s, a, t, pub)
            /\ q \in ItemSet /\ q.target = t /\ q.published = pub
        BY <1>2 DEF NewItem
    <2>2. q.kind = "item" /\ "item" \in Outboxes
        BY <2>1, OutboxAssumption DEF ItemSet, Outboxes
    <2>3. ItemOn(t) /\ SettingOn(t)
        BY <1>1, <2>1 DEF Stageable, ItemOn
    <2>4. pub > account.enabledAt /\ pub > binding[t].enabledAt /\ pub > target[t].enabledAt
        BY <2>1 DEF Stageable, Watermark
    <2>5. ~Off("item", t) /\ Marks("item", t) = ItemMarks(t) \cup {target[t].enabledAt}
        BY <2>2, <2>3, OffSwitches
    <2> QED BY <2>1, <2>2, <2>4, <2>5 DEF ItemMarks
<1>3. CASE NewAlert(q)
    <2>1. PICK n \in Incidents, event \in AlertEvents, t \in Targets, at \in Nat :
            /\ AlertStageable(event, t, at)
            /\ q \in AlertSet /\ q.target = t /\ q.published = at
        BY <1>3 DEF NewAlert
    <2>2. q.kind = "alert" /\ "alert" \in Outboxes
        BY <2>1, OutboxAssumption DEF AlertSet, Outboxes
    <2>3. AlertOn(t) /\ SettingOn(t)
        BY <1>1, <2>1 DEF AlertStageable, AlertOn
    <2>4. at > alertSet.enabledAt /\ at > alertBinding[t].enabledAt /\ at > target[t].enabledAt
        BY <2>1 DEF AlertStageable, After
    <2>5. ~Off("alert", t) /\ Marks("alert", t) = AlertMarks(t) \cup {target[t].enabledAt}
        BY <2>2, <2>3, OffSwitches
    <2> QED BY <2>1, <2>2, <2>4, <2>5 DEF AlertMarks
<1> QED BY <1>2, <1>3

\* NoBackfill: what was published during a pause of an outbox is not announced
\* when the outbox is switched on again, whichever of its switches was off.
THEOREM PausesNotCaughtUp == Spec => NoBackfill
<1>1. SystemInv /\ PauseInv /\ [Next]_vars =>
        \A k \in DOMAIN rows' \ DOMAIN rows :
            rows'[k].published > paused[rows'[k].kind][rows'[k].target]
    <2> SUFFICES ASSUME SystemInv, PauseInv, [Next]_vars,
                        NEW k \in DOMAIN rows' \ DOMAIN rows
                 PROVE  rows'[k].published > paused[rows'[k].kind][rows'[k].target]
        OBVIOUS
    <2>1. PICK q : q = rows'[k]
        OBVIOUS
    <2>2. NewItem(q) \/ NewAlert(q)
        BY <2>1, SystemNext, MessagesKept
    <2>3. /\ q.kind \in Outboxes /\ q.target \in Targets /\ q.published \in Nat
          /\ ~Off(q.kind, q.target)
          /\ \A m \in Marks(q.kind, q.target) : q.published > m
        BY <2>2, NewRowMarks
    <2>4. PICK m \in Marks(q.kind, q.target) : m \in Nat /\ paused[q.kind][q.target] <= m
        BY <2>3 DEF PauseInv
    <2>5. paused[q.kind][q.target] \in Nat
        BY <2>3 DEF PauseInv, SystemInv, Types, TargetTypes
    <2> QED BY <2>1, <2>3, <2>4, <2>5
<1> QED BY <1>1, SystemInvariant, PauseInvariant, PTL DEF Spec, NoBackfill
=============================================================================
