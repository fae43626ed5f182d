----------------------------- MODULE ActorAlerts -----------------------------
(***************************************************************************)
(* Operational alerts of the Apify routes (services/apify_actor_alerts.py) *)
(* over shared notification targets: an incident opens and is resolved,    *)
(* each time a delivery is staged for every bound target, and dispatchers  *)
(* send them.  An alert that was refused for a transient reason is tried   *)
(* again, at most three times; one whose outcome is unknown never.         *)
(*                                                                         *)
(* Unlike items, an alert is checked in the transaction that claims it,    *)
(* and its destination is read from the SecretStore there.  One event      *)
(* type stands for the five opening ones.                                  *)
(***************************************************************************)
EXTENDS NotificationTargets

CONSTANTS
    Incidents,      \* incident ids, of one route and condition
    AlertWorkers    \* processes that dispatch alerts

VARIABLES
    alertSet,       \* apify_actor_alert_settings
    alertBinding,   \* apify_actor_alert_target_bindings
    incident,       \* apify_actor_alert_incidents
    alertDisp       \* the delivery each dispatcher is sending

alertVars == <<alertSet, alertBinding, incident, alertDisp>>

MAX_DELIVERY_ATTEMPTS == 3
AlertEvents == {"opened", "recovered"}
NotSending == [pc |-> "idle", key |-> None, digest |-> None, attempts |-> 0]

SetUpAlerts(on) ==
    /\ alertSet = [enabled |-> on, enabledAt |-> IF on THEN 0 ELSE None, gen |-> 1,
                   events |-> AlertEvents]
    /\ alertBinding = [t \in Targets |->
                        [enabled |-> on, enabledAt |-> IF on THEN 0 ELSE None,
                         gen |-> IF on THEN 1 ELSE 0]]
    /\ incident = [n \in Incidents |-> "none"]
    /\ alertDisp = [w \in AlertWorkers |-> NotSending]

PendingAlerts ==
    {k \in DOMAIN rows : rows[k].kind = "alert" /\ rows[k].status = "pending"}

\* upsert_settings with target_ids: the switch, the events and the bindings
\* are stored together.  A change of the first two fails every pending alert,
\* a dropped binding the pending alerts of its target.
SetAlerts(on, events, S) ==
    LET changed == on # alertSet.enabled \/ events # alertSet.events
        dropped == {t \in Targets \ S : alertBinding[t].enabled}
    IN
    /\ changed \/ S # {t \in Targets : alertBinding[t].enabled}
    /\ \A t \in S : target[t].state = "live"
    /\ Tick
    /\ alertSet' = [enabled |-> on, events |-> events,
                    enabledAt |-> IF ~on THEN None
                                  ELSE IF alertSet.enabled THEN alertSet.enabledAt ELSE Now,
                    gen |-> IF changed THEN alertSet.gen + 1 ELSE alertSet.gen]
    /\ alertBinding' = [t \in Targets |->
                    IF t \in S /\ ~alertBinding[t].enabled
                    THEN [enabled |-> TRUE, enabledAt |-> Now, gen |-> alertBinding[t].gen + 1]
                    ELSE IF t \in dropped
                    THEN [alertBinding[t] EXCEPT !.enabled = FALSE, !.gen = @ + 1]
                    ELSE alertBinding[t]]
    /\ rows' = FailRows(IF changed THEN PendingAlerts
                        ELSE UNION {TargetRows(t, {"alert"}) : t \in dropped})
    /\ UNCHANGED <<targetVars, incident, alertDisp>>

-----------------------------------------------------------------------------
(* Incidents.                                                              *)

After(at, w) == w # None /\ at > w

\* _stage_delivery, for the targets a notice of this event goes to.
AlertStageable(event, t, at) ==
    /\ alertSet.enabled /\ event \in alertSet.events
    /\ alertBinding[t].enabled
    /\ After(at, alertSet.enabledAt)
    /\ After(at, target[t].enabledAt)
    /\ After(at, alertBinding[t].enabledAt)
    /\ TargetAvailable(t, target[t])

AlertRow(t, at) ==
    [kind |-> "alert", target |-> t, status |-> "pending",
     account |-> alertSet.gen, binding |-> alertBinding[t].gen,
     cfg |-> target[t].cfg, act |-> target[t].act,
     at |-> at, published |-> at, attempts |-> 0, maybe |-> 0,
     waiting |-> FALSE, wanted |-> target[t].digest]

StageAlerts(event, n, allowed, at) ==
    LET new == {<<event, n, t>> : t \in {t \in allowed : AlertStageable(event, t, at)}}
               \ DOMAIN rows
    IN [k \in DOMAIN rows \cup new |->
            IF k \in DOMAIN rows THEN rows[k] ELSE AlertRow(k[3], at)]

\* open_incident: an open incident of the condition is only touched.  The
\* caller may have seen the condition a little earlier.
OpenIncident(n) ==
    /\ incident[n] = "none"
    /\ \A m \in Incidents : incident[m] # "open"
    /\ Tick
    /\ incident' = [incident EXCEPT ![n] = "open"]
    /\ \E at \in {clock, Now} : rows' = StageAlerts("opened", n, Targets, at)
    /\ UNCHANGED <<targetVars, alertSet, alertBinding, alertDisp>>

\* resolve_incident: the recovery goes to the targets that have a row of the
\* opening, whatever became of it.
ResolveIncident(n) ==
    /\ incident[n] = "open"
    /\ Tick
    /\ incident' = [incident EXCEPT ![n] = "resolved"]
    /\ rows' = StageAlerts("recovered", n,
                           {t \in Targets : <<"opened", n, t>> \in DOMAIN rows}, Now)
    /\ UNCHANGED <<targetVars, alertSet, alertBinding, alertDisp>>

-----------------------------------------------------------------------------
(* Dispatch.                                                               *)

\* _target_delivery_preflight_error is None
AlertCurrent(k) ==
    LET r == rows[k]
        t == r.target
    IN
    /\ alertSet.enabled /\ k[1] \in alertSet.events
    /\ alertBinding[t].enabled
    /\ TargetAvailable(t, target[t])
    /\ r.account = alertSet.gen
    /\ r.cfg = target[t].cfg
    /\ r.act = target[t].act
    /\ r.binding = alertBinding[t].gen
    /\ After(r.at, alertSet.enabledAt)
    /\ After(r.at, target[t].enabledAt)
    /\ After(r.at, alertBinding[t].enabledAt)

\* _claim_next_delivery: the oldest one that is due; it is failed or claimed.
ClaimAlert(w) ==
    LET due == {k \in PendingAlerts : ~rows[k].waiting} IN
    /\ alertDisp[w].pc = "idle"
    /\ \E k \in due :
        /\ \A j \in due : rows[k].at <= rows[j].at
        /\ IF AlertCurrent(k)
           THEN /\ rows' = [rows EXCEPT ![k].status = "sending", ![k].attempts = @ + 1]
                /\ alertDisp' = [alertDisp EXCEPT ![w] =
                      [pc |-> "send", key |-> k, digest |-> target[rows[k].target].digest,
                       attempts |-> rows[k].attempts + 1]]
           ELSE /\ rows' = [rows EXCEPT ![k].status = "failed"]
                /\ UNCHANGED alertDisp
    /\ UNCHANGED <<targetVars, clock, alertSet, alertBinding, incident>>

\* Fault: the destination is read when the alert is sent.
SendAlertLate(w) ==
    LET k == alertDisp[w].key IN
    /\ alertDisp[w].pc = "send"
    /\ IF TransportReady(target[rows[k].target].channel)
       THEN /\ rows' = [rows EXCEPT ![k].maybe = @ + 1]
            /\ alertDisp' = [alertDisp EXCEPT ![w].pc = "sent",
                                              ![w].digest = target[rows[k].target].digest]
       ELSE /\ rows' = SetStatus({k}, "failed")
            /\ alertDisp' = [alertDisp EXCEPT ![w] = NotSending]
    /\ UNCHANGED <<targetVars, clock, alertSet, alertBinding, incident>>

\* _send_payload: only the workspace transport is looked at again.  Without a
\* ready one nothing is sent; mail reports that as an unknown outcome.
SendAlert(w) ==
    LET k == alertDisp[w].key IN
    /\ alertDisp[w].pc = "send"
    /\ IF TransportReady(target[rows[k].target].channel)
       THEN /\ rows' = [rows EXCEPT ![k].maybe = @ + 1]
            /\ alertDisp' = [alertDisp EXCEPT ![w].pc = "sent"]
       ELSE /\ rows' = IF target[rows[k].target].channel = "email"
                       THEN rows                    \* reported as outcome unknown
                       ELSE SetStatus({k}, "failed")
            /\ alertDisp' = [alertDisp EXCEPT ![w] = NotSending]
    /\ UNCHANGED <<targetVars, clock, alertSet, alertBinding, incident>>

\* Fault: an unknown outcome is tried again.
AnswerAlertRetry(w, outcome) ==
    LET k == alertDisp[w].key IN
    /\ alertDisp[w].pc = "sent"
    /\ outcome = "retry" => target[rows[k].target].channel # "email"
    /\ rows' = CASE outcome = "succeeded" -> SetStatus({k}, "succeeded")
                 [] outcome = "failed" -> Refused({k}, "failed", FALSE)
                 [] outcome \in {"retry", "unknown"} ->
                        IF alertDisp[w].attempts < MAX_DELIVERY_ATTEMPTS
                        THEN SetStatus({k}, "pending")
                        ELSE Refused({k}, "failed", FALSE)
    /\ alertDisp' = [alertDisp EXCEPT ![w] = NotSending]
    /\ UNCHANGED <<targetVars, clock, alertSet, alertBinding, incident>>

\* dispatch_pending, with the answer: accepted, refused for good, refused for
\* now (mail never is), or unknown, which leaves the row in 'sending'.
AnswerAlert(w, outcome) ==
    LET k == alertDisp[w].key IN
    /\ alertDisp[w].pc = "sent"
    /\ outcome = "retry" => target[rows[k].target].channel # "email"
    /\ rows' = CASE outcome = "unknown" -> rows
                 [] outcome = "succeeded" -> SetStatus({k}, "succeeded")
                 [] outcome = "failed" -> Refused({k}, "failed", FALSE)
                 [] outcome = "retry" ->
                        IF alertDisp[w].attempts < MAX_DELIVERY_ATTEMPTS
                        THEN Refused({k}, "pending", TRUE)
                        ELSE Refused({k}, "failed", FALSE)
    /\ alertDisp' = [alertDisp EXCEPT ![w] = NotSending]
    /\ UNCHANGED <<targetVars, clock, alertSet, alertBinding, incident>>

AlertOutcomes == {"succeeded", "failed", "retry", "unknown"}

\* retry_at has passed.
RetryDue(k) ==
    /\ k \in PendingAlerts /\ rows[k].waiting
    /\ rows' = [rows EXCEPT ![k].waiting = FALSE]
    /\ UNCHANGED <<targetVars, clock, alertVars>>

CrashAlert(w) ==
    /\ alertDisp[w].pc # "idle"
    /\ alertDisp' = [alertDisp EXCEPT ![w] = NotSending]
    /\ UNCHANGED <<targetVars, rows, clock, alertSet, alertBinding, incident>>
=============================================================================
