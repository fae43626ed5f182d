--------------------------- MODULE DeliveryLedger ---------------------------
(***************************************************************************)
(* What an outbox promises of its messages, whoever sends them and however *)
(* often processes die: a message is announced once, is taken by one       *)
(* sender at a time, goes out again only after the receiver certainly      *)
(* refused it, and is taken up in the end.                                 *)
(*                                                                         *)
(* `maybe' is the number of transmissions of a message that the receiver   *)
(* may have accepted.                                                      *)
(***************************************************************************)
EXTENDS Naturals

CONSTANTS Keys, MaxTries

VARIABLE ledger

Unknown == [status |-> "none", tries |-> 0, maybe |-> 0]

LedgerInit == ledger = [k \in Keys |-> Unknown]

\* The messages K, all in a state of From, move as f says.
Move(K, From, f(_)) ==
    /\ \A k \in K : ledger[k].status \in From
    /\ ledger' = [k \in Keys |-> IF k \in K THEN f(ledger[k]) ELSE ledger[k]]

Announce(K) == LET f(r) == [r EXCEPT !.status = "pending"] IN Move(K, {"none"}, f)

\* Given up before a transmission.
GiveUp(K) ==
    /\ \A k \in K : ledger[k].maybe = 0
    /\ LET f(r) == [r EXCEPT !.status = "failed"] IN Move(K, {"pending", "sending"}, f)

Take(K) ==
    /\ \A k \in K : ledger[k].tries < MaxTries
    /\ LET f(r) == [r EXCEPT !.status = "sending", !.tries = @ + 1]
       IN Move(K, {"pending"}, f)

\* The only transmission that may have been accepted.
Transmit(K) ==
    /\ \A k \in K : ledger[k].maybe = 0
    /\ LET f(r) == [r EXCEPT !.maybe = 1] IN Move(K, {"sending"}, f)

Accept(K) ==
    /\ \A k \in K : ledger[k].maybe = 1
    /\ LET f(r) == [r EXCEPT !.status = "succeeded"] IN Move(K, {"sending"}, f)

\* Refused: given up, or to be tried again.
Refuse(K, st) ==
    /\ \A k \in K : ledger[k].maybe = 1
    /\ LET f(r) == [r EXCEPT !.status = st, !.maybe = 0] IN Move(K, {"sending"}, f)

LedgerNext ==
    \E K \in SUBSET Keys :
        \/ Announce(K) \/ GiveUp(K) \/ Take(K) \/ Transmit(K) \/ Accept(K)
        \/ \E st \in {"failed", "pending"} : Refuse(K, st)

LedgerSpec == LedgerInit /\ [][LedgerNext]_ledger

TakenUp == \A k \in Keys : (ledger[k].status = "pending") ~> (ledger[k].status # "pending")
=============================================================================
