------------------------- MODULE SourceAcquisition -------------------------
(***************************************************************************)
(* Shared acquisition of one public catalog source                         *)
(* (src/services/source_acquisition.py): the jobs of several users fetch   *)
(* the source at most once and share the neutral content.  A private       *)
(* source has rows of its own for each user and is another instance.       *)
(*                                                                         *)
(* An acquisition key covers the window and the identity of the source:    *)
(* its network configuration and, for a source fetched through a paid      *)
(* route, the generations of the Key pool and of the route and the version *)
(* of the binding.  The digest of the identity is config_fingerprint.      *)
(*                                                                         *)
(* lock, retry and fresh are ticks left until locked_until, retry_after    *)
(* and fresh_until (0: passed).                                            *)
(*                                                                         *)
(* pc of a client, the coordinator of one job:                             *)
(*   idle      no job                                                      *)
(*   loaded    the job has built its configuration                         *)
(*   looking   in acquire, about to look for a fresh snapshot              *)
(*   claiming  none was found, about to claim                              *)
(*   fetching  claim won, upstream call under way                          *)
(*   storing   fetched, about to publish in the cache                      *)
(*   failing   something raised, about to record it                        *)
(***************************************************************************)
EXTENDS Integers, FiniteSets

CONSTANTS
    Clients,      \* coordinators, one per running job
    Windows,      \* values of window_hours
    Kinds,        \* which calls are made: acquire ("content"), run_probe ("probe")
    Changes,      \* bound: parts of the identity that change
    MaxVersion,   \* bound: how often each of them changes
    Paid,         \* is the source fetched through a paid route?
    Tokens, NoToken,
    Lease,        \* lease_seconds, in ticks
    Ttls,         \* freshness the schedules may give a snapshot, in ticks
    WaitTicks,    \* wait_seconds, in ticks
    BackoffBase, BackoffCap,   \* failure back-off and its limit, in ticks
    MaxFailures,  \* bound: failure_count saturates here
    NoKey

Parts    == {"cfg", "pool", "route", "binding"}
Versions == {v \in [Parts -> 0 .. MaxVersion] : \A p \in Parts \ Changes : v[p] = 0}

\* A probe (source_test) has a key of its own, derived from the one-hour key.
Keys == {k \in [kind : Kinds, window : Windows \cup {1}, id : Versions] :
            k.window \in IF k.kind = "probe" THEN {1} ELSE Windows}

\* min(base * 2 ** (failure_count - 1), 300)
Backoff(n) ==
    IF BackoffBase * 2^(n - 1) < BackoffCap THEN BackoffBase * 2^(n - 1)
                                            ELSE BackoffCap

ASSUME AcquisitionAssumption ==
    /\ Changes \subseteq Parts
    /\ Kinds \subseteq {"content", "probe"}
    /\ Paid \in BOOLEAN
    /\ ~Paid => Changes \subseteq {"cfg"}
    /\ Windows \subseteq Nat \ {0}
    /\ MaxVersion \in Nat
    /\ Lease \in Nat \ {0}
    /\ Ttls \subseteq Nat \ {0}
    /\ WaitTicks \in Nat
    /\ MaxFailures \in Nat \ {0}
    /\ NoToken \notin Tokens
    /\ NoKey \notin Keys

ASSUME CoolingAssumption == \A n \in 1 .. MaxFailures : Backoff(n) \in Nat

VARIABLES
    current,   \* the identity of the source now
    rows,      \* source_acquisition_states, by acquisition_key
    snaps,     \* the latest source_content_snapshots row, by acquisition_key
    pc,
    loaded,    \* configuration version the job was built with
    ctx,       \* the context acquire computed
    pub,       \* the context it publishes under, and how the result was got
    token,     \* its claim_token
    patience   \* ticks left to its deadline

tables == <<rows, snaps>>
locals == <<loaded, ctx, pub, token, patience>>
vars   == <<current, tables, pc, locals>>

PCs     == {"idle", "loaded", "looking", "claiming", "fetching", "storing", "failing"}
Origins == {"native", "actor", "proved"}
NoRow   == [there |-> FALSE, token |-> NoToken, lock |-> 0, retry |-> 0, failures |-> 0]
Idle    == [there |-> TRUE, token |-> NoToken, lock |-> 0, retry |-> 0, failures |-> 0]
NoSnap  == [fresh |-> 0, cfg |-> 0, pool |-> 0]
NoPub   == [key |-> NoKey, origin |-> "native"]

Row  == [there : BOOLEAN, token : Tokens \cup {NoToken}, lock : Nat, retry : Nat,
         failures : 0 .. MaxFailures]
Snap == [fresh : Nat, cfg : Nat, pool : Nat]

AcquisitionTypeOK ==
    /\ current \in Versions
    /\ rows \in [Keys -> Row]
    /\ snaps \in [Keys -> Snap]
    /\ pc \in [Clients -> PCs]
    /\ loaded \in [Clients -> Nat]
    /\ ctx \in [Clients -> Keys \cup {NoKey}]
    /\ pub \in [Clients -> [key : Keys \cup {NoKey}, origin : Origins]]
    /\ token \in [Clients -> Tokens \cup {NoToken}]
    /\ patience \in [Clients -> Nat]

-----------------------------------------------------------------------------
(* Conditions.                                                              *)

Fresh(k) == snaps[k].fresh > 0

Live(k) == rows[k].token # NoToken /\ rows[k].lock > 0

\* Fault: only the claim of the same key is seen.
ClaimedKey(k) == Live(k)

\* A live claim for the same fingerprint, whatever its window, probe or not.
Claimed(k) == \E l \in Keys : l.id = k.id /\ Live(l)

Owns(c) == ctx[c] \in Keys /\ token[c] # NoToken /\ rows[ctx[c]].token = token[c]

FreshToken(t) ==
    /\ t \in Tokens
    /\ \A k \in Keys : rows[k].token # t
    /\ \A c \in Clients : token[c] # t

\* _assert_context_current: a proof is checked against the binding only, a
\* paid result without proof against all generations, a native one against
\* nothing.
ContextCurrent(p) ==
    CASE p.origin = "proved" -> p.key.id["binding"] = current["binding"]
      [] p.origin = "actor"  -> \A g \in Parts \ {"cfg"} : p.key.id[g] = current[g]
      [] OTHER               -> TRUE

\* Fault: the row of the key the claim is moved to is not looked for.
MovableAnyway(c) == TRUE

\* A claim moves to the key of the new generation unless that key has a row.
Movable(c) == pub[c].key = ctx[c] \/ ~rows[pub[c].key].there

-----------------------------------------------------------------------------
(* A job.                                                                   *)

Goto(c, p) == pc' = [pc EXCEPT ![c] = p]

\* Back to the job, which may acquire again.
Leave(c) ==
    /\ Goto(c, "loaded")
    /\ ctx' = [ctx EXCEPT ![c] = NoKey]
    /\ pub' = [pub EXCEPT ![c] = NoPub]
    /\ token' = [token EXCEPT ![c] = NoToken]
    /\ patience' = [patience EXCEPT ![c] = 0]
    /\ UNCHANGED loaded

\* The job builds its configuration from the catalog.
StartJob(c) ==
    /\ pc[c] = "idle"
    /\ Goto(c, "loaded")
    /\ loaded' = [loaded EXCEPT ![c] = current["cfg"]]
    /\ UNCHANGED <<current, tables, ctx, pub, token, patience>>

\* _context: the catalog and the route are read again.
BeginAcquire(c, k) ==
    /\ pc[c] = "loaded"
    /\ k.id = current
    /\ Goto(c, IF k.kind = "probe" THEN "claiming" ELSE "looking")
    /\ ctx' = [ctx EXCEPT ![c] = k]
    /\ patience' = [patience EXCEPT ![c] = WaitTicks]
    /\ UNCHANGED <<current, tables, loaded, pub, token>>

_load_fresh(c) ==
    /\ pc[c] = "looking"
    /\ Fresh(ctx[c])
    /\ Leave(c)
    /\ UNCHANGED <<current, tables>>

NothingFresh(c) ==
    /\ pc[c] = "looking"
    /\ ~Fresh(ctx[c])
    /\ Goto(c, "claiming")
    /\ UNCHANGED <<current, tables, locals>>

\* Look again: from the snapshot, or from the claim in a probe.
Again(c) ==
    /\ Goto(c, IF ctx[c].kind = "probe" THEN "claiming" ELSE "looking")
    /\ UNCHANGED locals

\* Fault: the snapshot is not looked for again under the write lock.
MustWaitClaimed(c) == pc[c] = "claiming" /\ Claimed(ctx[c])

\* "cached", or somebody else has a live claim.
MustWait(c) ==
    /\ pc[c] = "claiming"
    /\ Fresh(ctx[c]) \/ Claimed(ctx[c])

\* Fault: the deadline is not tested.
WaitForEver(c) ==
    /\ MustWait(c)
    /\ Again(c)
    /\ UNCHANGED <<current, tables>>

\* AcquisitionBusyError once the deadline has passed.
Wait(c) ==
    /\ MustWait(c)
    /\ IF patience[c] = 0 /\ (~Fresh(ctx[c]) \/ ctx[c].kind = "probe")
       THEN Leave(c) ELSE Again(c)
    /\ UNCHANGED <<current, tables>>

\* AcquisitionBackoffError
BackOff(c) ==
    /\ pc[c] = "claiming"
    /\ ~MustWait(c)
    /\ rows[ctx[c]].retry > 0
    /\ Leave(c)
    /\ UNCHANGED <<current, tables>>

\* The upsert keeps failure_count.
ClaimedRow(r, t) == [there |-> TRUE, token |-> t, lock |-> Lease, retry |-> 0,
                     failures |-> r.failures]

_try_claim(c) ==
    /\ pc[c] = "claiming"
    /\ ~MustWait(c)
    /\ rows[ctx[c]].retry = 0
    /\ \E t \in Tokens :
          /\ FreshToken(t)
          /\ t = CHOOSE u \in Tokens : FreshToken(u)
          /\ rows' = [rows EXCEPT ![ctx[c]] = ClaimedRow(@, t)]
          /\ token' = [token EXCEPT ![c] = t]
    /\ Goto(c, "fetching")
    /\ UNCHANGED <<current, snaps, loaded, ctx, pub, patience>>

\* The upstream call returns.  A result with a proof of the route service is
\* published under the identity of this moment, the others under the one the
\* claim was made for.
FetchReturns(c, origin) ==
    /\ pc[c] = "fetching" /\ ctx[c].kind = "content"
    /\ ~Paid => origin = "native"
    /\ pub' = [pub EXCEPT ![c] =
                 [key |-> IF origin = "proved" THEN [ctx[c] EXCEPT !.id = current]
                                               ELSE ctx[c],
                  origin |-> origin]]
    /\ Goto(c, "storing")
    /\ UNCHANGED <<current, tables, loaded, ctx, token, patience>>

\* ... or raises; the check of the proof included.
FetchFails(c) ==
    /\ pc[c] = "fetching" /\ ctx[c].kind = "content"
    /\ Goto(c, "failing")
    /\ UNCHANGED <<current, tables, locals>>

\* Fault: the claim token is not compared.
StorableAnyway(c) == ContextCurrent(pub[c]) /\ Movable(c)

Storable(c) == ContextCurrent(pub[c]) /\ Owns(c) /\ Movable(c)

\* The claim is moved if its key changed, the snapshot written, the claim
\* released: one transaction.  locked_until is not looked at.
_store_success(c) ==
    /\ pc[c] = "storing"
    /\ Storable(c)
    /\ rows' = [rows EXCEPT ![ctx[c]] = NoRow, ![pub[c].key] = Idle]
    /\ \E ttl \in Ttls :
          snaps' = [snaps EXCEPT ![pub[c].key] =
                      [fresh |-> ttl, cfg |-> loaded[c], pool |-> ctx[c].id["pool"]]]
    /\ Leave(c)
    /\ UNCHANGED current

\* Not storable, or another reason to give the result up: the binding is not
\* ready, the candidate not runnable, the database busy.
StoreFails(c) ==
    /\ pc[c] = "storing"
    /\ Goto(c, "failing")
    /\ UNCHANGED <<current, tables, locals>>

Failed(r) ==
    LET n == IF r.failures < MaxFailures THEN r.failures + 1 ELSE MaxFailures
    IN [there |-> TRUE, token |-> NoToken, lock |-> 0, retry |-> Backoff(n), failures |-> n]

\* Nothing is written when the claim was lost.
_record_failure(c) ==
    /\ pc[c] = "failing"
    /\ rows' = IF Owns(c) THEN [rows EXCEPT ![ctx[c]] = Failed(@)] ELSE rows
    /\ Leave(c)
    /\ UNCHANGED <<current, snaps>>

\* A probe ends, with or without an exception: no content, no back-off.
_release_probe(c) ==
    /\ pc[c] = "fetching" /\ ctx[c].kind = "probe"
    /\ rows' = IF Owns(c) THEN [rows EXCEPT ![ctx[c]] = Idle] ELSE rows
    /\ Leave(c)
    /\ UNCHANGED <<current, snaps>>

\* The job ends, or its process dies and leaves the claim behind.
EndJob(c) ==
    /\ pc[c] # "idle"
    /\ Goto(c, "idle")
    /\ loaded' = [loaded EXCEPT ![c] = 0]
    /\ ctx' = [ctx EXCEPT ![c] = NoKey]
    /\ pub' = [pub EXCEPT ![c] = NoPub]
    /\ token' = [token EXCEPT ![c] = NoToken]
    /\ patience' = [patience EXCEPT ![c] = 0]
    /\ UNCHANGED <<current, tables>>

-----------------------------------------------------------------------------
(* The source changes; time passes.                                         *)

ChangeSource(p) ==
    /\ p \in Changes
    /\ current[p] < MaxVersion
    /\ current' = [current EXCEPT ![p] = @ + 1]
    /\ UNCHANGED <<tables, pc, locals>>

Less(n) == IF n > 0 THEN n - 1 ELSE 0

TimersRunning ==
    \/ \E k \in Keys : rows[k].lock > 0 \/ rows[k].retry > 0 \/ Fresh(k)
    \/ \E c \in Clients : patience[c] > 0

Time ==
    /\ TimersRunning
    /\ rows' = [k \in Keys |-> [rows[k] EXCEPT !.lock = Less(@), !.retry = Less(@)]]
    /\ snaps' = [k \in Keys |-> [snaps[k] EXCEPT !.fresh = Less(@)]]
    /\ patience' = [c \in Clients |-> Less(patience[c])]
    /\ UNCHANGED <<current, pc, loaded, ctx, pub, token>>

Init ==
    /\ current = [p \in Parts |-> 0]
    /\ rows = [k \in Keys |-> NoRow]
    /\ snaps = [k \in Keys |-> NoSnap]
    /\ pc = [c \in Clients |-> "idle"]
    /\ loaded = [c \in Clients |-> 0]
    /\ ctx = [c \in Clients |-> NoKey]
    /\ pub = [c \in Clients |-> NoPub]
    /\ token = [c \in Clients |-> NoToken]
    /\ patience = [c \in Clients |-> 0]

\* What acquire and run_probe do next.
Acquire(c) ==
    \/ _load_fresh(c) \/ NothingFresh(c)
    \/ Wait(c) \/ BackOff(c) \/ _try_claim(c)
    \/ \E origin \in Origins : FetchReturns(c, origin)
    \/ FetchFails(c)
    \/ _store_success(c) \/ StoreFails(c) \/ _record_failure(c)
    \/ _release_probe(c)

Next ==
    \/ \E c \in Clients : \/ StartJob(c) \/ EndJob(c)
                          \/ \E k \in Keys : BeginAcquire(c, k)
                          \/ Acquire(c)
    \/ \E p \in Parts : ChangeSource(p)
    \/ Time

Spec == Init /\ [][Next]_vars

\* acquire goes on step by step, the upstream call has a time limit and time
\* passes.  A snapshot stays fresh for minutes and "cached" leads straight to
\* _load_fresh, so that read does not come too late for ever.  Nothing is
\* assumed of jobs, crashes or changes of the source.
Fairness ==
    /\ \A c \in Clients : WF_vars(Acquire(c)) /\ SF_vars(_load_fresh(c))
    /\ WF_vars(Time)

FairSpec == Spec /\ Fairness

-----------------------------------------------------------------------------
(* Properties.                                                              *)

\* Never two upstream calls for one configuration of the source under live
\* claims: not for the same window, not for different ones, not for a fetch
\* and a test, and not after a claim was moved to a new generation.
SingleFlight ==
    LET Flying(c) == pc[c] \in {"fetching", "storing"} /\ Owns(c) /\ Live(ctx[c])
    IN \A c, d \in Clients :
          Flying(c) /\ Flying(d) /\ ctx[c].id = ctx[d].id => c = d

\* While a snapshot is fresh nobody has a claim on its key, so nobody fetches
\* it a second time, although results arrive late, claims are left behind by
\* dead jobs and others are moved to the key.
FreshMeansQuiet == \A k \in Keys : Fresh(k) => rows[k].token = NoToken

\* A result is never published over a fresh snapshot of its key: not the late
\* one of a job whose claim was taken over, and not the one of an older
\* generation that is moved to a key others have acquired meanwhile.
PublishesOnce ==
    [][\A c \in Clients : _store_success(c) => ~Fresh(pub[c].key)]_vars

\* A job that waits for another's claim, or for its own, does not wait for
\* ever: it gets the content, claims, or is told that the source is busy.
AcquireEnds ==
    \A c \in Clients :
        pc[c] \in {"looking", "claiming"} ~> pc[c] \notin {"looking", "claiming"}

-----------------------------------------------------------------------------
(* Statements of the repository's contracts that the code does not keep.    *)

\* docs/contracts/architecture/feed-storage-tenancy.md:36: the key covers the
\* network configuration, so a snapshot was fetched with the configuration of
\* its key.  The job fetches with the configuration it was built with and
\* files the result under the one acquire reads afterwards.
SnapshotOfItsConfig == \A k \in Keys : Fresh(k) => snaps[k].cfg = k.id["cfg"]

\* docs/contracts/api/service-secrets-source-jobs.md:84: the owner reads the
\* pool generation again before it publishes and gives the result up when it
\* changed.  A result with a proof is published under the new generation.
SnapshotOfItsPool == \A k \in Keys : Fresh(k) => snaps[k].pool = k.id["pool"]

-----------------------------------------------------------------------------
(* The inductive invariant behind the safety properties.                    *)

\* Only a client that fetches has a token, no two have the same, and a row
\* with its token is the row of its context.
ClaimOK ==
    /\ \A c \in Clients : pc[c] \notin {"idle", "loaded"} => ctx[c] \in Keys
    /\ \A c \in Clients : pc[c] = "storing" => pub[c].key \in Keys
    /\ \A c \in Clients :
          pc[c] \notin {"fetching", "storing", "failing"} => token[c] = NoToken
    /\ \A c, d \in Clients : token[c] = token[d] /\ token[c] # NoToken => c = d
    /\ \A c \in Clients, k \in Keys :
          token[c] # NoToken /\ rows[k].token = token[c] => ctx[c] = k

\* One live claim per fingerprint; no claim on a fresh key; a key without a
\* row has neither a claim nor a fresh snapshot.
RowsOK ==
    /\ \A k, l \in Keys : Live(k) /\ Live(l) /\ k.id = l.id => k = l
    /\ FreshMeansQuiet
    /\ \A k \in Keys : ~rows[k].there => rows[k].token = NoToken /\ ~Fresh(k)

AcquisitionInv == AcquisitionTypeOK /\ ClaimOK /\ RowsOK
=============================================================================
