---------------------------- MODULE StripeWebhook ----------------------------
(***************************************************************************)
(* The Stripe webhook (apps/web/src/app/api/stripe/webhook/route.ts): how  *)
(* an event that Stripe delivers at least once is applied although the     *)
(* database fails and processes die.                                       *)
(*                                                                         *)
(* A delivery claims the event by inserting a row into stripeEvents (the   *)
(* marker) before it processes it.  Each database statement is one action: *)
(* they are not in one transaction.  What an event's handler does is one   *)
(* transaction; credit funding is keyed by the stripeRef (credit_ledger),  *)
(* so applying it twice is applying it once (CreditLedger models it).      *)
(*                                                                         *)
(* A failed statement, and a death of the process, is a fault; the number  *)
(* of faults is a parameter.                                               *)
(***************************************************************************)
EXTENDS Integers

CONSTANTS
    Events,          \* Stripe events sent to this endpoint
    Funding,         \* those that fund credits: invoice.paid, checkout.session.completed
    Workers,         \* deliveries being handled at the same time
    Lease,           \* DEFAULT_LEASE_MS
    MaxFaults,       \* how many faults happen in all
    CleanupMayFail,  \* the deletion of a marker may be one of them
    MaxClock         \* bound: the clock stops here

ASSUME WebhookAssumption ==
    /\ Funding \subseteq Events
    /\ Lease \in Nat \ {0} /\ MaxFaults \in Nat /\ MaxClock \in Nat
    /\ CleanupMayFail \in BOOLEAN

VARIABLES
    marker,   \* the stripeEvents rows: createdAt, and whether processedAt is set
    applied,  \* events whose handler has taken effect
    worker,   \* the deliveries in progress
    acked,    \* events Stripe has got a 200 for
    clock,
    faults    \* faults so far

vars == <<marker, applied, worker, acked, clock, faults>>

NoMarker == [present |-> FALSE, processed |-> FALSE, createdAt |-> 0]

\* claim: the createdAt this delivery wrote when it claimed the event.
Idle == [pc |-> "idle", events |-> {}, now |-> 0, claim |-> 0]

Init ==
    /\ marker = [e \in Events |-> NoMarker]
    /\ applied = {} /\ acked = {}
    /\ worker = [w \in Workers |-> Idle]
    /\ clock = 0 /\ faults = 0

At(w, e, pc)  == worker[w].pc = pc /\ e \in worker[w].events
Goto(w, pc)   == worker' = [worker EXCEPT ![w].pc = pc]
Claimed(w, t) == worker' = [worker EXCEPT ![w].pc = "handle", ![w].claim = t]
Respond(w)    == worker' = [worker EXCEPT ![w] = Idle]

\* Bound: no fault so late that the clock stops before the lease runs out.
Fault ==
    /\ faults < MaxFaults /\ clock + Lease <= MaxClock
    /\ faults' = faults + 1

\* Stripe sends the event, for the first time or again (also when it has an
\* answer already: delivery is at least once).
Receive(w, e) ==
    /\ worker[w].pc = "idle"
    /\ worker' = [worker EXCEPT ![w] = [pc |-> "insert", events |-> {e},
                                        now |-> clock, claim |-> 0]]
    /\ UNCHANGED <<marker, applied, acked, clock, faults>>

\* Claim the event: insert its marker unless there is one.
InsertMarker(w, e) ==
    /\ At(w, e, "insert")
    /\ \/ /\ ~ marker[e].present
          /\ marker' = [marker EXCEPT ![e] =
                 [present |-> TRUE, processed |-> FALSE, createdAt |-> clock]]
          /\ Claimed(w, clock)
          /\ UNCHANGED faults
       \/ /\ marker[e].present
          /\ Goto(w, "inspect")
          /\ UNCHANGED <<marker, faults>>
       \/ /\ Fault                          \* 500, Stripe redelivers
          /\ Respond(w)
          /\ UNCHANGED marker
    /\ UNCHANGED <<applied, acked, clock>>

\* A marker is there (or was: it may be deleted by now): acknowledge a finished
\* event, take an abandoned one over, have Stripe retry one in flight.
Abandoned(e, now) ==
    marker[e].present /\ ~ marker[e].processed /\ now - marker[e].createdAt >= Lease

Inspect(w, e) ==
    /\ At(w, e, "inspect")
    /\ \/ /\ marker[e].present /\ marker[e].processed
          /\ acked' = acked \cup {e}
          /\ Respond(w)
          /\ UNCHANGED faults
       \/ /\ Abandoned(e, worker[w].now)
          /\ Goto(w, "reclaim")
          /\ UNCHANGED <<acked, faults>>
       \/ /\ ~ (marker[e].present /\ marker[e].processed)
          /\ ~ Abandoned(e, worker[w].now)
          /\ Respond(w)
          /\ UNCHANGED <<acked, faults>>
       \/ /\ Fault
          /\ Respond(w)
          /\ UNCHANGED acked
    /\ UNCHANGED <<marker, applied, clock>>

\* Mutant of Reclaim: the UPDATE does not look at the marker again.
ReclaimUnguarded(w, e) ==
    /\ At(w, e, "reclaim")
    /\ marker' = [marker EXCEPT ![e].createdAt = worker[w].now]
    /\ Claimed(w, worker[w].now)
    /\ UNCHANGED <<applied, acked, clock, faults>>

\* The takeover is one guarded UPDATE, so that one redelivery wins.
Reclaim(w, e) ==
    /\ At(w, e, "reclaim")
    /\ \/ /\ Abandoned(e, worker[w].now)
          /\ marker' = [marker EXCEPT ![e].createdAt = worker[w].now]
          /\ Claimed(w, worker[w].now)
          /\ UNCHANGED faults
       \/ /\ ~ Abandoned(e, worker[w].now)
          /\ Respond(w)
          /\ UNCHANGED <<marker, faults>>
       \/ /\ Fault
          /\ Respond(w)
          /\ UNCHANGED marker
    /\ UNCHANGED <<applied, acked, clock>>

\* Run the event's handlers.  An error may come before or after the effect has
\* committed; a funding event's error first deletes the marker.
Handle(w, e) ==
    /\ At(w, e, "handle")
    /\ \/ /\ applied' = applied \cup {e}
          /\ Goto(w, "finish")
          /\ UNCHANGED faults
       \/ /\ Fault
          /\ applied' \in {applied, applied \cup {e}}
          /\ Goto(w, IF e \in Funding THEN "cleanup" ELSE "fail")
    /\ UNCHANGED <<marker, acked, clock>>

\* Mutant of Cleanup: the marker of a funding event that failed stays.
CleanupForgotten(w, e) ==
    /\ At(w, e, "cleanup")
    /\ Goto(w, "fail")
    /\ UNCHANGED <<marker, applied, acked, clock, faults>>

\* withFundingRetry: delete the event's marker, whoever has inserted it.
Cleanup(w, e) ==
    /\ At(w, e, "cleanup")
    /\ \/ /\ marker' = [marker EXCEPT ![e] = NoMarker]
          /\ UNCHANGED faults
       \/ CleanupMayFail /\ Fault /\ UNCHANGED marker
    /\ Goto(w, "fail")
    /\ UNCHANGED <<applied, acked, clock>>

\* Mutant of SetProcessed: an upsert instead of an UPDATE.
UpsertProcessed(e) == marker' = [marker EXCEPT ![e].processed = TRUE]

\* Set processedAt on the event's marker, if it has one.
SetProcessed(e) ==
    marker' = [marker EXCEPT ![e].processed = marker[e].present]

\* Processing failed: the marker is marked as processed, with the error, and
\* the answer is 500.
Fail(w, e) ==
    /\ At(w, e, "fail")
    /\ \/ SetProcessed(e) /\ UNCHANGED faults
       \/ Fault /\ UNCHANGED marker
    /\ Respond(w)
    /\ UNCHANGED <<applied, acked, clock>>

\* Processing succeeded: mark the event and answer 200.
Finish(w, e) ==
    /\ At(w, e, "finish")
    /\ \/ /\ SetProcessed(e)
          /\ acked' = acked \cup {e}
          /\ Respond(w)
          /\ UNCHANGED faults
       \/ /\ Fault
          /\ Goto(w, "fail")
          /\ UNCHANGED <<marker, acked>>
    /\ UNCHANGED <<applied, clock>>

\* The process dies (a deploy, out of memory): Stripe gets no answer.
Crash(w) ==
    /\ worker[w].pc # "idle" /\ Fault
    /\ Respond(w)
    /\ UNCHANGED <<marker, applied, acked, clock>>

Tick ==
    /\ clock < MaxClock
    /\ clock' = clock + 1
    /\ UNCHANGED <<marker, applied, worker, acked, faults>>

Work(w, e) ==
    \/ InsertMarker(w, e) \/ Inspect(w, e) \/ Reclaim(w, e) \/ Handle(w, e)
    \/ Cleanup(w, e) \/ Fail(w, e) \/ Finish(w, e)

Next ==
    \/ \E w \in Workers, e \in Events : Receive(w, e) \/ Work(w, e)
    \/ \E w \in Workers : Crash(w)
    \/ Tick

Spec == Init /\ [][Next]_vars

(***************************************************************************)
(* Fairness: a delivery that is being handled goes on (or dies), Stripe    *)
(* delivers an event again until it gets a 200, and time passes.           *)
(***************************************************************************)
Redeliver(e) == e \notin acked /\ \E w \in Workers : Receive(w, e)

FairSpec ==
    /\ Spec
    /\ \A w \in Workers : WF_vars(\E e \in Events : Work(w, e))
    /\ \A e \in Events : SF_vars(Redeliver(e))
    /\ WF_vars(Tick)

(***************************************************************************)
(* Properties                                                              *)
(***************************************************************************)
Processing == {"handle", "finish", "cleanup", "fail"}

\* Every variable keeps its shape, and an event without a row has no trace of one.
TypeOK ==
    /\ \A e \in Events : marker[e].present \/ marker[e] = NoMarker
    /\ marker \in [Events -> [present: BOOLEAN, processed: BOOLEAN, createdAt: Nat]]
    /\ applied \subseteq Events /\ acked \subseteq Events
    /\ worker \in [Workers -> [pc: Processing \cup {"idle", "insert", "inspect",
                                                    "reclaim"},
                               events: SUBSET Events, now: Nat, claim: Nat]]
    /\ clock \in Nat /\ faults \in 0..MaxFaults

\* While nothing fails, an event is handed over only after its lease: two
\* deliveries that both process it have claims at least a lease apart, however
\* many redeliveries found the marker abandoned at the same moment.
ClaimsApart ==
    faults = 0 =>
        \A v, w \in Workers, e \in Events :
            At(v, e, "handle") /\ At(w, e, "handle") /\ v # w =>
                \/ worker[v].claim - worker[w].claim >= Lease
                \/ worker[w].claim - worker[v].claim >= Lease

\* Every event that Stripe sends is applied in the end: no fault makes the
\* endpoint acknowledge, as processed, an event that it has never applied, and
\* none leaves a marker that blocks its redeliveries for ever.
EventuallyApplied == \A e \in Events : <>(e \in applied)
=============================================================================
