------------------------- MODULE StripeWebhookProofs -------------------------
(***************************************************************************)
(* Theorems about StripeWebhook, for every value of its constants.         *)
(***************************************************************************)
EXTENDS StripeWebhook, TLAPS

(***************************************************************************)
(* Type correctness                                                        *)
(***************************************************************************)
MarkerType == [present: BOOLEAN, processed: BOOLEAN, createdAt: Nat]
WorkerType ==
    [pc: Processing \cup {"idle", "insert", "inspect", "reclaim"},
     events: SUBSET Events, now: Nat, claim: Nat]

LEMMA InitTypes == Init => TypeOK
  BY WebhookAssumption DEF Init, TypeOK, NoMarker, Idle

\* A change of one delivery keeps the type of them all.
LEMMA WorkerTyped ==
    ASSUME TypeOK, NEW w \in Workers, NEW x \in WorkerType
    PROVE  [worker EXCEPT ![w] = x] \in [Workers -> WorkerType]
  BY DEF TypeOK, WorkerType

\* Answering Stripe, moving on and claiming keep the types of the deliveries.
LEMMA WorkerTypes ==
    ASSUME TypeOK, NEW w \in Workers
    PROVE  /\ Respond(w) => worker' \in [Workers -> WorkerType]
           /\ \A pc \in Processing \cup {"inspect", "reclaim"} :
                 Goto(w, pc) => worker' \in [Workers -> WorkerType]
           /\ \A t \in Nat : Claimed(w, t) => worker' \in [Workers -> WorkerType]
  <1>0. worker[w] \in WorkerType
    BY DEF TypeOK, WorkerType
  <1>1. Idle \in WorkerType
    BY DEF Idle, WorkerType
  <1>2. Respond(w) => worker' \in [Workers -> WorkerType]
    BY <1>1, WorkerTyped DEF Respond
  <1>3. ASSUME NEW pc \in Processing \cup {"inspect", "reclaim"}, Goto(w, pc)
        PROVE  worker' \in [Workers -> WorkerType]
    <2>1. [worker[w] EXCEPT !.pc = pc] \in WorkerType
      BY <1>0 DEF WorkerType
    <2>2. worker' = [worker EXCEPT ![w] = [worker[w] EXCEPT !.pc = pc]]
      BY <1>3 DEF Goto, TypeOK
    <2>. QED
      BY <2>1, <2>2, WorkerTyped
  <1>4. ASSUME NEW t \in Nat, Claimed(w, t)
        PROVE  worker' \in [Workers -> WorkerType]
    <2>1. [worker[w] EXCEPT !.pc = "handle", !.claim = t] \in WorkerType
      BY <1>0 DEF WorkerType, Processing
    <2>2. worker' = [worker EXCEPT ![w] = [worker[w] EXCEPT !.pc = "handle", !.claim = t]]
      BY <1>4 DEF Claimed, TypeOK
    <2>. QED
      BY <2>1, <2>2, WorkerTyped
  <1>. QED
    BY <1>2, <1>3, <1>4

\* A fault is one of at most MaxFaults.
LEMMA FaultTypes == TypeOK /\ Fault => faults' \in 0..MaxFaults /\ faults' # 0
  BY WebhookAssumption DEF TypeOK, Fault

\* The rows of stripeEvents, of which an absent one is blank.
MarkersTyped == /\ marker \in [Events -> MarkerType]
                /\ \A d \in Events : marker[d].present \/ marker[d] = NoMarker

LEMMA MarkerTyped ==
    ASSUME MarkersTyped, NEW e \in Events, NEW x \in MarkerType, x.present \/ x = NoMarker,
           marker' = [marker EXCEPT ![e] = x]
    PROVE  MarkersTyped'
  BY DEF MarkersTyped

\* Setting processedAt keeps the rows, their times and their absence.
LEMMA ProcessedMarker ==
    ASSUME MarkersTyped, NEW e \in Events, SetProcessed(e)
    PROVE  /\ MarkersTyped'
           /\ \A d \in Events : /\ marker'[d].present = marker[d].present
                                /\ marker'[d].createdAt = marker[d].createdAt
  <1>1. PICK x : x = [marker[e] EXCEPT !.processed = marker[e].present]
    OBVIOUS
  <1>2. marker[e] \in MarkerType
    BY DEF MarkersTyped
  <1>3. /\ x \in MarkerType /\ x.present = marker[e].present /\ x.createdAt = marker[e].createdAt
        /\ x.processed = marker[e].present
    BY <1>1, <1>2 DEF MarkerType
  <1>4. marker' = [marker EXCEPT ![e] = x]
    BY <1>1 DEF SetProcessed, MarkersTyped
  <1>5. x.present \/ x = NoMarker
    <2>1. CASE marker[e].present
      BY <2>1, <1>3
    <2>2. CASE ~ marker[e].present
      <3>1. marker[e] = NoMarker
        BY <2>2 DEF MarkersTyped
      <3>2. NoMarker.processed = FALSE /\ NoMarker.present = FALSE /\ NoMarker.createdAt = 0
        BY DEF NoMarker
      <3>. QED
        BY <1>3, <3>1, <3>2 DEF NoMarker, MarkerType
    <2>. QED
      BY <2>1, <2>2
  <1>6. MarkersTyped'
    BY <1>3, <1>4, <1>5, MarkerTyped
  <1>. QED
    BY <1>3, <1>4, <1>6 DEF MarkersTyped

LEMMA StepTypes == TypeOK /\ [Next]_vars => TypeOK'
  <1>. SUFFICES ASSUME TypeOK, [Next]_vars PROVE TypeOK'
    OBVIOUS
  <1>. USE WorkerTypes, FaultTypes
  <1>0. MarkersTyped
    BY DEF TypeOK, MarkersTyped, MarkerType
  <1>1. CASE \E w \in Workers, e \in Events : Receive(w, e)
    BY <1>1 DEF Receive, TypeOK, Processing
  <1>2. ASSUME NEW w \in Workers, NEW e \in Events, InsertMarker(w, e)
        PROVE  TypeOK'
    <2>1. worker' \in [Workers -> WorkerType]
      BY <1>2 DEF InsertMarker, TypeOK
    <2>2. MarkersTyped'
      <3>1. [present |-> TRUE, processed |-> FALSE, createdAt |-> clock] \in MarkerType
        BY DEF TypeOK, MarkerType
      <3>. QED
        BY <1>0, <1>2, <3>1, MarkerTyped DEF InsertMarker, MarkersTyped
    <2>. QED
      BY <1>2, <2>1, <2>2 DEF InsertMarker, TypeOK, MarkersTyped, MarkerType, WorkerType
  <1>3. ASSUME NEW w \in Workers, NEW e \in Events, Inspect(w, e)
        PROVE  TypeOK'
    <2>1. worker' \in [Workers -> WorkerType]
      BY <1>3 DEF Inspect
    <2>. QED
      BY <1>3, <2>1 DEF Inspect, TypeOK, WorkerType
  <1>4. ASSUME NEW w \in Workers, NEW e \in Events, Reclaim(w, e)
        PROVE  TypeOK'
    <2>1. worker[w].now \in Nat
      BY DEF TypeOK
    <2>2. worker' \in [Workers -> WorkerType]
      BY <1>4, <2>1 DEF Reclaim
    <2>3. MarkersTyped'
      <3>1. CASE UNCHANGED marker
        BY <1>0, <3>1 DEF MarkersTyped
      <3>2. CASE /\ marker[e].present
                 /\ marker' = [marker EXCEPT ![e].createdAt = worker[w].now]
        <4>1. PICK x : x = [marker[e] EXCEPT !.createdAt = worker[w].now]
          OBVIOUS
        <4>2. x \in MarkerType /\ x.present
          BY <1>0, <2>1, <3>2, <4>1 DEF MarkersTyped, MarkerType
        <4>3. marker' = [marker EXCEPT ![e] = x]
          BY <1>0, <3>2, <4>1 DEF MarkersTyped
        <4>. QED
          BY <1>0, <4>2, <4>3, MarkerTyped
      <3>. QED
        BY <1>4, <3>1, <3>2 DEF Reclaim, Abandoned
    <2>. QED
      BY <1>4, <2>2, <2>3 DEF Reclaim, TypeOK, MarkersTyped, MarkerType, WorkerType
  <1>5. ASSUME NEW w \in Workers, NEW e \in Events, Handle(w, e)
        PROVE  TypeOK'
    <2>1. worker' \in [Workers -> WorkerType]
      BY <1>5 DEF Handle, Processing
    <2>. QED
      BY <1>5, <2>1 DEF Handle, TypeOK, WorkerType
  <1>6. ASSUME NEW w \in Workers, NEW e \in Events, Cleanup(w, e)
        PROVE  TypeOK'
    <2>1. worker' \in [Workers -> WorkerType]
      BY <1>6 DEF Cleanup, Processing
    <2>2. MarkersTyped'
      <3>1. NoMarker \in MarkerType
        BY DEF NoMarker, MarkerType
      <3>. QED
        BY <1>0, <1>6, <3>1, MarkerTyped DEF Cleanup, MarkersTyped
    <2>. QED
      BY <1>6, <2>1, <2>2 DEF Cleanup, TypeOK, MarkersTyped, MarkerType, WorkerType
  <1>7. ASSUME NEW w \in Workers, NEW e \in Events, Fail(w, e)
        PROVE  TypeOK'
    <2>1. worker' \in [Workers -> WorkerType]
      BY <1>7 DEF Fail
    <2>2. MarkersTyped'
      BY <1>0, <1>7, ProcessedMarker DEF Fail, MarkersTyped
    <2>. QED
      BY <1>7, <2>1, <2>2 DEF Fail, TypeOK, MarkersTyped, MarkerType, WorkerType
  <1>8. ASSUME NEW w \in Workers, NEW e \in Events, Finish(w, e)
        PROVE  TypeOK'
    <2>1. worker' \in [Workers -> WorkerType]
      BY <1>8 DEF Finish, Processing
    <2>2. MarkersTyped'
      BY <1>0, <1>8, ProcessedMarker DEF Finish, MarkersTyped
    <2>. QED
      BY <1>8, <2>1, <2>2 DEF Finish, TypeOK, MarkersTyped, MarkerType, WorkerType
  <1>9. ASSUME NEW w \in Workers, Crash(w)
        PROVE  TypeOK'
    BY <1>9 DEF Crash, TypeOK, WorkerType
  <1>10. CASE Tick
    BY <1>10 DEF Tick, TypeOK
  <1>11. CASE UNCHANGED vars
    BY <1>11 DEF vars, TypeOK
  <1>. QED
    BY <1>1, <1>2, <1>3, <1>4, <1>5, <1>6, <1>7, <1>8, <1>9, <1>10, <1>11 DEF Next, Work

\* The variables keep their types, and a marker that was deleted leaves no trace.
THEOREM TypeCorrect == Spec => []TypeOK
  BY InitTypes, StepTypes, PTL DEF Spec

(***************************************************************************)
(* Claims are a lease apart                                                *)
(***************************************************************************)
\* A delivery handles one event.
OneEvent == \A w \in Workers : \A d, e \in worker[w].events : d = e

\* While nothing has failed nobody deletes a marker, so that of an event that is
\* being handled is there, and as young as the youngest claim.
MarkerHeld ==
    faults = 0 =>
        /\ \A w \in Workers : worker[w].pc # "cleanup"
        /\ \A w \in Workers, e \in Events :
              At(w, e, "handle") =>
                  marker[e].present /\ worker[w].claim <= marker[e].createdAt

ApartInv == OneEvent /\ MarkerHeld /\ ClaimsApart

\* A step without a fault that hands nothing over, and touches neither presence
\* nor time of a marker, keeps the invariant.
LEMMA QuietStep ==
    ASSUME TypeOK, ApartInv, OneEvent', faults' = faults,
           \A w \in Workers : worker'[w].pc # "cleanup" \/ worker[w].pc = "cleanup",
           \A w \in Workers, e \in Events :
              At(w, e, "handle")' => At(w, e, "handle") /\ worker'[w].claim = worker[w].claim,
           \A e \in Events : /\ marker'[e].present = marker[e].present
                             /\ marker'[e].createdAt = marker[e].createdAt
    PROVE  ApartInv'
  <1>1. MarkerHeld'
    BY DEF ApartInv, MarkerHeld
  <1>2. ClaimsApart'
    BY DEF ApartInv, ClaimsApart
  <1>. QED
    BY <1>1, <1>2 DEF ApartInv

\* A delivery that claims the event at a time a lease after the marker's last.
LEMMA ClaimStep ==
    ASSUME TypeOK, ApartInv, UNCHANGED faults, NEW w \in Workers, NEW e \in Events, NEW t \in Nat,
           e \in worker[w].events, worker[w].pc # "cleanup", Claimed(w, t),
           NEW x \in MarkerType, marker' = [marker EXCEPT ![e] = x], x.present, x.createdAt = t,
           marker[e].present => t - marker[e].createdAt >= Lease
    PROVE  ApartInv'
  <1>1. /\ worker'[w].pc = "handle" /\ worker'[w].claim = t /\ worker'[w].events = worker[w].events
        /\ \A v \in Workers \ {w} : worker'[v] = worker[v]
    BY DEF Claimed, TypeOK
  <1>2. /\ marker'[e] = x
        /\ \A d \in Events \ {e} : marker'[d] = marker[d]
    BY DEF TypeOK
  <1>3. OneEvent'
    BY <1>1 DEF ApartInv, OneEvent
  <1>4. worker[w].events = {e}
    BY DEF ApartInv, OneEvent
  <1>5. ASSUME faults = 0, NEW v \in Workers \ {w}, NEW d \in Events, At(v, d, "handle")'
        PROVE  /\ marker'[d].present /\ worker'[v].claim <= marker'[d].createdAt
               /\ d = e => t - worker'[v].claim >= Lease
    <2>1. At(v, d, "handle")
      BY <1>1, <1>5 DEF At
    <2>2. marker[d].present /\ worker[v].claim <= marker[d].createdAt
      BY <1>5, <2>1 DEF ApartInv, MarkerHeld
    <2>3. worker[v].claim \in Nat /\ marker[d].createdAt \in Nat /\ Lease \in Nat
      BY WebhookAssumption DEF TypeOK
    <2>. QED
      BY <1>1, <1>2, <2>2, <2>3
  <1>6. MarkerHeld'
    <2>1. \A v \in Workers : faults' = 0 => worker'[v].pc # "cleanup"
      BY <1>1 DEF ApartInv, MarkerHeld
    <2>. QED
      BY <1>1, <1>2, <1>4, <1>5, <2>1 DEF MarkerHeld, At
  <1>7. ClaimsApart'
    <2>. SUFFICES ASSUME faults' = 0, NEW u \in Workers, NEW v \in Workers, NEW d \in Events,
                         At(u, d, "handle")', At(v, d, "handle")', u # v
                  PROVE  \/ worker'[u].claim - worker'[v].claim >= Lease
                         \/ worker'[v].claim - worker'[u].claim >= Lease
      BY DEF ClaimsApart
    <2>1. CASE u # w /\ v # w
      BY <1>1, <2>1 DEF ApartInv, ClaimsApart, At
    <2>2. CASE u = w
      BY <1>1, <1>4, <1>5, <2>2 DEF At
    <2>3. CASE v = w
      BY <1>1, <1>4, <1>5, <2>3 DEF At
    <2>. QED
      BY <2>1, <2>2, <2>3
  <1>. QED
    BY <1>3, <1>6, <1>7 DEF ApartInv

\* Answering Stripe and moving on change one delivery, and none to more events.
LEMMA MoveFacts ==
    ASSUME TypeOK, OneEvent, NEW w \in Workers
    PROVE  /\ Respond(w) =>
                 /\ OneEvent' /\ worker'[w] = Idle
                 /\ \A v \in Workers \ {w} : worker'[v] = worker[v]
           /\ \A pc : Goto(w, pc) =>
                 /\ OneEvent' /\ worker'[w].pc = pc
                 /\ worker'[w].events = worker[w].events /\ worker'[w].claim = worker[w].claim
                 /\ \A v \in Workers \ {w} : worker'[v] = worker[v]
  <1>1. ASSUME Respond(w)
        PROVE  /\ OneEvent' /\ worker'[w] = Idle
               /\ \A v \in Workers \ {w} : worker'[v] = worker[v]
    <2>1. worker'[w] = Idle /\ \A v \in Workers \ {w} : worker'[v] = worker[v]
      BY <1>1 DEF Respond, TypeOK
    <2>2. Idle.events = {}
      BY DEF Idle
    <2>. QED
      BY <2>1, <2>2 DEF OneEvent
  <1>2. ASSUME NEW pc, Goto(w, pc)
        PROVE  /\ OneEvent' /\ worker'[w].pc = pc
               /\ worker'[w].events = worker[w].events /\ worker'[w].claim = worker[w].claim
               /\ \A v \in Workers \ {w} : worker'[v] = worker[v]
    <2>1. /\ worker'[w].pc = pc
          /\ worker'[w].events = worker[w].events /\ worker'[w].claim = worker[w].claim
          /\ \A v \in Workers \ {w} : worker'[v] = worker[v]
      BY <1>2 DEF Goto, TypeOK
    <2>. QED
      BY <2>1 DEF OneEvent
  <1>. QED
    BY <1>1, <1>2

\* A delivery that answers, or moves to a statement that does not handle the
\* event, without a fault.
LEMMA QuietMove ==
    ASSUME TypeOK, ApartInv, NEW w \in Workers, UNCHANGED faults,
           \/ Respond(w)
           \/ \E pc \in {"inspect", "reclaim", "finish", "fail"} : Goto(w, pc),
           \A e \in Events : /\ marker'[e].present = marker[e].present
                             /\ marker'[e].createdAt = marker[e].createdAt
    PROVE  ApartInv'
  <1>0. OneEvent
    BY DEF ApartInv
  <1>1. OneEvent' /\ \A v \in Workers \ {w} : worker'[v] = worker[v]
    BY <1>0, MoveFacts
  <1>2. worker'[w].pc \in {"idle", "inspect", "reclaim", "finish", "fail"}
    <2>1. Idle.pc = "idle"
      BY DEF Idle
    <2>. QED
      BY <1>0, <2>1, MoveFacts
  <1>3. \A v \in Workers : worker'[v].pc # "cleanup" \/ worker[v].pc = "cleanup"
    BY <1>1, <1>2
  <1>4. \A v \in Workers, e \in Events :
           At(v, e, "handle")' => At(v, e, "handle") /\ worker'[v].claim = worker[v].claim
    BY <1>1, <1>2 DEF At
  <1>. QED
    BY <1>1, <1>3, <1>4, QuietStep

\* After a fault nothing is claimed of the claims.
LEMMA FaultStep ==
    ASSUME TypeOK, OneEvent', Fault
    PROVE  ApartInv'
  BY FaultTypes DEF ApartInv, MarkerHeld, ClaimsApart, Fault, TypeOK

LEMMA StepApart == TypeOK /\ ApartInv /\ [Next]_vars => ApartInv'
  <1>. SUFFICES ASSUME TypeOK, ApartInv, [Next]_vars PROVE ApartInv'
    OBVIOUS
  <1>0. OneEvent
    BY DEF ApartInv
  <1>1. ASSUME NEW w \in Workers, NEW e \in Events, Receive(w, e)
        PROVE  ApartInv'
    <2>1. OneEvent'
      BY <1>1 DEF Receive, ApartInv, OneEvent, TypeOK
    <2>. QED
      BY <1>1, <2>1, QuietStep DEF Receive, TypeOK, At
  <1>2. ASSUME NEW w \in Workers, NEW e \in Events, InsertMarker(w, e)
        PROVE  ApartInv'
    <2>1. CASE /\ ~ marker[e].present /\ Claimed(w, clock) /\ UNCHANGED faults
               /\ marker' = [marker EXCEPT ![e] =
                      [present |-> TRUE, processed |-> FALSE, createdAt |-> clock]]
      <3>1. PICK x : x = [present |-> TRUE, processed |-> FALSE, createdAt |-> clock]
        OBVIOUS
      <3>2. clock \in Nat /\ x \in MarkerType /\ x.present /\ x.createdAt = clock
        BY <3>1 DEF TypeOK, MarkerType
      <3>3. e \in worker[w].events /\ worker[w].pc # "cleanup"
        BY <1>2 DEF InsertMarker, At
      <3>4. UNCHANGED faults /\ marker' = [marker EXCEPT ![e] = x]
        BY <2>1, <3>1
      <3>. QED
        BY <2>1, <3>2, <3>3, <3>4, ClaimStep
    <2>2. CASE Goto(w, "inspect") /\ UNCHANGED <<marker, faults>>
      BY <2>2, QuietMove
    <2>3. CASE Fault /\ Respond(w)
      BY <1>0, <2>3, MoveFacts, FaultStep
    <2>. QED
      BY <1>2, <2>1, <2>2, <2>3 DEF InsertMarker
  <1>3. ASSUME NEW w \in Workers, NEW e \in Events, Inspect(w, e)
        PROVE  ApartInv'
    <2>1. CASE Respond(w) /\ UNCHANGED <<marker, faults>>
      BY <2>1, QuietMove
    <2>2. CASE Goto(w, "reclaim") /\ UNCHANGED <<marker, faults>>
      BY <2>2, QuietMove
    <2>3. CASE Fault /\ Respond(w)
      BY <1>0, <2>3, MoveFacts, FaultStep
    <2>. QED
      BY <1>3, <2>1, <2>2, <2>3 DEF Inspect
  <1>4. ASSUME NEW w \in Workers, NEW e \in Events, Reclaim(w, e)
        PROVE  ApartInv'
    <2>1. CASE /\ Abandoned(e, worker[w].now)
               /\ marker' = [marker EXCEPT ![e].createdAt = worker[w].now]
               /\ Claimed(w, worker[w].now) /\ UNCHANGED faults
      <3>1. PICK x : x = [marker[e] EXCEPT !.createdAt = worker[w].now]
        OBVIOUS
      <3>2. worker[w].now \in Nat /\ marker[e] \in MarkerType
        BY DEF TypeOK, MarkerType
      <3>3. x \in MarkerType /\ x.present /\ x.createdAt = worker[w].now
        BY <2>1, <3>1, <3>2 DEF Abandoned, MarkerType
      <3>4. marker' = [marker EXCEPT ![e] = x]
        BY <2>1, <3>1 DEF TypeOK
      <3>5. e \in worker[w].events /\ worker[w].pc # "cleanup"
        BY <1>4 DEF Reclaim, At
      <3>. QED
        BY <2>1, <3>2, <3>3, <3>4, <3>5, ClaimStep DEF Abandoned
    <2>2. CASE Respond(w) /\ UNCHANGED <<marker, faults>>
      BY <2>2, QuietMove
    <2>3. CASE Fault /\ Respond(w)
      BY <1>0, <2>3, MoveFacts, FaultStep
    <2>. QED
      BY <1>4, <2>1, <2>2, <2>3 DEF Reclaim
  <1>5. ASSUME NEW w \in Workers, NEW e \in Events, Handle(w, e)
        PROVE  ApartInv'
    <2>1. CASE Goto(w, "finish") /\ UNCHANGED <<marker, faults>>
      BY <2>1, QuietMove
    <2>2. CASE Fault /\ Goto(w, IF e \in Funding THEN "cleanup" ELSE "fail")
      BY <1>0, <2>2, MoveFacts, FaultStep
    <2>. QED
      BY <1>5, <2>1, <2>2 DEF Handle
  <1>6. ASSUME NEW w \in Workers, NEW e \in Events, Cleanup(w, e)
        PROVE  ApartInv'
    <2>1. OneEvent' /\ faults' \in Nat
      BY <1>0, <1>6, MoveFacts, FaultTypes DEF Cleanup, TypeOK
    <2>2. faults' # 0
      BY <1>6, FaultTypes DEF Cleanup, At, ApartInv, MarkerHeld
    <2>. QED
      BY <2>1, <2>2 DEF ApartInv, MarkerHeld, ClaimsApart
  <1>7. ASSUME NEW w \in Workers, NEW e \in Events, Fail(w, e)
        PROVE  ApartInv'
    <2>1. CASE SetProcessed(e) /\ UNCHANGED faults
      <3>1. \A d \in Events : /\ marker'[d].present = marker[d].present
                              /\ marker'[d].createdAt = marker[d].createdAt
        BY <2>1, ProcessedMarker DEF TypeOK, MarkersTyped, MarkerType
      <3>. QED
        BY <1>7, <2>1, <3>1, QuietMove DEF Fail
    <2>2. CASE Fault
      BY <1>0, <1>7, <2>2, MoveFacts, FaultStep DEF Fail
    <2>. QED
      BY <1>7, <2>1, <2>2 DEF Fail
  <1>8. ASSUME NEW w \in Workers, NEW e \in Events, Finish(w, e)
        PROVE  ApartInv'
    <2>1. CASE SetProcessed(e) /\ Respond(w) /\ UNCHANGED faults
      <3>1. \A d \in Events : /\ marker'[d].present = marker[d].present
                              /\ marker'[d].createdAt = marker[d].createdAt
        BY <2>1, ProcessedMarker DEF TypeOK, MarkersTyped, MarkerType
      <3>. QED
        BY <2>1, <3>1, QuietMove
    <2>2. CASE Fault /\ Goto(w, "fail")
      BY <1>0, <2>2, MoveFacts, FaultStep
    <2>. QED
      BY <1>8, <2>1, <2>2 DEF Finish
  <1>9. ASSUME NEW w \in Workers, Crash(w)
        PROVE  ApartInv'
    BY <1>0, <1>9, MoveFacts, FaultStep DEF Crash
  <1>10. CASE Tick \/ UNCHANGED vars
    <2>1. UNCHANGED <<marker, worker, faults>>
      BY <1>10 DEF Tick, vars
    <2>. QED
      BY <2>1 DEF ApartInv, OneEvent, MarkerHeld, ClaimsApart, At
  <1>. QED
    BY <1>1, <1>2, <1>3, <1>4, <1>5, <1>6, <1>7, <1>8, <1>9, <1>10 DEF Next, Work

LEMMA InitApart == Init => ApartInv
  BY DEF Init, ApartInv, OneEvent, MarkerHeld, ClaimsApart, At, Idle

\* While nothing fails, deliveries that process one event claimed it a lease
\* apart, however many of them there are.
THEOREM ClaimsALeaseApart == Spec => []ClaimsApart
  <1>1. ApartInv => ClaimsApart
    BY DEF ApartInv
  <1>. QED
    BY <1>1, InitApart, StepApart, TypeCorrect, PTL DEF Spec
=============================================================================
