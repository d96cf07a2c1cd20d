------------------------------ MODULE AuditTrail ------------------------------
(***************************************************************************)
(* The two audit logs, their hash chains, and their delivery to a SIEM     *)
(* (activity-logger.ts, audit-ingest-writer.ts, chain-step.ts,             *)
(* audit-chainer-worker.ts, siem-delivery-worker.ts,                       *)
(* siem-delivery-preflight.ts, siem-chain-verifier.ts, siem-adapter.ts).   *)
(*                                                                         *)
(* An activity is chained by the process that logs it, under an advisory   *)
(* lock.  A security event is queued, and a worker chains the queue.  A    *)
(* second worker polls both logs by (timestamp, id), checks the links of   *)
(* what it found against the row its cursor stands on, sends it, and moves *)
(* the cursors.                                                            *)
(*                                                                         *)
(* Entries are numbers, and the order of the numbers is the order of their *)
(* (random) ids.  A hash is the entry it belongs to, so a row's link is    *)
(* the entry before it, 0 at the start of a chain; nobody tampers.         *)
(***************************************************************************)
EXTENDS Integers, Sequences, FiniteSets

CONSTANTS
    Activities,  \* entries that will be activities
    Events,      \* entries that will be security events
    Chainers,    \* runs of the audit chainer
    Runs,        \* runs of the SIEM delivery worker
    ChainBatch,  \* AUDIT_CHAINER_BATCH_SIZE
    Batch,       \* rows a poll takes from each log
    MaxRetries,  \* retries of a delivery after its first attempt
    MaxClock,    \* bound on the clock
    MaxFaults,   \* bound: failed deliveries, dead workers, lost connections
    None

ASSUME AuditAssumption ==
    /\ Activities \subseteq Nat \ {0} /\ Events \subseteq Nat \ {0}
    /\ Activities \cap Events = {}
    /\ ChainBatch \in Nat \ {0} /\ Batch \in Nat \ {0}
    /\ MaxRetries \in Nat /\ MaxClock \in Nat \ {0} /\ MaxFaults \in Nat
    /\ None \notin Chainers \cup Runs

VARIABLES
    clock,
    entry,      \* the entries, and their rows once they have one
    log,        \* activity_logs and security_audit_log, in chain_seq order
    chainer,    \* the chainer runs: what they drained, the head they read
    chainLock,  \* pg_try_advisory_lock of the chainer, on its own session
    cursor,     \* siem_delivery_cursors, per log
    planted,    \* history: when the cursor of a log was planted, 0 before
    run,        \* the delivery runs
    lock,       \* pg_try_advisory_lock of the delivery, on the main database
    got,        \* entries the SIEM has received
    attested,   \* entries covered by a row of siem_delivery_receipts
    alarm,      \* logs reported as tampered with
    lost,       \* history: a run has gone on without its lock
    faults

writing == <<entry, log, chainer, chainLock>>
sending == <<cursor, planted, run, lock, got, attested, alarm, lost>>
vars == <<clock, writing, sending, faults>>

Sources == {"activity", "event"}
Entries == Activities \cup Events
Of(s) == IF s = "activity" THEN Activities ELSE Events
Logged(s) == {log[s][i] : i \in DOMAIN log[s]}

NoRun ==
    [pc |-> "idle", polled |-> {}, seen |-> [s \in Sources |-> 0],
     batch |-> {}, acked |-> {}, tries |-> 0, cut |-> FALSE]

Init ==
    /\ clock = 1
    /\ entry = [e \in Entries |-> [pc |-> "idle", ts |-> 0, at |-> 0, prev |-> 0]]
    /\ log = [s \in Sources |-> << >>]
    /\ chainer = [c \in Chainers |-> [pc |-> "idle", batch |-> {}, head |-> 0]]
    /\ chainLock = None
    /\ cursor = [s \in Sources |-> [ts |-> 0, id |-> 0]]
    /\ planted = [s \in Sources |-> 0]
    /\ run = [r \in Runs |-> NoRun]
    /\ lock = None
    /\ got = {} /\ attested = {} /\ alarm = {} /\ lost = FALSE
    /\ faults = 0

Fault == faults < MaxFaults /\ faults' = faults + 1

(***************************************************************************)
(* Orders                                                                  *)
(***************************************************************************)
\* ORDER BY timestamp, id; and ORDER BY emitted_at, id.
Before(x, y) == entry[x].ts < entry[y].ts \/ (entry[x].ts = entry[y].ts /\ x < y)
QueuedBefore(x, y) == entry[x].at < entry[y].at \/ (entry[x].at = entry[y].at /\ x < y)

\* The merged order: by timestamp, ties in the order of SIEM_SOURCES.
Ahead(x, y) ==
    \/ entry[x].ts < entry[y].ts
    \/ entry[x].ts = entry[y].ts /\ x \in Activities /\ y \in Events
    \/ Before(x, y) /\ (x \in Activities <=> y \in Activities)

FirstOf(S, n, Less(_, _)) == {x \in S : Cardinality({y \in S : Less(y, x)}) < n}
LastOf(S, Less(_, _)) == CHOOSE x \in S : \A y \in S \ {x} : Less(y, x)
Prefixes(S) == {P \in SUBSET S : \A x \in P : \A y \in S : Ahead(y, x) => y \in P}

\* The batch T is one stretch of a chain that starts after the row anchor.
Linked(T, anchor) ==
    \A x \in T :
        LET earlier == {y \in T : Before(y, x)}
        IN  entry[x].prev = (IF earlier = {} THEN anchor ELSE LastOf(earlier, Before))

ChainHead(s) == IF log[s] = << >> THEN 0 ELSE log[s][Len(log[s])]

(***************************************************************************)
(* Writers                                                                 *)
(***************************************************************************)
Tick ==
    /\ clock < MaxClock
    /\ clock' = clock + 1
    /\ UNCHANGED <<writing, sending, faults>>

\* The timestamp is taken in the process, before any lock or insert.
Stamp(e) ==
    /\ entry[e].pc = "idle"
    /\ entry' = [entry EXCEPT ![e].pc = "stamped", ![e].ts = clock]
    /\ UNCHANGED <<clock, log, chainer, chainLock, sending, faults>>

\* The head is read and the row inserted in one transaction under
\* pg_advisory_xact_lock.
LogActivity(e) ==
    /\ e \in Activities /\ entry[e].pc = "stamped"
    /\ entry' = [entry EXCEPT ![e].pc = "logged", ![e].prev = ChainHead("activity")]
    /\ log' = [log EXCEPT !["activity"] = Append(@, e)]
    /\ UNCHANGED <<clock, chainer, chainLock, sending, faults>>

\* emitted_at is the time at which the database began the insert.
Enqueue(e) ==
    /\ e \in Events /\ entry[e].pc = "stamped"
    /\ \E t \in entry[e].ts..clock :
          entry' = [entry EXCEPT ![e].pc = "queued", ![e].at = t]
    /\ UNCHANGED <<clock, log, chainer, chainLock, sending, faults>>

(***************************************************************************)
(* The chainer: try-lock, drain, read the head; append and delete in one   *)
(* transaction, verify, unlock.  Its lock is its session's, and so is the  *)
(* transaction: a chainer that loses one loses the other.                  *)
(***************************************************************************)
Queued == {e \in Events : entry[e].pc = "queued"}

\* Mutant of MayChain: the outcome of the try-lock is ignored.
ChainAnyway(c) == chainer[c].pc = "idle"

MayChain(c) == chainer[c].pc = "idle" /\ chainLock = None

Drain(c) ==
    /\ MayChain(c) /\ Queued # {}
    /\ chainLock' = c
    /\ chainer' = [chainer EXCEPT ![c] =
          [pc |-> "append", batch |-> FirstOf(Queued, ChainBatch, QueuedBefore), head |-> ChainHead("event")]]
    /\ UNCHANGED <<clock, entry, log, sending, faults>>

ChainDone(c) ==
    /\ chainer' = [chainer EXCEPT ![c] = [pc |-> "idle", batch |-> {}, head |-> 0]]
    /\ chainLock' = IF chainLock = c THEN None ELSE chainLock

\* The batch in its order, as assignChainBatch folds it.
InOrder(T) ==
    [i \in 1..Cardinality(T) |-> CHOOSE x \in T : Cardinality({y \in T : QueuedBefore(y, x)}) = i - 1]

\* A row that is chained already violates the primary key, and all is rolled back.
Appended(c) ==
    LET T == chainer[c].batch
        link(x) == LET earlier == {y \in T : QueuedBefore(y, x)}
                   IN  IF earlier = {} THEN chainer[c].head ELSE LastOf(earlier, QueuedBefore)
    IN  /\ entry' = [e \in Entries |->
              IF e \in T THEN [entry[e] EXCEPT !.pc = "logged", !.prev = link(e)] ELSE entry[e]]
        /\ log' = [log EXCEPT !["event"] = @ \o InOrder(T)]

AppendBatch(c) ==
    /\ chainer[c].pc = "append"
    /\ IF chainer[c].batch \subseteq Queued THEN Appended(c) ELSE UNCHANGED <<entry, log>>
    /\ ChainDone(c)
    /\ UNCHANGED <<clock, sending, faults>>

CrashChainer(c) ==
    /\ chainer[c].pc # "idle" /\ Fault
    /\ ChainDone(c)
    /\ UNCHANGED <<clock, entry, log, sending>>

(***************************************************************************)
(* The delivery: poll both logs                                            *)
(***************************************************************************)
\* A run that is over gives its lock back, if it still has it.
EndRun(r) ==
    /\ run' = [run EXCEPT ![r] = NoRun]
    /\ lock' = IF lock = r THEN None ELSE lock

StartRun(r) ==
    /\ run[r].pc = "idle" /\ lock = None
    /\ lock' = r
    /\ run' = [run EXCEPT ![r].pc = "activity"]
    /\ UNCHANGED <<clock, writing, cursor, planted, got, attested, alarm, lost, faults>>

\* The cursor is a pair: two rows may share a timestamp.
Beyond(e, c) == entry[e].ts > c.ts \/ (entry[e].ts = c.ts /\ e > c.id)

Rows(s) == FirstOf({e \in Logged(s) : Beyond(e, cursor[s])}, Batch, Before)

\* Mutant of Shippable: everything that was polled is sent.
ShipAll(P) == P

\* Mutant of Shippable: a row as new as the bound waits as well.
ShipOlder(P) ==
    {e \in P : \A s \in Sources :
        Cardinality(P \cap Of(s)) = Batch => entry[e].ts < entry[LastOf(P \cap Of(s), Before)].ts}

\* A log that filled its share of the batch may hold more: nothing newer than
\* its last polled row is sent yet.
Shippable(P) ==
    {e \in P : \A s \in Sources :
        Cardinality(P \cap Of(s)) = Batch => entry[e].ts <= entry[LastOf(P \cap Of(s), Before)].ts}

\* What run r makes of the rows P once log s has been polled.
Polled(r, s, P, n) ==
    IF s = "activity"
    THEN /\ run' = [run EXCEPT ![r].pc = "event", ![r].polled = P, ![r].seen[s] = n]
         /\ UNCHANGED lock
    ELSE IF Shippable(P) = {} THEN EndRun(r)
    ELSE /\ run' = [run EXCEPT ![r].pc = "preflight", ![r].polled = {},
                               ![r].batch = Shippable(P), ![r].seen[s] = n]
         /\ UNCHANGED lock

\* A log without a cursor gets one that stands at the present, and sends nothing.
Plant(r, s) ==
    /\ run[r].pc = s /\ cursor[s].ts = 0
    /\ cursor' = [cursor EXCEPT ![s] = [ts |-> clock, id |-> 0]]
    /\ planted' = [planted EXCEPT ![s] = clock]
    /\ Polled(r, s, run[r].polled, 0)
    /\ UNCHANGED <<clock, writing, got, attested, alarm, lost, faults>>

Poll(r, s) ==
    /\ run[r].pc = s /\ cursor[s].ts # 0
    /\ Polled(r, s, run[r].polled \cup Rows(s), Len(log[s]))
    /\ UNCHANGED <<clock, writing, cursor, planted, got, attested, alarm, lost, faults>>

(***************************************************************************)
(* The delivery: check, send, commit                                       *)
(***************************************************************************)
\* Mutant of Anchored: the batch is compared with the head of the log.
AnchoredAtHead(s, T) == cursor[s].id = 0 \/ Linked(T, ChainHead(s))

\* The cursor is read again; one that was just planted has no row to start from.
Anchored(s, T) == cursor[s].id = 0 \/ Linked(T, cursor[s].id)

Broken(r) == {s \in Sources : run[r].batch \cap Of(s) # {} /\ ~ Anchored(s, run[r].batch \cap Of(s))}

\* Activities are read from the main database, where the lock is: a run that
\* lost that connection cannot load them, and ends without an alarm.
Unreadable(r) == run[r].cut /\ run[r].batch \cap Activities # {}

Preflight(r) ==
    /\ run[r].pc = "preflight"
    /\ IF Unreadable(r) THEN EndRun(r) /\ UNCHANGED alarm
       ELSE IF Broken(r) # {}
       THEN /\ alarm' = alarm \cup {IF "activity" \in Broken(r) THEN "activity" ELSE "event"}
            /\ EndRun(r)
       ELSE /\ run' = [run EXCEPT ![r].pc = "deliver"]
            /\ UNCHANGED <<lock, alarm>>
    /\ UNCHANGED <<clock, writing, cursor, planted, got, attested, lost, faults>>

Rest(r) == run[r].batch \ run[r].acked

Deliver(r) ==
    /\ run[r].pc = "deliver"
    /\ got' = got \cup Rest(r)
    /\ run' = [run EXCEPT ![r].pc = "commit", ![r].acked = run[r].batch]
    /\ UNCHANGED <<clock, writing, cursor, planted, lock, attested, alarm, lost, faults>>

\* An attempt fails: the SIEM has a prefix of the rest, and has acknowledged a
\* prefix of that.  The tail that was not acknowledged is tried again, unless
\* the error is final or the attempts are used up.
DeliverPart(r) ==
    /\ run[r].pc = "deliver" /\ Fault
    /\ \E R \in Prefixes(Rest(r)) : \E A \in Prefixes(R) \ {Rest(r)} :
          /\ got' = got \cup R
          /\ \/ /\ run[r].tries < MaxRetries
                /\ run' = [run EXCEPT ![r].acked = @ \cup A, ![r].tries = @ + 1]
             \/ run' = [run EXCEPT ![r].acked = @ \cup A, ![r].pc = "commit"]
    /\ UNCHANGED <<clock, writing, cursor, planted, lock, attested, alarm, lost>>

\* Mutant of LastDelivered: the cursors move to the last row of the delivery.
LastOfAll(s, A) == LastOf(A, Ahead)

LastDelivered(s, A) == LastOf(A \cap Of(s), Before)

\* Mutant of Delivered: the cursors move over the batch, not over what arrived.
DeliveredBatch(r) == run[r].batch

Delivered(r) == run[r].acked

\* The cursors move over what was delivered and the receipts are written, in
\* one transaction on the administrative database.
Commit(r) ==
    /\ run[r].pc = "commit"
    /\ cursor' = [s \in Sources |->
          IF Delivered(r) \cap Of(s) = {} THEN cursor[s]
          ELSE LET e == LastDelivered(s, Delivered(r)) IN [ts |-> entry[e].ts, id |-> e]]
    /\ attested' = attested \cup run[r].acked
    /\ EndRun(r)
    /\ UNCHANGED <<clock, writing, planted, got, alarm, lost, faults>>

\* A statement fails, the commit is rolled back, or the worker dies.
CrashRun(r) ==
    /\ run[r].pc # "idle" /\ Fault
    /\ EndRun(r)
    /\ UNCHANGED <<clock, writing, cursor, planted, got, attested, alarm, lost>>

\* The main database drops the session that holds the lock; the run does not
\* use it any more, and goes on.
LoseLock(r) ==
    /\ lock = r /\ run[r].pc \notin {"idle", "activity"} /\ Fault
    /\ lock' = None /\ lost' = TRUE
    /\ run' = [run EXCEPT ![r].cut = TRUE]
    /\ UNCHANGED <<clock, writing, cursor, planted, got, attested, alarm>>

(***************************************************************************)
(* Specification                                                           *)
(***************************************************************************)
Write(e) == Stamp(e) \/ LogActivity(e) \/ Enqueue(e)

ChainStep(c) == Drain(c) \/ AppendBatch(c) \/ CrashChainer(c)

PollStep(r) == \E s \in Sources : Plant(r, s) \/ Poll(r, s)

RunStep(r) ==
    \/ StartRun(r) \/ PollStep(r) \/ Preflight(r) \/ Deliver(r) \/ DeliverPart(r)
    \/ Commit(r) \/ CrashRun(r) \/ LoseLock(r)

Next ==
    \/ Tick
    \/ \E e \in Entries : Write(e)
    \/ \E c \in Chainers : ChainStep(c)
    \/ \E r \in Runs : RunStep(r)

Spec == Init /\ [][Next]_vars

\* Both workers are scheduled every thirty seconds, and go on with what they
\* have begun; nothing else has to happen.
Fairness ==
    /\ WF_vars(\E c \in Chainers : Drain(c) \/ AppendBatch(c))
    /\ WF_vars(\E r \in Runs : StartRun(r) \/ PollStep(r) \/ Preflight(r) \/ Deliver(r) \/ Commit(r))

FairSpec == Spec /\ Fairness

(***************************************************************************)
(* Properties                                                              *)
(***************************************************************************)
\* A row that entered its log after a row with a later (timestamp, id).
OutOfOrder(s) ==
    {e \in Logged(s) : \E i, j \in DOMAIN log[s] : i < j /\ log[s][j] = e /\ Before(e, log[s][i])}

\* Rows the delivery owes the SIEM, and the cursor of their log is past them.
Owed(s) == {e \in Logged(s) \ OutOfOrder(s) : planted[s] # 0 /\ entry[e].ts >= planted[s]}

Passed(s) == {e \in Owed(s) : ~ Beyond(e, cursor[s])}

\* Types; a cursor stands on a row of its own log or where it was planted; and
\* a run that is sending has something to send.
TypeOK ==
    /\ clock \in 1..MaxClock
    /\ entry \in [Entries -> [pc : {"idle", "stamped", "queued", "logged"},
                              ts : 0..MaxClock, at : 0..MaxClock, prev : Entries \cup {0}]]
    /\ log \in [Sources -> Seq(Entries)] /\ \A s \in Sources : log[s] \in Seq(Of(s))
    /\ chainer \in [Chainers -> [pc : {"idle", "append"}, batch : SUBSET Events, head : Events \cup {0}]]
    /\ chainLock \in Chainers \cup {None}
    /\ cursor \in [Sources -> [ts : 0..MaxClock, id : Entries \cup {0}]]
    /\ \A s \in Sources : cursor[s].id \in Logged(s) \cup {0}
    /\ planted \in [Sources -> 0..MaxClock]
    /\ run \in [Runs -> [pc : {"idle", "activity", "event", "preflight", "deliver", "commit"},
                         polled : SUBSET Entries, seen : [Sources -> Nat], batch : SUBSET Entries,
                         acked : SUBSET Entries, tries : 0..MaxRetries, cut : BOOLEAN]]
    /\ \A r \in Runs : run[r].acked \subseteq run[r].batch
    /\ lock \in Runs \cup {None}
    /\ got \subseteq Entries /\ attested \subseteq Entries
    /\ alarm \subseteq Sources /\ lost \in BOOLEAN
    /\ faults \in 0..MaxFaults

\* No fork: every row of a log links to the row before it, whoever chained it
\* and whatever else ran or died meanwhile (activity-logger.ts:508,
\* audit-chainer-worker.ts:311).
ChainLinear ==
    \A s \in Sources : \A i \in DOMAIN log[s] :
        entry[log[s][i]].prev = (IF i = 1 THEN 0 ELSE log[s][i - 1])

\* "An advanced cursor without a receipt would be" a correctness failure
\* (siem-delivery-worker.ts:649): every row a cursor has passed, of those that
\* entered their log in order, is attested; and what is attested was received.
CursorAttested ==
    /\ \A s \in Sources : Passed(s) \subseteq attested
    /\ attested \subseteq got

\* Nobody tampers, so a tamper alarm has one of two causes: a run went on
\* without its lock, or rows of that log arrived out of order.
AlarmsHaveCause == alarm # {} => lost \/ \E s \in alarm : OutOfOrder(s) # {}

\* What a run is about to send leaves nothing older behind: every older row that
\* was in a log when the run polled it has been received, or goes with it
\* (the safety watermark, siem-delivery-worker.ts:460).
OldestFirst ==
    \A r \in Runs : run[r].pc = "deliver" =>
        \A e \in run[r].batch, s \in Sources :
            \A i \in 1..run[r].seen[s] :
                LET x == log[s][i] IN
                x \in Owed(s) /\ entry[x].ts < entry[e].ts => x \in got \cup run[r].batch

\* The delivery reports no tampering when nobody tampers and no lock was lost.
NoFalseAlarm == alarm = {}

\* A security event or an activity that has been accepted after the cursor of
\* its log was planted reaches the SIEM, unless rows arrived out of order.  (What
\* was received stays received, so it is enough that nothing is missing again and
\* again.)
Missing(s) ==
    {e \in Of(s) \ got : /\ entry[e].pc \in {"queued", "logged"}
                        /\ planted[s] # 0 /\ entry[e].ts >= planted[s]}

EventuallyDelivered ==
    []<>(\/ \A s \in Sources : Missing(s) = {}
         \/ \E s \in Sources : OutOfOrder(s) # {})
=============================================================================
