---------------------------- MODULE StreamTakeover ----------------------------
(***************************************************************************)
(* The sends and the Stops of one conversation, on several web instances   *)
(* (start-chat-generation.ts, start-generation-exclusive.ts,               *)
(* stream-takeover.ts, abort-stream-anywhere.ts, stream-abort-*.ts).       *)
(*                                                                         *)
(* A send takes the conversation over, inserts its session row, and        *)
(* generates.  Whoever wants a generation to stop aborts it in the         *)
(* registry of its own process, or marks its row and waits for the watcher *)
(* of the process that owns it.  Everything but the registry is a database *)
(* statement, and between two of them anybody else may act.                *)
(*                                                                         *)
(* There is no clock: a wait may time out, and an intent may expire, at    *)
(* any moment.  Staleness is the flag cold, which a row gets only when     *)
(* nothing beats for it any more; how a beat is judged is StreamReap.      *)
(***************************************************************************)
EXTENDS Integers

CONSTANTS
    Sends,       \* requests to generate; each is a generation and a message id
    Stops,       \* requests to stop the conversation
    Instances,   \* web processes
    Users,
    InstanceOf,  \* the process that serves a send or a Stop
    UserOf,      \* the user who made it
    Prompt,      \* sends whose statements return in time; the others may hang
    MaxRetries,  \* MAX_LOCK_BUSY_RETRIES
    MaxFaults,   \* bound: failed statements, lost connections, dead processes
    None

ASSUME TakeoverAssumption ==
    /\ InstanceOf \in [Sends \cup Stops -> Instances]
    /\ UserOf \in [Sends \cup Stops -> Users]
    /\ Prompt \subseteq Sends /\ None \notin Sends
    /\ MaxRetries \in Nat /\ MaxFaults \in Nat

VARIABLES
    gen,       \* the sends, with what their process keeps of them
    row,       \* their ai_stream_sessions rows
    lock,      \* the advisory lock of the conversation
    intent,    \* ai_pending_abort_intents, per user
    watching,  \* is the abort watcher of an instance running?
    seen,      \* the marks its tick has read and not acted on yet
    stop,      \* the Stops
    faults

vars == <<gen, row, lock, intent, watching, seen, stop, faults>>

NoGen ==
    [pc |-> "idle", tries |-> 0, locked |-> FALSE, blind |-> FALSE,
     sees |-> {}, hit |-> {}, dead |-> {}, waits |-> {},
     entry |-> "none", tomb |-> FALSE, signal |-> FALSE, pre |-> FALSE,
     finished |-> FALSE, pending |-> "no"]

Init ==
    /\ gen = [s \in Sends |-> NoGen]
    /\ row = [s \in Sends |-> [status |-> "none", marked |-> FALSE, cold |-> FALSE]]
    /\ lock = None
    /\ intent = [u \in Users |-> "none"]
    /\ watching = [i \in Instances |-> FALSE]
    /\ seen = [i \in Instances |-> {}]
    /\ stop = [p \in Stops |->
          [pc |-> "idle", scope |-> {}, sees |-> {}, hit |-> {}, waits |-> {},
           failed |-> FALSE, answer |-> "none"]]
    /\ faults = 0

Streaming(s) == row[s].status = "streaming"
Here(x, s) == InstanceOf[s] = InstanceOf[x]
Fault == faults < MaxFaults /\ faults' = faults + 1

\* Registered with a live controller in the process of x.
Abortable(x, s) == Here(x, s) /\ gen[s].entry # "none"

\* A generation that is past its insert and will go on or is going on; one that
\* a pending intent has cut off before its start never does.
Generating(s) ==
    /\ gen[s].pc \in {"consume", "place", "attach", "running"}
    /\ ~ gen[s].signal /\ ~ gen[s].pre

(***************************************************************************)
(* The registry: abort the controller, leave a tombstone, and finish the   *)
(* stream if its finisher is attached already (its status write follows).  *)
(***************************************************************************)
Finished(g, status) ==
    IF g.finished THEN g ELSE [g EXCEPT !.finished = TRUE, !.pending = status]

Removed(g) == [g EXCEPT !.entry = "none", !.tomb = g.entry # "none" \/ @]

Aborted(g) ==
    LET h == [Removed(g) EXCEPT !.signal = TRUE]
    IN  IF g.entry = "attached" THEN Finished(h, "aborted") ELSE h

\* gen after an abort of the sends T.
Aborting(T) == [s \in Sends |-> IF s \in T THEN Aborted(gen[s]) ELSE gen[s]]

\* Rows driven terminal, those of T that are still 'streaming'.
Wiped(T) == [s \in Sends |->
    IF s \in T /\ Streaming(s) THEN [row[s] EXCEPT !.status = "aborted", !.marked = FALSE, !.cold = FALSE]
    ELSE row[s]]

\* Rows marked for the watchers of their owners.
Marked(T) == [s \in Sends |-> IF s \in T THEN [row[s] EXCEPT !.marked = TRUE] ELSE row[s]]

\* Rows of T still open when a waiter reads them; a cold one counts as stopped.
Open(T) == {t \in T : Streaming(t) /\ ~ row[t].cold}
Cold(T) == {t \in T : Streaming(t) /\ row[t].cold}

(***************************************************************************)
(* A send: the lock                                                        *)
(***************************************************************************)
Register(s) ==
    /\ gen[s].pc = "idle"
    /\ gen' = [gen EXCEPT ![s].pc = "lock", ![s].entry = "bare"]
    /\ UNCHANGED <<row, lock, intent, watching, seen, stop, faults>>

\* Mutant of MayRetry: a send waits for the lock for ever.
RetryForever(tries) == TRUE

MayRetry(tries) == tries < MaxRetries

Lock(s) ==
    /\ gen[s].pc = "lock"
    /\ \/ /\ lock = None
          /\ lock' = s
          /\ gen' = [gen EXCEPT ![s].pc = "select", ![s].locked = TRUE, ![s].tries = 0]
          /\ UNCHANGED faults
       \/ /\ lock # None
          /\ gen' = IF MayRetry(gen[s].tries)
                    THEN [gen EXCEPT ![s].tries = IF @ < MaxRetries THEN @ + 1 ELSE @]
                    ELSE [gen EXCEPT ![s].pc = "select", ![s].tries = 0]
          /\ UNCHANGED <<lock, faults>>
       \/ /\ Fault
          /\ gen' = [gen EXCEPT ![s].pc = "select", ![s].tries = 0]
          /\ UNCHANGED lock
    /\ UNCHANGED <<row, intent, watching, seen, stop>>

\* The lock lives in a session of its own; the critical section does not notice
\* when the connection breaks.
LoseLock(s) ==
    /\ lock = s /\ Fault
    /\ lock' = None
    /\ gen' = [gen EXCEPT ![s].blind = TRUE]
    /\ UNCHANGED <<row, intent, watching, seen, stop>>

(***************************************************************************)
(* A send: the takeover.  A failed statement never blocks the send; it     *)
(* then generates blind, beside whatever there is.                         *)
(***************************************************************************)
SelectRows(s) ==
    /\ gen[s].pc = "select"
    /\ \/ LET rows == {t \in Sends \ {s} : Streaming(t)}
          IN  /\ gen' = [gen EXCEPT ![s].sees = rows, ![s].dead = Cold(rows),
                                    ![s].pc = IF rows = {} THEN "insert" ELSE "abort"]
              /\ UNCHANGED faults
       \/ /\ Fault
          /\ gen' = [gen EXCEPT ![s].pc = "insert", ![s].blind = TRUE]
    /\ UNCHANGED <<row, lock, intent, watching, seen, stop>>

\* Every row gets an abort attempt, as its owner; only hits are known stopped.
TakeoverAbort(s) ==
    /\ gen[s].pc = "abort"
    /\ LET hit == {t \in gen[s].sees : Abortable(s, t)}
       IN  gen' = [Aborting(hit) EXCEPT ![s].hit = hit, ![s].pc = "wipe"]
    /\ UNCHANGED <<row, lock, intent, watching, seen, stop, faults>>

\* Mutant of Reconcilable: every row the takeover saw is driven terminal.
ReconcileAll(s) == gen[s].sees

\* What may be driven terminal: what was hit, and what was dead and still is.
Reconcilable(s) == gen[s].hit \cup Cold(gen[s].dead)

Wipe(s) ==
    /\ gen[s].pc = "wipe"
    /\ gen' = [gen EXCEPT ![s].pc = "mark"]
    /\ \/ row' = Wiped(Reconcilable(s)) /\ UNCHANGED faults
       \/ Fault /\ UNCHANGED row
    /\ UNCHANGED <<lock, intent, watching, seen, stop>>

\* Mutant of Others: what this process cannot abort is left alone.
NoOthers(s) == {}

\* On other instances; a generation that ended here is over, whatever its row says.
Others(s) ==
    {t \in gen[s].sees \ (gen[s].hit \cup gen[s].dead) : ~ (Here(s, t) /\ gen[t].tomb)}

MarkOthers(s) ==
    /\ gen[s].pc = "mark"
    /\ \/ LET marked == {t \in Others(s) : Streaming(t)}
          IN  /\ row' = Marked(marked)
              /\ gen' = [gen EXCEPT ![s].waits = marked, ![s].hit = {}, ![s].dead = {},
                                    ![s].pc = IF marked = {} THEN "insert" ELSE "await"]
              /\ UNCHANGED faults
       \/ /\ Others(s) # {} /\ Fault
          /\ gen' = [gen EXCEPT ![s].pc = "insert", ![s].blind = TRUE,
                                ![s].hit = {}, ![s].dead = {}]
          /\ UNCHANGED row
    /\ UNCHANGED <<lock, intent, watching, seen, stop>>

\* Polled until all are stopped, or the budget is spent, or the read fails; the
\* cold rows are reaped, if their reap succeeds.
AwaitOthers(s) ==
    /\ gen[s].pc = "await"
    /\ \/ /\ gen' = [gen EXCEPT ![s].pc = "insert", ![s].waits = {},
                                ![s].blind = @ \/ Open(gen[s].waits) # {}]
          /\ row' \in {row, Wiped(Cold(gen[s].waits))}
          /\ UNCHANGED faults
       \/ /\ Fault
          /\ gen' = [gen EXCEPT ![s].pc = "insert", ![s].waits = {}, ![s].blind = TRUE]
          /\ UNCHANGED row
    /\ UNCHANGED <<lock, intent, watching, seen, stop>>

(***************************************************************************)
(* A send: its row, the pending intent, its placeholder                    *)
(***************************************************************************)
\* The watcher is started first.
Insert(s) ==
    /\ gen[s].pc = "insert"
    /\ watching' = [watching EXCEPT ![InstanceOf[s]] = TRUE]
    /\ \/ /\ row' = [row EXCEPT ![s].status = "streaming"]
          /\ gen' = [gen EXCEPT ![s].pc = "consume"]
          /\ UNCHANGED faults
       \/ /\ Fault
          /\ gen' = [gen EXCEPT ![s].pc = "consume", ![s].blind = TRUE]
          /\ UNCHANGED row
    /\ UNCHANGED <<lock, intent, seen, stop>>

\* An intent of this user is deleted, and honoured if it is fresh.
Consume(s) ==
    /\ gen[s].pc = "consume"
    /\ \/ /\ intent' = [intent EXCEPT ![UserOf[s]] = "none"]
          /\ gen' = IF intent[UserOf[s]] = "fresh"
                    THEN [gen EXCEPT ![s].pc = "preabort", ![s].pre = TRUE]
                    ELSE [gen EXCEPT ![s].pc = "place"]
          /\ UNCHANGED faults
       \/ /\ Fault
          /\ gen' = [gen EXCEPT ![s].pc = "place"]
          /\ UNCHANGED intent
    /\ UNCHANGED <<row, lock, watching, seen, stop>>

PreAbort(s) ==
    /\ gen[s].pc = "preabort"
    /\ gen' = [gen EXCEPT ![s].pc = "place"]
    /\ \/ row' = Wiped({s}) /\ UNCHANGED faults
       \/ Fault /\ UNCHANGED row
    /\ UNCHANGED <<lock, intent, watching, seen, stop>>

\* The placeholder, best effort; then the lock is given back.
Place(s) ==
    /\ gen[s].pc = "place"
    /\ gen' = [gen EXCEPT ![s].pc = "attach"]
    /\ lock' = IF lock = s THEN None ELSE lock
    /\ UNCHANGED <<row, intent, watching, seen, stop, faults>>

\* The finisher is bound to the registry entry, unless an abort has taken it.
Attach(s) ==
    /\ gen[s].pc = "attach"
    /\ gen' = [gen EXCEPT ![s] =
          IF @.pre THEN [Removed(@) EXCEPT !.pc = "over", !.signal = TRUE]
          ELSE [@ EXCEPT !.pc = "running",
                         !.entry = IF gen[s].entry = "none" THEN "none" ELSE "attached"]]
    /\ UNCHANGED <<row, lock, intent, watching, seen, stop, faults>>

(***************************************************************************)
(* A generation                                                            *)
(***************************************************************************)
\* The hook of an abort that the model call notices.
OnAbort(s) ==
    /\ gen[s].pc = "running" /\ gen[s].signal /\ ~ gen[s].finished
    /\ gen' = [gen EXCEPT ![s] = Finished(@, "aborted")]
    /\ UNCHANGED <<row, lock, intent, watching, seen, stop, faults>>

\* It ends, by itself or cut off; the reply is saved before the stream is finished.
End(s) ==
    /\ gen[s].pc = "running"
    /\ gen' = [gen EXCEPT ![s] = [Removed(@) EXCEPT !.pc = "saving"]]
    /\ UNCHANGED <<row, lock, intent, watching, seen, stop, faults>>

OnFinish(s) ==
    /\ gen[s].pc = "saving"
    /\ gen' = [gen EXCEPT ![s] =
          [Finished(@, IF @.signal THEN "aborted" ELSE "complete")
              EXCEPT !.pc = "over", !.locked = FALSE, !.blind = FALSE]]
    /\ UNCHANGED <<row, lock, intent, watching, seen, stop, faults>>

LandFinish(s) ==
    /\ gen[s].pending # "no"
    /\ gen' = [gen EXCEPT ![s].pending = "no"]
    /\ \/ /\ row' = IF row[s].status = "none" THEN row
                    ELSE [row EXCEPT ![s].status = gen[s].pending]
          /\ UNCHANGED faults
       \/ Fault /\ UNCHANGED row
    /\ UNCHANGED <<lock, intent, watching, seen, stop>>

\* A row for which nothing beats any more goes stale.
GoCold(s) ==
    /\ Streaming(s) /\ ~ row[s].cold
    /\ gen[s].pc = "dead" \/ gen[s].pre \/ gen[s].finished
    /\ row' = [row EXCEPT ![s].cold = TRUE]
    /\ UNCHANGED <<gen, lock, intent, watching, seen, stop, faults>>

(***************************************************************************)
(* The abort watcher of an instance                                        *)
(***************************************************************************)
Entries(i) == {s \in Sends : InstanceOf[s] = i /\ gen[s].entry # "none"}

\* Mutant of ReadMarks: the marks of all instances are read.
ReadMarksOfAll(i) ==
    /\ watching[i] /\ seen[i] = {}
    /\ IF Entries(i) = {} THEN watching' = [watching EXCEPT ![i] = FALSE] /\ UNCHANGED seen
       ELSE LET marks == {s \in Sends : Streaming(s) /\ row[s].marked}
            IN  marks # {} /\ seen' = [seen EXCEPT ![i] = marks] /\ UNCHANGED watching
    /\ UNCHANGED <<gen, row, lock, intent, stop, faults>>

\* Mutant of ReadMarks: the watcher stops when a tick finds nothing to do.
ReadMarksOnce(i) ==
    /\ watching[i] /\ seen[i] = {}
    /\ LET marks == {s \in Entries(i) : Streaming(s) /\ row[s].marked}
       IN  /\ seen' = [seen EXCEPT ![i] = marks]
           /\ watching' = [watching EXCEPT ![i] = marks # {}]
    /\ UNCHANGED <<gen, row, lock, intent, stop, faults>>

\* A tick reads the marks of its own streams, or stops the watcher when there is
\* none.
ReadMarks(i) ==
    /\ watching[i] /\ seen[i] = {}
    /\ IF Entries(i) = {} THEN watching' = [watching EXCEPT ![i] = FALSE] /\ UNCHANGED seen
       ELSE LET marks == {s \in Entries(i) : Streaming(s) /\ row[s].marked}
            IN  marks # {} /\ seen' = [seen EXCEPT ![i] = marks] /\ UNCHANGED watching
    /\ UNCHANGED <<gen, row, lock, intent, stop, faults>>

ConsumeMarks(i) ==
    /\ seen[i] # {}
    /\ gen' = Aborting(seen[i] \cap Entries(i))
    /\ seen' = [seen EXCEPT ![i] = {}]
    /\ UNCHANGED <<row, lock, intent, watching, stop, faults>>

(***************************************************************************)
(* A Stop                                                                  *)
(***************************************************************************)
Own(p) == {s \in Sends : UserOf[s] = UserOf[p]}

\* A precise name that this process knows ends the matter.  (The client may name
\* any stream it has been told of, an old one too.)
StopNamed(p) ==
    /\ stop[p].pc = "idle"
    /\ \E name \in {s \in Own(p) : gen[s].pc \in {"running", "saving", "over"}} \cup {None} :
         IF name # None /\ Abortable(p, name)
         THEN /\ gen' = Aborting({name})
              /\ stop' = [stop EXCEPT ![p].pc = "done", ![p].answer = "aborted",
                                      ![p].scope = {name}]
         ELSE /\ stop' = [stop EXCEPT ![p].pc = "find",
                                      ![p].scope = {s \in Own(p) : Streaming(s)}]
              /\ UNCHANGED gen
    /\ UNCHANGED <<row, lock, intent, watching, seen, faults>>

\* The caller's rows in the conversation; a failed lookup finds none.
FindConversation(p) ==
    /\ stop[p].pc = "find"
    /\ \/ /\ stop' = [stop EXCEPT ![p].pc = "abort", ![p].sees = {s \in Own(p) : Streaming(s)}]
          /\ UNCHANGED faults
       \/ /\ Fault
          /\ stop' = [stop EXCEPT ![p].pc = "mark"]
    /\ UNCHANGED <<gen, row, lock, intent, watching, seen>>

AbortConversation(p) ==
    /\ stop[p].pc = "abort"
    /\ LET hit == {s \in stop[p].sees : Abortable(p, s)}
       IN  /\ gen' = Aborting(hit)
           /\ stop' = [stop EXCEPT ![p].pc = "mark", ![p].sees = {}, ![p].hit = hit]
    /\ UNCHANGED <<row, lock, intent, watching, seen, faults>>

\* The caller's id in the WHERE clause is the authorization.
Markable(p) == {s \in Own(p) : Streaming(s)}

Answer(p, answer) ==
    stop' = [stop EXCEPT ![p].pc = "done", ![p].answer = answer,
                         ![p].sees = {}, ![p].hit = {}, ![p].waits = {}]

\* One statement per name; the ones before a failed one have marked their rows.
MarkConversation(p) ==
    /\ stop[p].pc = "mark"
    /\ \/ LET marked == Markable(p)
              waits == {s \in marked \ stop[p].hit : ~ (Here(p, s) /\ gen[s].tomb)}
          IN  /\ row' = Marked(marked)
              /\ \/ /\ waits # {}
                    /\ stop' = [stop EXCEPT ![p].pc = "await", ![p].waits = waits]
                 \/ waits = {} /\ stop[p].hit # {} /\ Answer(p, "aborted")
                 \/ waits = {} /\ stop[p].hit = {} /\ marked # {} /\ Answer(p, "not_found")
                 \/ /\ stop[p].hit = {} /\ marked = {}
                    /\ stop' = [stop EXCEPT ![p].pc = "intend"]
              /\ UNCHANGED faults
       \/ /\ Fault
          /\ stop' = [stop EXCEPT ![p].pc = "done", ![p].failed = TRUE,
                ![p].answer = IF stop[p].hit # {} THEN "aborted" ELSE "unconfirmed"]
          /\ \E T \in SUBSET Markable(p) : row' = Marked(T)
    /\ UNCHANGED <<gen, lock, intent, watching, seen>>

\* Nothing was found: the send may still be in its preflight.
RecordIntent(p) ==
    /\ stop[p].pc = "intend"
    /\ \/ intent' = [intent EXCEPT ![UserOf[p]] = "fresh"] /\ UNCHANGED faults
       \/ Fault /\ UNCHANGED intent
    /\ Answer(p, "not_found")
    /\ UNCHANGED <<gen, row, lock, watching, seen>>

\* Mutant of Verdict: a mark is as good as a stop.
VerdictOfMark(open) == "aborted"

Verdict(open) == IF open = {} THEN "aborted" ELSE "unconfirmed"

AwaitConversation(p) ==
    /\ stop[p].pc = "await"
    /\ \/ /\ Answer(p, Verdict(Open(stop[p].waits)))
          /\ row' \in {row, Wiped(Cold(stop[p].waits))}
          /\ UNCHANGED faults
       \/ Fault /\ Answer(p, "unconfirmed") /\ UNCHANGED row
    /\ UNCHANGED <<gen, lock, intent, watching, seen>>

ExpireIntent(u) ==
    /\ intent[u] = "fresh"
    /\ intent' = [intent EXCEPT ![u] = "old"]
    /\ UNCHANGED <<gen, row, lock, watching, seen, stop, faults>>

\* A process dies and starts again; its session, and with it the lock, goes too.
Crash(i) ==
    /\ Fault
    /\ gen' = [s \in Sends |->
          IF InstanceOf[s] = i /\ gen[s].pc # "idle"
          THEN [NoGen EXCEPT !.pc = "dead", !.sees = gen[s].sees]
          ELSE gen[s]]
    /\ lock' = IF lock # None /\ InstanceOf[lock] = i THEN None ELSE lock
    /\ watching' = [watching EXCEPT ![i] = FALSE]
    /\ seen' = [seen EXCEPT ![i] = {}]
    /\ stop' = [p \in Stops |->
          IF InstanceOf[p] = i /\ stop[p].pc # "idle"
          THEN [stop[p] EXCEPT !.pc = "done"] ELSE stop[p]]
    /\ UNCHANGED <<row, intent>>

Start(s) ==
    \/ Lock(s) \/ SelectRows(s) \/ TakeoverAbort(s) \/ Wipe(s)
    \/ MarkOthers(s) \/ AwaitOthers(s)
    \/ Insert(s) \/ Consume(s) \/ PreAbort(s) \/ Place(s) \/ Attach(s)

Generate(s) == OnAbort(s) \/ End(s) \/ OnFinish(s) \/ LandFinish(s) \/ GoCold(s)

StopStep(p) ==
    \/ FindConversation(p) \/ AbortConversation(p) \/ MarkConversation(p)
    \/ RecordIntent(p) \/ AwaitConversation(p)

Watch(i) == ReadMarks(i) \/ ConsumeMarks(i)

Next ==
    \/ \E s \in Sends : Register(s) \/ Start(s) \/ LoseLock(s) \/ Generate(s)
    \/ \E i \in Instances : Watch(i) \/ Crash(i)
    \/ \E p \in Stops : StopNamed(p) \/ StopStep(p)
    \/ \E u \in Users : ExpireIntent(u)

Spec == Init /\ [][Next]_vars

(***************************************************************************)
(* Fairness: the statements of a Prompt send return, and watchers tick.    *)
(* Nothing makes a generation end, and no Stop or other send go on.        *)
(***************************************************************************)
FairSpec ==
    /\ Spec
    /\ \A s \in Prompt : WF_vars(Start(s))
    /\ \A i \in Instances : WF_vars(Watch(i))

(***************************************************************************)
(* Properties                                                              *)
(***************************************************************************)
GenType ==
    [pc: {"idle", "lock", "select", "abort", "wipe", "mark", "await", "insert", "consume",
          "preabort", "place", "attach", "running", "saving", "over", "dead"},
     tries: 0..MaxRetries, locked: BOOLEAN, blind: BOOLEAN,
     sees: SUBSET Sends, hit: SUBSET Sends, dead: SUBSET Sends, waits: SUBSET Sends,
     entry: {"none", "bare", "attached"}, tomb: BOOLEAN, signal: BOOLEAN, pre: BOOLEAN,
     finished: BOOLEAN, pending: {"no", "aborted", "complete"}]
RowType == [status: {"none", "streaming", "aborted", "complete"},
            marked: BOOLEAN, cold: BOOLEAN]
StopType ==
    [pc: {"idle", "find", "abort", "mark", "await", "intend", "done"},
     scope: SUBSET Sends, sees: SUBSET Sends, hit: SUBSET Sends, waits: SUBSET Sends,
     failed: BOOLEAN, answer: {"none", "aborted", "not_found", "unconfirmed"}]

\* Every variable keeps its shape, and a watcher holds marks of its own sends only.
TypeOK ==
    /\ gen \in [Sends -> GenType] /\ row \in [Sends -> RowType]
    /\ lock \in Sends \cup {None}
    /\ intent \in [Users -> {"none", "fresh", "old"}]
    /\ watching \in [Instances -> BOOLEAN] /\ seen \in [Instances -> SUBSET Sends]
    /\ \A i \in Instances : \A s \in seen[i] : InstanceOf[s] = i
    /\ stop \in [Stops -> StopType] /\ faults \in 0..MaxFaults

\* Two sends that both started under the lock, and were told of nothing that
\* went on beside them, never generate at once, on one instance or on two: the
\* later one has stopped the earlier one, wherever it found it.
OneGeneration ==
    \A s, t \in Sends :
        /\ Generating(s) /\ gen[s].locked /\ ~ gen[s].blind
        /\ Generating(t) /\ gen[t].locked /\ ~ gen[t].blind
        => s = t

\* A row that has left 'streaming' hides its stream from every client and from
\* every Stop: no takeover, Stop, watcher or finish gets it there while its
\* generation goes on.
TerminalMeansStopped ==
    \A s \in Sends : row[s].status \in {"aborted", "complete"} => ~ Generating(s)

\* When a Stop is answered 'aborted', or with the silent 'not_found', nothing of
\* the caller's that was streaming when it was pressed generates any more, here
\* or on another instance.  (The Stops that could not be recorded: see below.)
Silenced(p) ==
    stop[p].answer \in {"aborted", "not_found"}
        => \A s \in stop[p].scope : ~ Generating(s)

StopIsHonest == \A p \in Stops : stop[p].failed \/ Silenced(p)

\* What stream-abort-decisions.ts:176 says of a verdict on several streams: one
\* that is still live is not masked by the siblings that did stop.
NoStreamMasked == \A p \in Stops : Silenced(p)

\* A mark on a generation reaches it: the watcher of its process is running and
\* stops it, in whatever state of its start the mark finds it.  (A generation
\* that has been stopped stays stopped, so it is enough that none is left marked
\* and generating again and again.)
MarkReaches ==
    []<>(\A s \in Sends : ~ (Streaming(s) /\ row[s].marked /\ Generating(s)))

\* A send is never blocked by another one that hangs with the lock in its hands.
SendNeverBlocks ==
    \A s \in Prompt :
        gen[s].pc = "lock" ~> gen[s].pc \in {"running", "saving", "over", "dead"}
=============================================================================
