------------------------------ MODULE StreamReap ------------------------------
(***************************************************************************)
(* One AI reply, from its first frame to its last write: the generation    *)
(* that produces it (stream-lifecycle.ts, page-chat-turn.ts) and the       *)
(* reapers that recover it when the generation's process has died          *)
(* (stream-liveness.ts, stream-reap-claim.ts,                              *)
(* materialize-interrupted-stream.ts).                                     *)
(*                                                                         *)
(* Four records of the reply: the frames in the generation's memory, the   *)
(* durable frame log, the snapshot on the ai_stream_sessions row, and the  *)
(* messages row.  A reply is abstracted to how many frames of it a record  *)
(* holds.  The writes are statements of their own, in no transaction.      *)
(*                                                                         *)
(* Nobody tells a reaper that a process is dead: it goes by the heartbeat. *)
(* A healthy generation beats in every unit of time up to Cap; a stall (an *)
(* event loop blocked, a database that refuses the beat) is a unit without *)
(* a beat, and MaxStalls says how many of them there may be.               *)
(***************************************************************************)
EXTENDS Integers

CONSTANTS
    Reapers,     \* materializations under way: lazy reaps, takeovers, Stops
    Local,       \* those that run in the generation's own process
    Stale,       \* STREAM_HEARTBEAT_STALE_MS
    ClaimTtl,    \* REAP_CLAIM_TTL_MS
    Cap,         \* STREAM_MAX_LIFETIME_MS
    MaxFrames,   \* bound: frames of a reply
    MaxStalls,   \* bound: units of time without a heartbeat
    MaxFaults,   \* bound: failed statements and reapers that die
    MaxClock     \* bound: the clock stops here

ASSUME StreamAssumption ==
    /\ Local \subseteq Reapers
    /\ Stale \in Nat \ {0} /\ ClaimTtl \in Nat \ {0} /\ Cap \in Nat \ {0}
    /\ MaxFrames \in Nat /\ MaxStalls \in Nat /\ MaxFaults \in Nat /\ MaxClock \in Nat

VARIABLES
    row,      \* the ai_stream_sessions row
    log,      \* ai_stream_frames: length of the contiguous prefix
    message,  \* the messages row of the reply
    owner,    \* the process that generates the reply
    reaper,   \* the materializations
    clock, stalls, faults,
    kept      \* history: the longest durable record there has been

vars == <<row, log, message, owner, reaper, clock, stalls, faults, kept>>

Never == -1
Unborn == [status |-> "none", content |-> 0]
Placeholder == [status |-> "streaming", content |-> 0]

\* claimedAt: the token the claim wrote (before it, history: the time of the
\* judgement).  owed: history, the longest durable record there was at the claim.
\* A local that no later step reads goes back to 0.
NoReap == [pc |-> "idle", claimedAt |-> Never, beatAtClaim |-> 0,
           snapshot |-> 0, content |-> 0, owed |-> 0]

\* The row has been inserted at time 0; the placeholder is best effort.
Init ==
    /\ row = [status |-> "streaming", beat |-> 0, reapedAt |-> Never, parts |-> 0]
    /\ log = 0
    /\ message \in {Unborn, Placeholder}
    /\ owner = [pc |-> "running", frames |-> 0, writer |-> "open",
                aborted |-> FALSE, finished |-> FALSE, pending |-> "no",
                saved |-> FALSE, unsaved |-> FALSE]
    /\ reaper = [r \in Reapers |-> NoReap]
    /\ clock = 0 /\ stalls = 0 /\ faults = 0 /\ kept = 0

Alive == owner.pc # "dead"
Terminal(m) == m.status \in {"complete", "interrupted"}
Longer(a, b) == IF a >= b THEN a ELSE b

\* Bound: no fault so late that the clock stops before the next reap.
TimeLeft == clock + ClaimTtl < MaxClock

Fault ==
    /\ faults < MaxFaults /\ TimeLeft
    /\ faults' = faults + 1

(***************************************************************************)
(* The generation                                                          *)
(***************************************************************************)
Emit ==
    /\ owner.pc = "running" /\ ~ owner.finished /\ owner.frames < MaxFrames
    /\ owner' = [owner EXCEPT !.frames = @ + 1]
    /\ UNCHANGED <<row, log, message, reaper, clock, stalls, faults, kept>>

\* A batch reaches the frame log, or the writer gives up at the first that fails.
Flush ==
    /\ Alive /\ owner.writer = "open" /\ log < owner.frames
    /\ \/ /\ log' = owner.frames
          /\ kept' = Longer(kept, log')
          /\ UNCHANGED owner
       \/ /\ owner' = [owner EXCEPT !.writer = "disabled"]
          /\ UNCHANGED <<log, kept>>
    /\ UNCHANGED <<row, message, reaper, clock, stalls, faults>>

\* Heartbeat and snapshot writes carry no condition on the row's status.
Beating == Alive /\ ~ owner.finished /\ clock <= Cap

Heartbeat ==
    /\ Beating /\ row.beat # clock
    /\ row' = [row EXCEPT !.beat = clock]
    /\ UNCHANGED <<log, message, owner, reaper, clock, stalls, faults, kept>>

Checkpoint ==
    /\ Beating /\ row.parts # owner.frames
    /\ row' = [row EXCEPT !.beat = clock, !.parts = owner.frames]
    /\ kept' = Longer(kept, owner.frames)
    /\ UNCHANGED <<log, message, owner, reaper, clock, stalls, faults>>

\* lifecycle.finish: stop beating, leave the status write on its way, and drop
\* the log when a save is confirmed, else write its tail.  Idempotent.
Finished(o, ab) ==
    IF o.finished THEN o
    ELSE [o EXCEPT !.finished = TRUE, !.writer = "closed",
                   !.pending = IF ab THEN "aborted" ELSE "complete"]

FinishLog(o) ==
    IF o.finished THEN {log}
    ELSE IF o.saved THEN {0, log}
    ELSE IF o.writer = "open" THEN {o.frames, log} ELSE {log}

Finish(o, ab) ==
    /\ owner' = Finished(o, ab)
    /\ log' \in FinishLog(owner)
    /\ kept' = Longer(kept, log')

\* A Stop, a takeover or the abort watcher reaches the registry entry, which is
\* there until onFinish begins: the row goes terminal as part of stopping the
\* stream, before the reply is saved.
Stop ==
    /\ owner.pc \in {"running", "ended", "refine"} /\ ~ owner.aborted
    /\ Finish([owner EXCEPT !.aborted = TRUE], TRUE)
    /\ UNCHANGED <<row, message, reaper, clock, stalls, faults>>

\* The stream could not be built: finish first, save what there is after.
Throw ==
    /\ owner.pc = "running" /\ ~ owner.aborted
    /\ Finish([owner EXCEPT !.pc = "rescue", !.aborted = TRUE], TRUE)
    /\ UNCHANGED <<row, message, reaper, clock, stalls, faults>>

\* Mutant of End: the stream is finished as soon as it ends.
EndFinishing ==
    /\ owner.pc = "running"
    /\ Finish([owner EXCEPT !.pc = "ended"], owner.aborted)
    /\ UNCHANGED <<row, message, reaper, clock, stalls, faults>>

\* The model has sent its last frame, or the abort has cut it off.
End ==
    /\ owner.pc = "running"
    /\ owner' = [owner EXCEPT !.pc = "ended"]
    /\ UNCHANGED <<row, log, message, reaper, clock, stalls, faults, kept>>

\* The statement of a finish that is on its way arrives, or fails.
LandFinish ==
    /\ Alive /\ owner.pending # "no"
    /\ owner' = [owner EXCEPT !.pending = "no"]
    /\ \/ /\ row' = [row EXCEPT !.status = owner.pending, !.parts = 0]
          /\ UNCHANGED faults
       \/ Fault /\ UNCHANGED row
    /\ UNCHANGED <<log, message, reaper, clock, stalls, kept>>

\* An unconditional upsert of the reply; the log goes once the stream is finished.
OwnReply ==
    [status |-> IF owner.aborted THEN "interrupted" ELSE "complete",
     content |-> owner.frames]

SaveReply(next) ==
    \/ /\ message' = OwnReply
       /\ owner' = [owner EXCEPT !.pc = next, !.saved = TRUE]
       /\ log' \in IF owner.finished /\ ~ owner.saved THEN {0, log} ELSE {log}
       /\ kept' = Longer(kept, owner.frames)
       /\ UNCHANGED faults
    \/ /\ Fault
       /\ owner' = [owner EXCEPT !.pc = next, !.unsaved = ~ owner.saved]
       /\ UNCHANGED <<message, log, kept>>

\* The save at the end of execute, the refined one in onFinish, and the one of
\* the outer catch.  A failed save is logged and the request goes on.
ExecuteEndSave ==
    /\ owner.pc = "ended" /\ SaveReply("refine")
    /\ UNCHANGED <<row, reaper, clock, stalls>>

Refine ==
    /\ owner.pc = "refine" /\ SaveReply("settle")
    /\ UNCHANGED <<row, reaper, clock, stalls>>

Rescue ==
    /\ owner.pc = "rescue" /\ SaveReply("done")
    /\ UNCHANGED <<row, reaper, clock, stalls>>

\* Usage is settled; the stream is finished last.
OnFinish ==
    /\ owner.pc = "settle"
    /\ Finish([owner EXCEPT !.pc = "done"], owner.aborted)
    /\ UNCHANGED <<row, message, reaper, clock, stalls, faults>>

\* The process dies, with the reaps it was running.
Crash ==
    /\ Alive /\ TimeLeft
    /\ owner' = [owner EXCEPT !.pc = "dead", !.pending = "no"]
    /\ reaper' = [r \in Reapers |-> IF r \in Local THEN NoReap ELSE reaper[r]]
    /\ UNCHANGED <<row, log, message, clock, stalls, faults, kept>>

(***************************************************************************)
(* A reap                                                                  *)
(***************************************************************************)
RowLive == clock - row.beat < Stale
StoppedAtCap == row.beat >= Cap - Stale
BeyondBackstop == clock > 2 * Cap

\* Mutant of ProvablyDead: a beat that stopped at the cap counts as a death.
DeadWhenSilent == ~ RowLive

ProvablyDead == ~ RowLive /\ (~ StoppedAtCap \/ BeyondBackstop)

\* The sweep's read, which the claim does not trust.
Judge(r) ==
    /\ reaper[r].pc = "idle"
    /\ row.status = "streaming" /\ ProvablyDead
    /\ reaper' = [reaper EXCEPT ![r] =
           [NoReap EXCEPT !.pc = "judged", !.claimedAt = clock]]
    /\ UNCHANGED <<row, log, message, owner, clock, stalls, faults, kept>>

\* Mutants of Claimable: a claim in force is no obstacle; a claim lasts for ever.
ClaimableTwice == row.status = "streaming" /\ row.beat < clock - Stale

ClaimableOnce == ClaimableTwice /\ row.reapedAt = Never

Claimable ==
    /\ row.status = "streaming"
    /\ row.beat < clock - Stale
    /\ row.reapedAt = Never \/ row.reapedAt < clock - ClaimTtl

\* One UPDATE ... RETURNING takes the claim and reads the row, however long ago
\* the row was judged.
Claim(r) ==
    /\ reaper[r].pc = "judged"
    /\ \/ /\ Claimable
          /\ row' = [row EXCEPT !.reapedAt = clock]
          /\ reaper' = [reaper EXCEPT ![r] =
                 [NoReap EXCEPT !.pc = "claimed", !.claimedAt = clock,
                                !.beatAtClaim = row.beat, !.snapshot = row.parts,
                                !.owed = kept]]
       \/ /\ ~ Claimable
          /\ reaper' = [reaper EXCEPT ![r] = NoReap]
          /\ UNCHANGED row
    /\ UNCHANGED <<log, message, owner, clock, stalls, faults, kept>>

\* Mutant of Recovered: the snapshot is taken for the whole reply.
SnapshotOnly(snapshot) == snapshot

\* The frame log when there is one and it reaches as far as the snapshot.
Recovered(snapshot) == Longer(log, snapshot)

Recover(r) ==
    /\ reaper[r].pc = "claimed"
    /\ reaper' = [reaper EXCEPT ![r].pc = "recovered",
                                ![r].content = Recovered(reaper[r].snapshot),
                                ![r].snapshot = 0]
    /\ UNCHANGED <<row, log, message, owner, clock, stalls, faults, kept>>

\* Mutant of Materialize: the upsert does not look at the status.
MaterializeOver(r) ==
    /\ reaper[r].pc = "recovered"
    /\ message' = [status |-> "interrupted", content |-> reaper[r].content]
    /\ reaper' = [reaper EXCEPT ![r].pc = "written", ![r].content = 0,
                                ![r].owed = 0]
    /\ UNCHANGED <<row, log, owner, clock, stalls, faults, kept>>

\* Insert the reply, or overwrite a placeholder; a reply already saved stays.
Materialize(r) ==
    /\ reaper[r].pc = "recovered"
    /\ message' = IF Terminal(message) THEN message
                  ELSE [status |-> "interrupted", content |-> reaper[r].content]
    /\ reaper' = [reaper EXCEPT ![r].pc = "written", ![r].content = 0,
                                ![r].owed = 0]
    /\ UNCHANGED <<row, log, owner, clock, stalls, faults, kept>>

\* Mutant of Fence: a beat since the claim does not matter.
FenceOnToken(r) == row.status = "streaming" /\ row.reapedAt = reaper[r].claimedAt

Fence(r) ==
    /\ row.status = "streaming"
    /\ row.reapedAt = reaper[r].claimedAt
    /\ row.beat <= reaper[r].beatAtClaim

\* May the frames go?  Not those of a writer in this process, not without the
\* fence.  (An unreadable row counts as a fence that does not hold.)
CheckRelease(r) ==
    /\ reaper[r].pc = "written"
    /\ LET writerHere == r \in Local /\ Alive /\ owner.writer # "closed"
       IN  reaper' = [reaper EXCEPT ![r].pc =
               IF ~ writerHere /\ Fence(r) THEN "release" ELSE "settle"]
    /\ UNCHANGED <<row, log, message, owner, clock, stalls, faults, kept>>

\* The DELETE cannot carry the fence.  A live writer's later frames then have a
\* gap before them, which ends the prefix a reader sees.
Release(r) ==
    /\ reaper[r].pc = "release"
    /\ log' \in {0, log}
    /\ owner' = IF log' < log /\ owner.writer = "open"
                THEN [owner EXCEPT !.writer = "disabled"] ELSE owner
    /\ reaper' = [reaper EXCEPT ![r].pc = "settle"]
    /\ UNCHANGED <<row, message, clock, stalls, faults, kept>>

\* Mutant of Settle: the status of the message is written to the session row.
SettleInterrupted(r) ==
    /\ reaper[r].pc = "settle"
    /\ row' = IF Fence(r) THEN [row EXCEPT !.status = "interrupted", !.parts = 0] ELSE row
    /\ reaper' = [reaper EXCEPT ![r] = NoReap]
    /\ UNCHANGED <<log, message, owner, clock, stalls, faults, kept>>

Settle(r) ==
    /\ reaper[r].pc = "settle"
    /\ row' = IF Fence(r) THEN [row EXCEPT !.status = "aborted", !.parts = 0] ELSE row
    /\ reaper' = [reaper EXCEPT ![r] = NoReap]
    /\ UNCHANGED <<log, message, owner, clock, stalls, faults, kept>>

\* Its process dies, or a statement fails and the next sweep has to retry.
GiveUp(r) ==
    /\ reaper[r].pc # "idle" /\ Fault
    /\ reaper' = [reaper EXCEPT ![r] = NoReap]
    /\ UNCHANGED <<row, log, message, owner, clock, stalls, kept>>

\* Time passes; a unit without the beat that was due is a stall.
Tick ==
    /\ clock < MaxClock
    /\ clock' = clock + 1
    /\ IF Beating /\ row.beat # clock
       THEN stalls < MaxStalls /\ stalls' = stalls + 1
       ELSE UNCHANGED stalls
    /\ UNCHANGED <<row, log, message, owner, reaper, faults, kept>>

Generate ==
    \/ Emit \/ Flush \/ Heartbeat \/ Checkpoint
    \/ Stop \/ Throw \/ End \/ LandFinish
    \/ ExecuteEndSave \/ Refine \/ Rescue \/ OnFinish \/ Crash

Reap(r) ==
    \/ Claim(r) \/ Recover(r) \/ Materialize(r)
    \/ CheckRelease(r) \/ Release(r) \/ Settle(r)

Next ==
    \/ Generate
    \/ \E r \in Reapers : Judge(r) \/ Reap(r) \/ GiveUp(r)
    \/ Tick

Spec == Init /\ [][Next]_vars

(***************************************************************************)
(* Fairness: statements return, and as long as the row is 'streaming'      *)
(* somebody looks at its conversation again (a reload polls                *)
(* active-streams, which reaps; so does the next send).  Nothing is        *)
(* assumed of the generation: it may hang, die or never end.               *)
(***************************************************************************)
FairSpec ==
    /\ Spec
    /\ \A r \in Reapers : WF_vars(Judge(r)) /\ WF_vars(Reap(r))
    /\ WF_vars(Tick)

(***************************************************************************)
(* Properties                                                              *)
(***************************************************************************)
RowType == [status: {"streaming", "complete", "aborted"}, beat: Nat,
            reapedAt: Nat \cup {Never}, parts: Nat]
MessageType == [status: {"none", "streaming", "interrupted", "complete"}, content: Nat]
OwnerType ==
    [pc: {"running", "ended", "refine", "settle", "rescue", "done", "dead"},
     frames: Nat, writer: {"open", "disabled", "closed"}, aborted: BOOLEAN,
     finished: BOOLEAN, pending: {"no", "aborted", "complete"},
     saved: BOOLEAN, unsaved: BOOLEAN]
ReaperType ==
    [pc: {"idle", "judged", "claimed", "recovered", "written", "release", "settle"},
     claimedAt: Nat \cup {Never}, beatAtClaim: Nat, snapshot: Nat, content: Nat,
     owed: Nat]

\* Every variable keeps its shape.
TypeOK ==
    /\ row \in RowType /\ log \in Nat /\ message \in MessageType
    /\ owner \in OwnerType /\ reaper \in [Reapers -> ReaperType]
    /\ clock \in Nat /\ stalls \in Nat /\ faults \in Nat /\ kept \in Nat

Reaping == {"claimed", "recovered", "written", "release", "settle"}

\* A claim may change hands, after its TTL, while the reaper it is taken from
\* still runs; two reapers never pass the fence of one row both.
OneReaper ==
    \A r, q \in Reapers :
        reaper[r].pc \in Reaping /\ reaper[q].pc \in Reaping
            /\ Fence(r) /\ Fence(q) => r = q

\* A stream that is heard of is never hidden: when a reap turns a row terminal
\* its last beat is older than Stale at that moment, however long ago the reaper
\* read, judged and claimed it.
OnlySilentReaped ==
    [][(\E r \in Reapers : Settle(r)) /\ row' # row => clock - row.beat > Stale]_vars

\* A generation that has missed fewer beats than make it stale loses its row to
\* no sweep that looked at it after its heartbeat had ended at the cap, until the
\* backstop; one that looked before needs its claim to come later than Stale
\* after the cap, because every beat since its look refuses the claim.
HealthyKeepsRow ==
    [][\A r \in Reapers :
          Claim(r) /\ row' # row
              /\ Alive /\ ~ owner.finished /\ stalls < Stale /\ clock <= 2 * Cap
          => reaper[r].claimedAt < Cap /\ clock > Cap + Stale]_vars

\* The generation has the last word: once it has saved its reply, no reap that
\* still holds an older copy of it, claimed before, replaces what it saved.
OwnerHasLastWord ==
    owner.saved => Terminal(message) /\ message.content = owner.frames

\* Wherever the process dies, a row that went terminal without an abort and
\* without a failed save has its reply: nobody looks for it any more.
SettledMeansSaved ==
    row.status # "streaming" /\ ~ owner.aborted /\ ~ owner.unsaved => Terminal(message)

\* What a reap writes into the conversation is as long as the longest durable
\* record of the reply, log or snapshot, there had been when it took its claim,
\* whatever reaps before it have deleted and whoever has stopped or stalled.
\* (Frames that a generation logs after the claim may be lost.)
RecoveryKeepsLongest ==
    [][\A r \in Reapers : Materialize(r) /\ message' # message
          => message'.content >= reaper[r].owed]_vars

\* A dead process's row does not stay 'streaming', although reapers die with the
\* claim in their hands: it is settled, and the reply is in the conversation.
DeadIsRecovered ==
    ~ Alive /\ row.status = "streaming" ~> row.status # "streaming" /\ Terminal(message)

\* What stream-lifecycle.ts:672 says of a row that leaves 'streaming', its
\* snapshot wiped: the reply is already saved.  If the process dies it stays so.
NoGhostPlaceholder == ~ Alive /\ row.status # "streaming" => Terminal(message)
=============================================================================
