--------------------------- MODULE StreamReapProofs ---------------------------
(***************************************************************************)
(* Theorems about StreamReap, for every value of its constants.            *)
(***************************************************************************)
EXTENDS StreamReap, TLAPS

(***************************************************************************)
(* Type correctness                                                        *)
(***************************************************************************)
\* Longer, for arguments whose type is known.
LEMMA LongerFacts ==
    ASSUME NEW a \in Nat, NEW b \in Nat
    PROVE  Longer(a, b) \in Nat /\ Longer(a, b) >= a /\ Longer(a, b) >= b
  BY DEF Longer

LEMMA InitTypes == Init => TypeOK
  BY DEF Init, TypeOK, RowType, MessageType, OwnerType, ReaperType, NoReap, Never,
         Unborn, Placeholder

\* A change of one reaper's record keeps the type of them all.
LEMMA ReaperTyped ==
    ASSUME reaper \in [Reapers -> ReaperType], NEW r \in Reapers, NEW x \in ReaperType
    PROVE  [reaper EXCEPT ![r] = x] \in [Reapers -> ReaperType]
  OBVIOUS

\* Finishing keeps the types of the process, the log and the history.
LEMMA FinishTypes ==
    ASSUME TypeOK, NEW o \in OwnerType, NEW ab \in BOOLEAN, Finish(o, ab)
    PROVE  owner' \in OwnerType /\ log' \in Nat /\ kept' \in Nat
  <1>1. owner' \in OwnerType
    BY DEF Finish, Finished, OwnerType
  <1>2. log' \in Nat
    BY DEF Finish, FinishLog, TypeOK, OwnerType
  <1>3. kept' \in Nat
    BY <1>2, LongerFacts DEF Finish, TypeOK
  <1>. QED
    BY <1>1, <1>2, <1>3

\* So does saving the reply, and what is saved is a message.
LEMMA SaveTypes ==
    ASSUME TypeOK, NEW pc \in {"refine", "settle", "done"}, SaveReply(pc)
    PROVE  /\ owner' \in OwnerType /\ log' \in Nat /\ kept' \in Nat
           /\ message' \in MessageType /\ faults' \in Nat
  <1>1. owner' \in OwnerType
    BY DEF SaveReply, TypeOK, OwnerType
  <1>2. message' \in MessageType
    BY DEF SaveReply, OwnReply, TypeOK, OwnerType, MessageType
  <1>3. log' \in Nat /\ faults' \in Nat
    BY DEF SaveReply, Fault, TypeOK
  <1>4. kept' \in Nat
    BY LongerFacts DEF SaveReply, TypeOK, OwnerType
  <1>. QED
    BY <1>1, <1>2, <1>3, <1>4

LEMMA StepTypes == TypeOK /\ [Next]_vars => TypeOK'
  <1>. SUFFICES ASSUME TypeOK, [Next]_vars PROVE TypeOK'
    OBVIOUS
  <1>1. CASE Emit
    BY <1>1 DEF Emit, TypeOK, OwnerType
  <1>2. CASE Flush
    <2>1. kept' \in Nat
      BY <1>2, LongerFacts DEF Flush, TypeOK, OwnerType
    <2>. QED
      BY <1>2, <2>1 DEF Flush, TypeOK, OwnerType
  <1>3. CASE Heartbeat
    BY <1>3 DEF Heartbeat, TypeOK, RowType
  <1>4. CASE Checkpoint
    <2>1. kept' \in Nat
      BY <1>4, LongerFacts DEF Checkpoint, TypeOK, OwnerType
    <2>. QED
      BY <1>4, <2>1, ZenonT(60) DEF Checkpoint, TypeOK, RowType, OwnerType
  <1>5. CASE Stop
    <2>1. [owner EXCEPT !.aborted = TRUE] \in OwnerType
      BY DEF TypeOK, OwnerType
    <2>. QED
      BY <1>5, <2>1, FinishTypes DEF Stop, TypeOK
  <1>6. CASE Throw
    <2>1. [owner EXCEPT !.pc = "rescue", !.aborted = TRUE] \in OwnerType
      BY DEF TypeOK, OwnerType
    <2>. QED
      BY <1>6, <2>1, FinishTypes DEF Throw, TypeOK
  <1>7. CASE End
    BY <1>7 DEF End, TypeOK, OwnerType
  <1>8. CASE LandFinish
    <2>1. owner' \in OwnerType
      BY <1>8 DEF LandFinish, TypeOK, OwnerType
    <2>2. owner.pending \in {"aborted", "complete"}
      BY <1>8 DEF LandFinish, TypeOK, OwnerType
    <2>3. [row EXCEPT !.status = owner.pending, !.parts = 0] \in RowType
      BY <2>2 DEF TypeOK, RowType
    <2>. QED
      BY <1>8, <2>1, <2>3 DEF LandFinish, Fault, TypeOK
  <1>9. CASE ExecuteEndSave \/ Refine \/ Rescue
    BY <1>9, SaveTypes DEF ExecuteEndSave, Refine, Rescue, TypeOK
  <1>10. CASE OnFinish
    <2>1. [owner EXCEPT !.pc = "done"] \in OwnerType /\ owner.aborted \in BOOLEAN
      BY DEF TypeOK, OwnerType
    <2>. QED
      BY <1>10, <2>1, FinishTypes DEF OnFinish, TypeOK
  <1>11. CASE Crash
    BY <1>11 DEF Crash, TypeOK, OwnerType, NoReap, ReaperType, Never
  <1>12. CASE \E r \in Reapers : Judge(r)
    <2>1. PICK r \in Reapers : Judge(r)
      BY <1>12
    <2>2. [NoReap EXCEPT !.pc = "judged", !.claimedAt = clock] \in ReaperType
      BY DEF TypeOK, NoReap, ReaperType, Never
    <2>. QED
      BY <2>1, <2>2, ReaperTyped DEF Judge, TypeOK
  <1>13. CASE \E r \in Reapers : Claim(r)
    <2>1. PICK r \in Reapers : Claim(r)
      BY <1>13
    <2>2. row' \in RowType
      BY <2>1 DEF Claim, TypeOK, RowType
    <2>3. NoReap \in ReaperType
      BY DEF NoReap, ReaperType, Never
    <2>4. [NoReap EXCEPT !.pc = "claimed", !.claimedAt = clock,
                         !.beatAtClaim = row.beat, !.snapshot = row.parts,
                         !.owed = kept] \in ReaperType
      BY DEF TypeOK, NoReap, ReaperType, RowType, Never
    <2>. QED
      BY <2>1, <2>2, <2>3, <2>4, ReaperTyped DEF Claim, TypeOK
  <1>14. CASE \E r \in Reapers : Recover(r)
    <2>1. PICK r \in Reapers : Recover(r)
      BY <1>14
    <2>2. Recovered(reaper[r].snapshot) \in Nat
      BY LongerFacts DEF Recovered, TypeOK, ReaperType
    <2>3. PICK n : n = Recovered(reaper[r].snapshot)
      OBVIOUS
    <2>4. [reaper[r] EXCEPT !.pc = "recovered", !.content = n, !.snapshot = 0] \in ReaperType
      BY <2>2, <2>3 DEF TypeOK, ReaperType
    <2>5. reaper' \in [Reapers -> ReaperType]
      BY <2>1, <2>3, <2>4, ReaperTyped DEF Recover, TypeOK
    <2>. QED
      BY <2>1, <2>5 DEF Recover, TypeOK
  <1>15. CASE \E r \in Reapers : Materialize(r)
    <2>1. PICK r \in Reapers : Materialize(r)
      BY <1>15
    <2>2. reaper[r] \in ReaperType
      BY DEF TypeOK
    <2>3. [reaper[r] EXCEPT !.pc = "written", !.content = 0, !.owed = 0] \in ReaperType
      BY <2>2 DEF ReaperType
    <2>4. reaper' \in [Reapers -> ReaperType]
      BY <2>1, <2>3, ReaperTyped DEF Materialize, TypeOK
    <2>5. message' \in MessageType
      BY <2>1, <2>2 DEF Materialize, TypeOK, ReaperType, MessageType
    <2>. QED
      BY <2>1, <2>4, <2>5 DEF Materialize, TypeOK
  <1>16. CASE \E r \in Reapers : CheckRelease(r)
    BY <1>16 DEF CheckRelease, TypeOK, ReaperType
  <1>17. CASE \E r \in Reapers : Release(r)
    BY <1>17 DEF Release, TypeOK, ReaperType, OwnerType
  <1>18. CASE \E r \in Reapers : Settle(r)
    <2>1. PICK r \in Reapers : Settle(r)
      BY <1>18
    <2>2. row' \in RowType
      BY <2>1 DEF Settle, TypeOK, RowType
    <2>3. NoReap \in ReaperType
      BY DEF NoReap, ReaperType, Never
    <2>. QED
      BY <2>1, <2>2, <2>3, ReaperTyped DEF Settle, TypeOK
  <1>19. CASE \E r \in Reapers : GiveUp(r)
    BY <1>19 DEF GiveUp, Fault, TypeOK, NoReap, ReaperType, Never
  <1>20. CASE Tick
    BY <1>20 DEF Tick, TypeOK
  <1>21. CASE UNCHANGED vars
    BY <1>21 DEF vars, TypeOK
  <1>. QED
    BY <1>1, <1>2, <1>3, <1>4, <1>5, <1>6, <1>7, <1>8, <1>9, <1>10, <1>11, <1>12,
       <1>13, <1>14, <1>15, <1>16, <1>17, <1>18, <1>19, <1>20, <1>21
       DEF Next, Generate, Reap

\* Every variable keeps its shape.
THEOREM TypeCorrect == Spec => []TypeOK
  BY InitTypes, StepTypes, PTL DEF Spec

(***************************************************************************)
(* Claims.  Tokens grow with time, so no two claims carry the same one;    *)
(* and each is more than Stale younger than the beat it was taken against. *)
(***************************************************************************)
Claimant(r) == reaper[r].pc \in Reaping

ClaimInv ==
    /\ row.reapedAt <= clock
    /\ \A r \in Reapers : Claimant(r) =>
          /\ reaper[r].claimedAt \in Nat
          /\ reaper[r].claimedAt <= row.reapedAt
          /\ reaper[r].beatAtClaim + Stale < reaper[r].claimedAt
    /\ \A r, q \in Reapers :
          Claimant(r) /\ Claimant(q) /\ reaper[r].claimedAt = reaper[q].claimedAt => r = q

\* What a claim remembers.
ClaimOf(r) == <<reaper[r].claimedAt, reaper[r].beatAtClaim>>

\* ClaimInv lasts while the token on the row stays and nobody becomes a claimant.
LEMMA ClaimsKept ==
    ASSUME TypeOK, ClaimInv, row'.reapedAt = row.reapedAt, clock' \in {clock, clock + 1},
           \A r \in Reapers : Claimant(r)' => Claimant(r) /\ ClaimOf(r)' = ClaimOf(r)
    PROVE  ClaimInv'
  <1>1. row'.reapedAt <= clock'
    BY DEF ClaimInv, TypeOK, RowType, Never
  <1>2. ASSUME NEW r \in Reapers, Claimant(r)'
        PROVE  /\ reaper'[r].claimedAt \in Nat
               /\ reaper'[r].claimedAt <= row'.reapedAt
               /\ reaper'[r].beatAtClaim + Stale < reaper'[r].claimedAt
    BY <1>2 DEF ClaimInv, ClaimOf
  <1>3. ASSUME NEW r \in Reapers, NEW q \in Reapers, Claimant(r)', Claimant(q)',
               reaper'[r].claimedAt = reaper'[q].claimedAt
        PROVE  r = q
    BY <1>3 DEF ClaimInv, ClaimOf
  <1>. QED
    BY <1>1, <1>2, <1>3 DEF ClaimInv

\* One reaper steps: it stays a claimant with the same claim, or stops being one.
LEMMA ReapStepKeepsClaims ==
    ASSUME TypeOK, ClaimInv, NEW r \in Reapers, NEW x \in ReaperType,
           reaper' = [reaper EXCEPT ![r] = x], row'.reapedAt = row.reapedAt, clock' = clock,
           x.pc \in Reaping => /\ Claimant(r)
                               /\ x.claimedAt = reaper[r].claimedAt
                               /\ x.beatAtClaim = reaper[r].beatAtClaim
    PROVE  ClaimInv'
  <1>1. ASSUME NEW q \in Reapers, Claimant(q)'
        PROVE  Claimant(q) /\ ClaimOf(q)' = ClaimOf(q)
    BY <1>1 DEF Claimant, ClaimOf, TypeOK
  <1>. QED
    BY <1>1, ClaimsKept

\* The claim itself: its token is younger than every other.
LEMMA ClaimKeepsClaims ==
    ASSUME TypeOK, ClaimInv, StreamAssumption, NEW r \in Reapers, Claim(r)
    PROVE  ClaimInv'
  <1>1. CASE ~ Claimable
    <2>1. NoReap \in ReaperType /\ NoReap.pc \notin Reaping
      BY DEF NoReap, ReaperType, Never, Reaping
    <2>. QED
      BY <1>1, <2>1, ReapStepKeepsClaims DEF Claim
  <1>2. CASE Claimable
    <2>1. /\ row' = [row EXCEPT !.reapedAt = clock] /\ clock' = clock
          /\ reaper' = [reaper EXCEPT ![r] =
                 [NoReap EXCEPT !.pc = "claimed", !.claimedAt = clock,
                                !.beatAtClaim = row.beat, !.snapshot = row.parts,
                                !.owed = kept]]
      BY <1>2 DEF Claim
    <2>2. row'.reapedAt = clock
      BY <2>1 DEF TypeOK, RowType
    <2>3. /\ reaper'[r].claimedAt = clock /\ reaper'[r].beatAtClaim = row.beat
          /\ \A q \in Reapers : q # r => reaper'[q] = reaper[q]
      BY <2>1 DEF TypeOK, NoReap
    <2>4. row.beat + Stale < clock /\ row.beat \in Nat /\ clock \in Nat
      BY <1>2 DEF Claimable, TypeOK, RowType, StreamAssumption
    <2>5. ASSUME NEW q \in Reapers, Claimant(q) PROVE reaper[q].claimedAt < clock
      <3>1. /\ reaper[q].claimedAt \in Nat /\ reaper[q].claimedAt <= row.reapedAt
            /\ row.reapedAt \in Nat \cup {-1}
        BY <2>5 DEF ClaimInv, TypeOK, RowType, Never
      <3>2. row.reapedAt # -1 => row.reapedAt < clock - ClaimTtl
        BY <1>2 DEF Claimable, Never
      <3>. QED
        BY <3>1, <3>2 DEF TypeOK, StreamAssumption
    <2>6. ASSUME NEW q \in Reapers, Claimant(q)', q # r
          PROVE  Claimant(q) /\ reaper'[q] = reaper[q]
      BY <2>3, <2>6 DEF Claimant
    <2>7. ASSUME NEW q \in Reapers, Claimant(q)'
          PROVE  /\ reaper'[q].claimedAt \in Nat
                 /\ reaper'[q].claimedAt <= row'.reapedAt
                 /\ reaper'[q].beatAtClaim + Stale < reaper'[q].claimedAt
      <3>1. CASE q = r
        BY <3>1, <2>2, <2>3, <2>4
      <3>2. CASE q # r
        BY <3>2, <2>2, <2>4, <2>5, <2>6, <2>7 DEF ClaimInv
      <3>. QED
        BY <3>1, <3>2
    <2>8. ASSUME NEW p \in Reapers, NEW q \in Reapers, Claimant(p)', Claimant(q)',
                 reaper'[p].claimedAt = reaper'[q].claimedAt
          PROVE  p = q
      <3>1. CASE p # r /\ q # r
        BY <3>1, <2>6, <2>8 DEF ClaimInv
      <3>2. CASE p = r /\ q # r
        <4>1. reaper[q].claimedAt < clock /\ reaper'[q].claimedAt = reaper[q].claimedAt
          BY <3>2, <2>5, <2>6, <2>8
        <4>2. reaper[q].claimedAt \in Nat
          BY <3>2, <2>6, <2>8 DEF ClaimInv
        <4>. QED
          BY <3>2, <4>1, <4>2, <2>3, <2>4, <2>8
      <3>3. CASE p # r /\ q = r
        <4>1. reaper[p].claimedAt < clock /\ reaper'[p].claimedAt = reaper[p].claimedAt
          BY <3>3, <2>5, <2>6, <2>8
        <4>2. reaper[p].claimedAt \in Nat
          BY <3>3, <2>6, <2>8 DEF ClaimInv
        <4>. QED
          BY <3>3, <4>1, <4>2, <2>3, <2>4, <2>8
      <3>. QED
        BY <3>1, <3>2, <3>3
    <2>9. row'.reapedAt <= clock'
      BY <2>1, <2>2, <2>4
    <2>. QED
      BY <2>7, <2>8, <2>9 DEF ClaimInv
  <1>. QED
    BY <1>1, <1>2

LEMMA StepKeepsClaims ==
    ASSUME TypeOK, ClaimInv, StreamAssumption, [Next]_vars
    PROVE  ClaimInv'
  <1>0. row \in RowType /\ reaper \in [Reapers -> ReaperType] /\ TypeOK'
    BY StepTypes DEF TypeOK
  <1>1. CASE Generate \/ Tick \/ UNCHANGED vars
    <2>1. row'.reapedAt = row.reapedAt
      BY <1>0, <1>1 DEF Generate, Emit, Flush, Heartbeat, Checkpoint, Stop, Throw, End,
         LandFinish, ExecuteEndSave, Refine, Rescue, OnFinish, Crash, Tick, vars, RowType
    <2>2. clock' \in {clock, clock + 1}
      BY <1>1 DEF Generate, Emit, Flush, Heartbeat, Checkpoint, Stop, Throw, End,
         LandFinish, ExecuteEndSave, Refine, Rescue, OnFinish, Crash, Tick, vars
    <2>3. reaper' = reaper \/ reaper' = [r \in Reapers |-> IF r \in Local THEN NoReap
                                                          ELSE reaper[r]]
      BY <1>1 DEF Generate, Emit, Flush, Heartbeat, Checkpoint, Stop, Throw, End,
         LandFinish, ExecuteEndSave, Refine, Rescue, OnFinish, Crash, Tick, vars
    <2>4. ASSUME NEW r \in Reapers, Claimant(r)'
          PROVE  Claimant(r) /\ ClaimOf(r)' = ClaimOf(r)
      BY <2>3, <2>4 DEF Claimant, ClaimOf, NoReap, Reaping
    <2>. QED
      BY <2>1, <2>2, <2>4, ClaimsKept
  <1>2. ASSUME NEW r \in Reapers, Claim(r) PROVE ClaimInv'
    BY <1>2, ClaimKeepsClaims
  <1>3. ASSUME NEW r \in Reapers, Judge(r) \/ Settle(r) \/ GiveUp(r) PROVE ClaimInv'
    <2>1. /\ NoReap \in ReaperType /\ NoReap.pc \notin Reaping
          /\ [NoReap EXCEPT !.pc = "judged", !.claimedAt = clock] \in ReaperType
          /\ [NoReap EXCEPT !.pc = "judged", !.claimedAt = clock].pc \notin Reaping
      BY DEF TypeOK, NoReap, ReaperType, Never, Reaping
    <2>2. row'.reapedAt = row.reapedAt /\ clock' = clock
      BY <1>0, <1>3 DEF Judge, Settle, GiveUp, RowType
    <2>3. \/ reaper' = [reaper EXCEPT ![r] = NoReap]
          \/ reaper' = [reaper EXCEPT ![r] =
                 [NoReap EXCEPT !.pc = "judged", !.claimedAt = clock]]
      BY <1>3 DEF Judge, Settle, GiveUp
    <2>. QED
      BY <2>1, <2>2, <2>3, ReapStepKeepsClaims
  <1>4. ASSUME NEW r \in Reapers,
               Recover(r) \/ Materialize(r) \/ CheckRelease(r) \/ Release(r)
        PROVE  ClaimInv'
    <2>1. row'.reapedAt = row.reapedAt /\ clock' = clock
      BY <1>4 DEF Recover, Materialize, CheckRelease, Release
    <2>2. Claimant(r)
      BY <1>4 DEF Recover, Materialize, CheckRelease, Release, Claimant, Reaping
    <2>3. ASSUME NEW q \in Reapers
          PROVE  (Claimant(q)' => Claimant(q)) /\ ClaimOf(q)' = ClaimOf(q)
      BY <1>0, <1>4, <2>2 DEF Recover, Materialize, CheckRelease, Release, Claimant,
         ClaimOf, ReaperType
    <2>. QED
      BY <2>1, <2>3, ClaimsKept
  <1>. QED
    BY <1>1, <1>2, <1>3, <1>4 DEF Next, Reap

LEMMA ClaimInvariant == Spec => [](TypeOK /\ ClaimInv)
  <1>1. Init => TypeOK /\ ClaimInv
    <2>1. Init => ClaimInv
      BY DEF Init, ClaimInv, Claimant, NoReap, Reaping, Never
    <2>. QED
      BY <2>1, InitTypes
  <1>2. TypeOK /\ ClaimInv /\ [Next]_vars => (TypeOK /\ ClaimInv)'
    BY StepTypes, StepKeepsClaims, StreamAssumption
  <1>. QED
    BY <1>1, <1>2, PTL DEF Spec

\* Two reapers never pass the fence of one row both, however slow one of them is
\* and whoever took its claim over.
THEOREM OneReaperHolds == Spec => []OneReaper
  <1>1. ClaimInv => OneReaper
    BY DEF ClaimInv, OneReaper, Claimant, Fence
  <1>. QED
    BY <1>1, ClaimInvariant, PTL

\* A reap never turns a row terminal whose last beat is as young as Stale.
THEOREM SilentWhenReaped == Spec => OnlySilentReaped
  <1>1. ASSUME TypeOK, ClaimInv, \E r \in Reapers : Settle(r), row' # row
        PROVE  clock - row.beat > Stale
    <2>1. PICK r \in Reapers : Settle(r)
      BY <1>1
    <2>2. Fence(r) /\ Claimant(r)
      BY <1>1, <2>1 DEF Settle, Claimant, Reaping
    <2>3. /\ row.beat <= reaper[r].beatAtClaim
          /\ reaper[r].beatAtClaim + Stale < reaper[r].claimedAt
          /\ reaper[r].claimedAt <= row.reapedAt /\ row.reapedAt <= clock
      BY <1>1, <2>2 DEF ClaimInv, Fence
    <2>4. /\ row.beat \in Nat /\ reaper[r].beatAtClaim \in Nat /\ Stale \in Nat
          /\ reaper[r].claimedAt \in Int /\ row.reapedAt \in Int /\ clock \in Nat
      BY <1>1, StreamAssumption DEF TypeOK, RowType, ReaperType, Never, StreamAssumption
    <2>. QED
      BY <2>3, <2>4
  <1>. QED
    BY <1>1, ClaimInvariant, PTL DEF OnlySilentReaped

(***************************************************************************)
(* What is saved.  A generation that goes through its saves has saved the  *)
(* reply or has failed to; a terminal message stays one; and a reap gets   *)
(* to the session row only past its write of the message.                  *)
(***************************************************************************)
Materialized(r) == reaper[r].pc \in {"written", "release", "settle"}

SavedInv ==
    /\ owner.saved => /\ owner.pc \notin {"running", "ended", "rescue"}
                      /\ Terminal(message) /\ message.content = owner.frames
    /\ owner.pc \in {"refine", "settle", "done"} => owner.saved \/ owner.unsaved
    /\ owner.finished => owner.aborted \/ owner.saved \/ owner.unsaved
    /\ owner.pending # "no" => owner.finished
    /\ row.status # "streaming" => owner.finished \/ Terminal(message)
    /\ \A r \in Reapers : Materialized(r) => Terminal(message)

\* The part about reapers lasts when a terminal message stays one, and no reaper
\* gets past its write of the message without one.
LEMMA MaterializedKept ==
    ASSUME SavedInv, Terminal(message) => Terminal(message)',
           \A r \in Reapers : Materialized(r)' => Materialized(r) \/ Terminal(message)'
    PROVE  \A r \in Reapers : Materialized(r)' => Terminal(message)'
  BY DEF SavedInv

\* Saving the reply.
LEMMA SaveKeepsSaved ==
    ASSUME TypeOK, SavedInv, NEW pc \in {"refine", "settle", "done"}, SaveReply(pc),
           UNCHANGED <<row, reaper>>, owner.pc \in {"ended", "refine", "rescue"}
    PROVE  SavedInv'
  <1>1. CASE message' = OwnReply /\ owner' = [owner EXCEPT !.pc = pc, !.saved = TRUE]
    <2>1. Terminal(message)' /\ message'.content = owner.frames
      BY <1>1 DEF OwnReply, Terminal
    <2>2. /\ owner'.pc = pc /\ owner'.saved /\ owner'.frames = owner.frames
          /\ owner'.finished = owner.finished /\ owner'.pending = owner.pending
      BY <1>1 DEF TypeOK, OwnerType
    <2>. QED
      BY <2>1, <2>2 DEF SavedInv, Materialized
  <1>2. CASE /\ message' = message
             /\ owner' = [owner EXCEPT !.pc = pc, !.unsaved = ~ owner.saved]
    <2>1. /\ owner'.pc = pc /\ owner'.saved = owner.saved
          /\ owner'.unsaved = ~ owner.saved /\ owner'.frames = owner.frames
          /\ owner'.aborted = owner.aborted
          /\ owner'.finished = owner.finished /\ owner'.pending = owner.pending
      BY <1>2 DEF TypeOK, OwnerType
    <2>2. owner.saved \in BOOLEAN
      BY DEF TypeOK, OwnerType
    <2>. QED
      BY <1>2, <2>1, <2>2 DEF SavedInv, Materialized, Terminal
  <1>. QED
    BY <1>1, <1>2 DEF SaveReply

\* Finishing, by a process o that differs from the owner in pc and aborted only.
LEMMA FinishKeepsSaved ==
    ASSUME TypeOK, SavedInv, NEW o \in OwnerType, NEW ab \in BOOLEAN, Finish(o, ab),
           UNCHANGED <<row, message, reaper>>,
           o.saved = owner.saved, o.unsaved = owner.unsaved, o.frames = owner.frames,
           o.finished = owner.finished, o.pending = owner.pending,
           owner.aborted => o.aborted,
           o.saved => o.pc \notin {"running", "ended", "rescue"},
           o.pc \in {"refine", "settle", "done"} => o.saved \/ o.unsaved,
           o.aborted \/ o.saved \/ o.unsaved
    PROVE  SavedInv'
  <1>1. /\ owner'.pc = o.pc /\ owner'.saved = o.saved /\ owner'.unsaved = o.unsaved
        /\ owner'.frames = o.frames /\ owner'.aborted = o.aborted /\ owner'.finished
    BY DEF Finish, Finished, OwnerType
  <1>. QED
    BY <1>1 DEF SavedInv, Materialized, Terminal

LEMMA StepKeepsSaved ==
    ASSUME TypeOK, SavedInv, [Next]_vars
    PROVE  SavedInv'
  <1>0. owner \in OwnerType /\ row \in RowType /\ reaper \in [Reapers -> ReaperType]
    BY DEF TypeOK
  <1>1. CASE Emit \/ End
    <2>1. /\ owner'.saved = owner.saved /\ ~ owner.saved
          /\ owner'.pc \in {"running", "ended"}
          /\ owner'.aborted = owner.aborted /\ owner'.unsaved = owner.unsaved
          /\ owner'.finished = owner.finished /\ owner'.pending = owner.pending
      BY <1>0, <1>1 DEF Emit, End, SavedInv, OwnerType
    <2>. QED
      BY <1>1, <2>1 DEF Emit, End, SavedInv, Materialized, Terminal
  <1>2. CASE Flush \/ Heartbeat \/ Checkpoint \/ Tick \/ UNCHANGED vars
    <2>1. /\ owner'.saved = owner.saved /\ owner'.pc = owner.pc
          /\ owner'.frames = owner.frames
          /\ owner'.aborted = owner.aborted /\ owner'.unsaved = owner.unsaved
          /\ owner'.finished = owner.finished /\ owner'.pending = owner.pending
          /\ row'.status = row.status /\ message' = message /\ reaper' = reaper
      BY <1>0, <1>2 DEF Flush, Heartbeat, Checkpoint, Tick, vars, OwnerType, RowType
    <2>. QED
      BY <2>1 DEF SavedInv, Materialized, Terminal
  <1>3. CASE Stop
    <2>1. /\ [owner EXCEPT !.aborted = TRUE] \in OwnerType
          /\ owner.pc \in {"running", "ended", "refine"}
      BY <1>0, <1>3 DEF Stop, OwnerType
    <2>. QED
      BY <1>3, <2>1, <1>0, FinishKeepsSaved DEF Stop, OwnerType, SavedInv
  <1>4. CASE Throw
    <2>1. /\ [owner EXCEPT !.pc = "rescue", !.aborted = TRUE] \in OwnerType
          /\ owner.pc = "running"
      BY <1>0, <1>4 DEF Throw, OwnerType
    <2>. QED
      BY <1>4, <2>1, <1>0, FinishKeepsSaved DEF Throw, OwnerType, SavedInv
  <1>5. CASE OnFinish
    <2>1. /\ [owner EXCEPT !.pc = "done"] \in OwnerType
          /\ owner.pc = "settle" /\ owner.aborted \in BOOLEAN
      BY <1>0, <1>5 DEF OnFinish, OwnerType
    <2>. QED
      BY <1>5, <2>1, <1>0, FinishKeepsSaved DEF OnFinish, OwnerType, SavedInv
  <1>6. CASE LandFinish
    <2>1. /\ owner'.saved = owner.saved /\ owner'.pc = owner.pc
          /\ owner'.frames = owner.frames
          /\ owner'.aborted = owner.aborted /\ owner'.unsaved = owner.unsaved
          /\ owner'.finished = owner.finished /\ owner'.pending = "no" /\ owner.finished
          /\ message' = message /\ reaper' = reaper
      BY <1>0, <1>6 DEF LandFinish, OwnerType, SavedInv
    <2>. QED
      BY <2>1 DEF SavedInv, Materialized, Terminal
  <1>7. CASE ExecuteEndSave \/ Refine \/ Rescue
    BY <1>7, SaveKeepsSaved DEF ExecuteEndSave, Refine, Rescue
  <1>8. CASE Crash
    <2>1. /\ owner'.saved = owner.saved /\ owner'.pc = "dead"
          /\ owner'.frames = owner.frames
          /\ owner'.aborted = owner.aborted /\ owner'.unsaved = owner.unsaved
          /\ owner'.finished = owner.finished /\ owner'.pending = "no"
          /\ row' = row /\ message' = message
      BY <1>0, <1>8 DEF Crash, OwnerType
    <2>2. \A r \in Reapers : Materialized(r)' => Materialized(r)
      BY <1>8 DEF Crash, Materialized, NoReap
    <2>. QED
      BY <2>1, <2>2 DEF SavedInv, Terminal
  <1>9. ASSUME NEW r \in Reapers, Judge(r) \/ Reap(r) \/ GiveUp(r)
        PROVE  SavedInv'
    <2>1. /\ owner'.saved = owner.saved /\ owner'.pc = owner.pc
          /\ owner'.frames = owner.frames
          /\ owner'.aborted = owner.aborted /\ owner'.unsaved = owner.unsaved
          /\ owner'.finished = owner.finished /\ owner'.pending = owner.pending
      BY <1>0, <1>9 DEF Judge, Reap, GiveUp, Claim, Recover, Materialize, CheckRelease,
         Release, Settle, OwnerType
    <2>2. Terminal(message) => message' = message
      BY <1>9 DEF Judge, Reap, GiveUp, Claim, Recover, Materialize, CheckRelease,
         Release, Settle
    <2>3. ASSUME NEW q \in Reapers, Materialized(q)'
          PROVE  Materialized(q) \/ Terminal(message)'
      <3>1. CASE q # r
        BY <1>0, <1>9, <2>3, <3>1 DEF Judge, Reap, GiveUp, Claim, Recover, Materialize,
           CheckRelease, Release, Settle, Materialized
      <3>2. CASE q = r /\ Materialize(r)
        BY <3>2 DEF Materialize, Terminal
      <3>3. CASE q = r /\ (CheckRelease(r) \/ Release(r) \/ Settle(r))
        BY <3>3 DEF CheckRelease, Release, Settle, Materialized
      <3>4. CASE q = r /\ (Judge(r) \/ GiveUp(r) \/ Claim(r) \/ Recover(r))
        <4>1. reaper'[r].pc \in {"idle", "judged", "claimed", "recovered"}
          <5>0. /\ NoReap.pc = "idle"
                /\ [NoReap EXCEPT !.pc = "judged", !.claimedAt = clock].pc = "judged"
                /\ [NoReap EXCEPT !.pc = "claimed", !.claimedAt = clock,
                       !.beatAtClaim = row.beat, !.snapshot = row.parts,
                       !.owed = kept].pc = "claimed"
            BY DEF NoReap
          <5>1. CASE Judge(r) \/ GiveUp(r)
            BY <1>0, <5>0, <5>1 DEF Judge, GiveUp
          <5>2. CASE Claim(r)
            BY <1>0, <5>0, <5>2 DEF Claim
          <5>3. CASE Recover(r)
            <6>1. reaper[r] \in ReaperType /\ reaper'[r] =
                    [reaper[r] EXCEPT !.pc = "recovered",
                                      !.content = Recovered(reaper[r].snapshot),
                                      !.snapshot = 0]
              BY <1>0, <5>3 DEF Recover
            <6>. QED
              BY <6>1 DEF ReaperType
          <5>. QED
            BY <3>4, <5>1, <5>2, <5>3
        <4>. QED
          BY <2>3, <3>4, <4>1 DEF Materialized
      <3>. QED
        BY <1>9, <3>1, <3>2, <3>3, <3>4 DEF Reap
    <2>4. \A q \in Reapers : Materialized(q)' => Terminal(message)'
      BY <2>2, <2>3, MaterializedKept DEF Terminal
    <2>5. row'.status # "streaming" => row'.status = row.status \/ Terminal(message)
      BY <1>0, <1>9 DEF Judge, Reap, GiveUp, Claim, Recover, Materialize, CheckRelease,
         Release, Settle, SavedInv, Materialized, RowType
    <2>. QED
      BY <2>1, <2>2, <2>4, <2>5 DEF SavedInv, Terminal
  <1>. QED
    BY <1>1, <1>2, <1>3, <1>4, <1>5, <1>6, <1>7, <1>8, <1>9 DEF Next, Generate

LEMMA SavedInvariant == Spec => [](TypeOK /\ SavedInv)
  <1>1. Init => TypeOK /\ SavedInv
    <2>1. Init => SavedInv
      BY DEF Init, SavedInv, Materialized, NoReap
    <2>. QED
      BY <2>1, InitTypes
  <1>2. TypeOK /\ SavedInv /\ [Next]_vars => (TypeOK /\ SavedInv)'
    BY StepTypes, StepKeepsSaved
  <1>. QED
    BY <1>1, <1>2, PTL DEF Spec

\* No reap replaces a reply that its generation has saved.
THEOREM LastWordIsOwners == Spec => []OwnerHasLastWord
  <1>1. SavedInv => OwnerHasLastWord
    BY DEF SavedInv, OwnerHasLastWord
  <1>. QED
    BY <1>1, SavedInvariant, PTL

\* Without an abort and without a failed save, the row of a reply goes terminal
\* only after the reply is in messages, wherever the process dies.
THEOREM SettledIsSaved == Spec => []SettledMeansSaved
  <1>1. SavedInv => SettledMeansSaved
    BY DEF SavedInv, SettledMeansSaved
  <1>. QED
    BY <1>1, SavedInvariant, PTL
(***************************************************************************)
(* A healthy generation keeps its row                                      *)
(***************************************************************************)
\* A generation that is heard of often enough to be left alone.
Healthy == Alive /\ ~ owner.finished /\ stalls < Stale /\ clock <= 2 * Cap

\* A judgement that still waits for its claim: it is from before the cap, the
\* generation has used up its stalls, and so it has beaten in every unit since,
\* up to the cap.
LooksDead(r) ==
    /\ reaper[r].claimedAt < Cap
    /\ Stale <= stalls + 1
    /\ clock = reaper[r].claimedAt \/ clock <= row.beat + 1 \/ Cap <= row.beat

\* Its last beat is no older than its stalls make it, until the heartbeat stops
\* at the cap and proves nothing.
HealthyInv ==
    Healthy =>
      /\ clock <= Cap + 1 => clock <= row.beat + stalls + 1
      /\ clock > Cap => Cap <= row.beat + stalls
      /\ \A r \in Reapers : reaper[r].pc = "judged" => LooksDead(r)

LEMMA HealthyBefore ==
    ASSUME TypeOK, [Next]_vars, Healthy'
    PROVE  Healthy /\ ~ owner'.finished
  <1>1. stalls <= stalls' /\ clock <= clock'
    <2>1. \/ stalls' = stalls \/ stalls' = stalls + 1
      BY DEF Next, vars, Generate, Emit, Flush, Heartbeat, Checkpoint, Stop, Throw, End,
             LandFinish, ExecuteEndSave, Refine, Rescue, OnFinish, Crash, Judge, Reap, Claim,
             Recover, Materialize, CheckRelease, Release, Settle, GiveUp, Tick
    <2>2. \/ clock' = clock \/ clock' = clock + 1
      BY DEF Next, vars, Generate, Emit, Flush, Heartbeat, Checkpoint, Stop, Throw, End,
             LandFinish, ExecuteEndSave, Refine, Rescue, OnFinish, Crash, Judge, Reap, Claim,
             Recover, Materialize, CheckRelease, Release, Settle, GiveUp, Tick
    <2>. QED
      BY <2>1, <2>2 DEF TypeOK
  <1>2. owner.pc = "dead" => owner'.pc = "dead"
    BY DEF TypeOK, OwnerType, Next, vars, Generate, Emit, Flush, Heartbeat, Checkpoint, Stop,
           Throw, End, LandFinish, ExecuteEndSave, Refine, Rescue, OnFinish, Crash, Judge, Reap,
           Claim, Recover, Materialize, CheckRelease, Release, Settle, GiveUp, Tick, Alive
  <1>3. owner.finished => owner'.finished
    BY DEF TypeOK, OwnerType, Next, vars, Generate, Emit, Flush, Heartbeat, Checkpoint, Stop,
           Throw, End, LandFinish, ExecuteEndSave, Refine, Rescue, OnFinish, Crash, Judge, Reap,
           Claim, Recover, Materialize, CheckRelease, Release, Settle, GiveUp, Tick, Alive,
           Finish, Finished, SaveReply
  <1>4. stalls \in Nat /\ clock \in Nat /\ stalls' \in Nat /\ clock' \in Nat
    BY StepTypes DEF TypeOK
  <1>5. stalls < Stale /\ clock <= 2 * Cap
    BY <1>1, <1>4, StreamAssumption DEF Healthy
  <1>. QED
    BY <1>2, <1>3, <1>5 DEF Healthy, Alive

\* Steps that leave the beat and the clock alone, and judge nothing.
LEMMA HealthyKept ==
    ASSUME HealthyInv, Healthy' => Healthy,
           row'.beat = row.beat, UNCHANGED <<clock, stalls>>,
           \A r \in Reapers : reaper'[r].pc = "judged" =>
                 /\ reaper[r].pc = "judged"
                 /\ reaper'[r].claimedAt = reaper[r].claimedAt
    PROVE  HealthyInv'
  BY DEF HealthyInv, LooksDead

\* A beat is as young as can be.
LEMMA BeatKeepsHealthy ==
    ASSUME TypeOK, HealthyInv, StreamAssumption, Healthy' => Healthy,
           row'.beat = clock, clock <= Cap, UNCHANGED <<clock, stalls, reaper>>
    PROVE  HealthyInv'
  <1>1. clock \in Nat /\ stalls \in Nat /\ Cap \in Nat
    BY DEF TypeOK, StreamAssumption
  <1>2. clock' = clock /\ stalls' = stalls
    OBVIOUS
  <1>3. clock' <= row'.beat + stalls' + 1 /\ ~ (clock' > Cap) /\ clock' <= row'.beat + 1
    BY <1>1, <1>2
  <1>4. ASSUME Healthy', NEW r \in Reapers, reaper'[r].pc = "judged" PROVE LooksDead(r)'
    BY <1>2, <1>3, <1>4 DEF HealthyInv, LooksDead
  <1>. QED
    BY <1>3, <1>4 DEF HealthyInv

\* Time without a beat is a stall, up to the cap.
LEMMA TickKeepsHealthy ==
    ASSUME TypeOK, HealthyInv, StreamAssumption, Healthy' => Healthy, Tick
    PROVE  HealthyInv'
  <1>. SUFFICES ASSUME Healthy' PROVE HealthyInv'
    BY DEF HealthyInv
  <1>1. PICK b \in Nat : b = row.beat
    BY DEF TypeOK, RowType
  <1>2. PICK t \in Nat : t = clock
    BY DEF TypeOK
  <1>3. PICK s \in Nat : s = stalls
    BY DEF TypeOK
  <1>4. PICK z \in Nat : z = stalls'
    BY StepTypes DEF TypeOK, Next
  <1>5. Cap \in Nat /\ Cap >= 1 /\ Stale \in Nat
    BY DEF StreamAssumption
  <1>6. /\ clock' = t + 1 /\ row' = row /\ reaper' = reaper
        /\ IF t <= Cap /\ b # t THEN z = s + 1 ELSE z = s
    BY <1>1, <1>2, <1>3, <1>4 DEF Tick, Beating, Healthy, Alive
  <1>7. /\ t <= Cap + 1 => t <= b + s + 1
        /\ t > Cap => Cap <= b + s
        /\ \A r \in Reapers : reaper[r].pc = "judged" => LooksDead(r)
    BY <1>1, <1>2, <1>3 DEF HealthyInv
  <1>8. t + 1 <= Cap + 1 => t + 1 <= b + z + 1
    BY <1>5, <1>6, <1>7
  <1>9. t + 1 > Cap => Cap <= b + z
    BY <1>5, <1>6, <1>7
  <1>10. row'.beat = b
    BY <1>1, <1>6
  <1>11. z < Stale
    BY <1>4 DEF Healthy
  <1>12. ASSUME NEW r \in Reapers, reaper'[r].pc = "judged" PROVE LooksDead(r)'
    <2>1. PICK j \in Int : j = reaper[r].claimedAt
      BY DEF TypeOK, ReaperType, Never
    <2>2. /\ j < Cap /\ Stale <= s + 1
          /\ t = j \/ t <= b + 1 \/ Cap <= b
      BY <1>1, <1>2, <1>3, <1>6, <1>7, <1>12, <2>1 DEF LooksDead
    <2>3. z = s
      BY <1>5, <1>6, <1>11, <2>2
    <2>4. t + 1 <= b + 1 \/ Cap <= b
      BY <1>5, <1>6, <2>2, <2>3
    <2>. QED
      BY <1>4, <1>6, <1>10, <2>1, <2>2, <2>3, <2>4 DEF LooksDead
  <1>. QED
    BY <1>4, <1>6, <1>8, <1>9, <1>10, <1>12 DEF HealthyInv

\* It is judged dead only before the cap, by a beat that is late.
LEMMA JudgeKeepsHealthy ==
    ASSUME TypeOK, HealthyInv, StreamAssumption, Healthy' => Healthy,
           NEW r \in Reapers, Judge(r)
    PROVE  HealthyInv'
  <1>. SUFFICES ASSUME Healthy' PROVE HealthyInv'
    BY DEF HealthyInv
  <1>1. PICK b \in Nat : b = row.beat
    BY DEF TypeOK, RowType
  <1>2. PICK t \in Nat : t = clock
    BY DEF TypeOK
  <1>3. PICK s \in Nat : s = stalls
    BY DEF TypeOK
  <1>4. Cap \in Nat /\ Stale \in Nat
    BY DEF StreamAssumption
  <1>5. /\ t <= Cap + 1 => t <= b + s + 1
        /\ t > Cap => Cap <= b + s
        /\ \A q \in Reapers : reaper[q].pc = "judged" => LooksDead(q)
    BY <1>1, <1>2, <1>3 DEF HealthyInv
  <1>6. s < Stale /\ t <= 2 * Cap
    BY <1>2, <1>3 DEF Healthy
  <1>7. ~ (t - b < Stale) /\ (~ (b >= Cap - Stale) \/ t > 2 * Cap)
    BY <1>1, <1>2 DEF Judge, ProvablyDead, RowLive, StoppedAtCap, BeyondBackstop
  <1>8. b < Cap - Stale
    BY <1>1, <1>2, <1>4, <1>6, <1>7
  <1>9. t < Cap /\ Stale <= s + 1
    BY <1>4, <1>5, <1>6, <1>7, <1>8
  <1>10. PICK x : x = [NoReap EXCEPT !.pc = "judged", !.claimedAt = clock]
    OBVIOUS
  <1>11. x.claimedAt = t
    BY <1>2, <1>10 DEF NoReap
  <1>12. reaper' = [reaper EXCEPT ![r] = x] /\ UNCHANGED <<row, clock, stalls>>
    BY <1>10 DEF Judge
  <1>13. reaper'[r] = x /\ \A q \in Reapers \ {r} : reaper'[q] = reaper[q]
    BY <1>12 DEF TypeOK
  <1>14. row'.beat = b /\ clock' = t /\ stalls' = s
    BY <1>1, <1>2, <1>3, <1>12
  <1>15. LooksDead(r)'
    BY <1>9, <1>11, <1>13, <1>14 DEF LooksDead
  <1>16. ASSUME NEW q \in Reapers \ {r}, reaper'[q].pc = "judged" PROVE LooksDead(q)'
    BY <1>5, <1>12, <1>13, <1>16 DEF LooksDead
  <1>. QED
    BY <1>5, <1>14, <1>15, <1>16 DEF HealthyInv

LEMMA StepKeepsHealthy ==
    ASSUME TypeOK, HealthyInv, [Next]_vars
    PROVE  HealthyInv'
  <1>. SUFFICES ASSUME Healthy' PROVE HealthyInv'
    BY DEF HealthyInv
  <1>0. Healthy /\ ~ owner'.finished
    BY HealthyBefore
  <1>1. row \in RowType /\ reaper \in [Reapers -> ReaperType] /\ owner \in OwnerType
    BY DEF TypeOK
  <1>2. CASE Emit \/ Flush \/ End \/ ExecuteEndSave \/ Refine \/ Rescue \/ UNCHANGED vars
    <2>1. UNCHANGED <<row, reaper, clock, stalls>>
      BY <1>2 DEF Emit, Flush, End, ExecuteEndSave, Refine, Rescue, vars
    <2>. QED
      BY <1>0, <2>1, HealthyKept
  <1>3. CASE Stop \/ Throw \/ OnFinish
    <2>1. owner'.finished
      BY <1>1, <1>3 DEF Stop, Throw, OnFinish, Finish, Finished, OwnerType
    <2>. QED
      BY <1>0, <2>1
  <1>4. CASE LandFinish
    <2>1. row'.beat = row.beat /\ UNCHANGED <<reaper, clock, stalls>>
      BY <1>1, <1>4 DEF LandFinish, RowType
    <2>. QED
      BY <1>0, <2>1, HealthyKept
  <1>5. CASE Heartbeat \/ Checkpoint
    <2>1. row'.beat = clock /\ clock <= Cap /\ UNCHANGED <<clock, stalls, reaper>>
      BY <1>1, <1>5 DEF Heartbeat, Checkpoint, Beating, RowType
    <2>. QED
      BY <1>0, <2>1, BeatKeepsHealthy, StreamAssumption
  <1>6. CASE Crash
    BY <1>6 DEF Crash, Healthy, Alive, TypeOK, OwnerType
  <1>7. CASE Tick
    BY <1>0, <1>7, TickKeepsHealthy, StreamAssumption
  <1>8. ASSUME NEW r \in Reapers, Judge(r) PROVE HealthyInv'
    BY <1>0, <1>8, JudgeKeepsHealthy, StreamAssumption
  <1>9. ASSUME NEW r \in Reapers, Reap(r) \/ GiveUp(r) PROVE HealthyInv'
    <2>1. row'.beat = row.beat /\ UNCHANGED <<clock, stalls>>
      BY <1>1, <1>9 DEF Reap, Claim, Recover, Materialize, CheckRelease, Release, Settle,
         GiveUp, RowType
    <2>2. NoReap.pc = "idle"
          /\ [NoReap EXCEPT !.pc = "claimed", !.claimedAt = clock, !.beatAtClaim = row.beat,
                            !.snapshot = row.parts, !.owed = kept].pc = "claimed"
      BY DEF NoReap
    <2>3. reaper'[r].pc # "judged" /\ \A q \in Reapers \ {r} : reaper'[q] = reaper[q]
      <3>1. CASE Claim(r) \/ Settle(r) \/ GiveUp(r)
        BY <1>1, <2>2, <3>1 DEF Claim, Settle, GiveUp
      <3>2. CASE Recover(r) \/ Materialize(r) \/ CheckRelease(r) \/ Release(r)
        BY <1>1, <3>2 DEF Recover, Materialize, CheckRelease, Release, ReaperType
      <3>. QED
        BY <1>9, <3>1, <3>2 DEF Reap
    <2>. QED
      BY <1>0, <2>1, <2>3, HealthyKept
  <1>. QED
    BY <1>2, <1>3, <1>4, <1>5, <1>6, <1>7, <1>8, <1>9 DEF Next, Generate

\* A generation that has missed fewer beats than make it stale loses its row,
\* until the backstop, only to a sweep that looked at it before the cap and that
\* claims it later than Stale after the cap.
THEOREM HealthyRowKept == Spec => HealthyKeepsRow
  <1>1. Init => HealthyInv
    BY StreamAssumption DEF Init, HealthyInv, NoReap
  <1>2. TypeOK /\ HealthyInv /\ [Next]_vars => HealthyInv'
    BY StepKeepsHealthy
  <1>3. ASSUME TypeOK, HealthyInv, Healthy, NEW r \in Reapers, Claim(r), row' # row
        PROVE  reaper[r].claimedAt < Cap /\ clock > Cap + Stale
    <2>1. PICK b \in Nat : b = row.beat
      BY <1>3 DEF TypeOK, RowType
    <2>2. PICK t \in Nat : t = clock
      BY <1>3 DEF TypeOK
    <2>3. PICK s \in Nat : s = stalls
      BY <1>3 DEF TypeOK
    <2>4. PICK j \in Int : j = reaper[r].claimedAt
      BY <1>3 DEF TypeOK, ReaperType, Never
    <2>5. Cap \in Nat /\ Stale \in Nat \ {0}
      BY StreamAssumption DEF StreamAssumption
    <2>6. /\ t <= Cap + 1 => t <= b + s + 1
          /\ j < Cap
          /\ t = j \/ t <= b + 1 \/ Cap <= b
      BY <1>3, <2>1, <2>2, <2>3, <2>4 DEF HealthyInv, LooksDead, Claim
    <2>7. b < t - Stale /\ s < Stale
      BY <1>3, <2>1, <2>2, <2>3 DEF Claim, Claimable, Healthy
    <2>8. Cap <= b
      BY <2>5, <2>6, <2>7
    <2>. QED
      BY <2>2, <2>4, <2>5, <2>6, <2>7, <2>8
  <1>4. TypeOK /\ HealthyInv => [\A r \in Reapers :
              Claim(r) /\ row' # row
                  /\ Alive /\ ~ owner.finished /\ stalls < Stale /\ clock <= 2 * Cap
              => reaper[r].claimedAt < Cap /\ clock > Cap + Stale]_vars
    BY <1>3 DEF Healthy
  <1>. QED
    BY <1>1, <1>2, <1>4, TypeCorrect, PTL DEF Spec, HealthyKeepsRow

(***************************************************************************)
(* What was durable is recovered                                           *)
(***************************************************************************)
\* No record holds more than the generation produced.
FramesInv == log <= owner.frames /\ kept <= owner.frames

\* The records are numbers of frames.
LEMMA Counts ==
    ASSUME TypeOK
    PROVE  /\ log \in Nat /\ kept \in Nat /\ owner.frames \in Nat /\ row.parts \in Nat
           /\ message.content \in Nat
           /\ \A r \in Reapers : reaper[r].snapshot \in Nat /\ reaper[r].content \in Nat
                              /\ reaper[r].owed \in Nat
  BY DEF TypeOK, OwnerType, RowType, MessageType, ReaperType

LEMMA LongerIs ==
    ASSUME NEW a \in Nat, NEW b \in Nat
    PROVE  (a <= b => Longer(a, b) = b) /\ (b <= a => Longer(a, b) = a)
  BY DEF Longer

\* The tail that finishing writes is no longer than what there is.
LEMMA FinishFrames ==
    ASSUME TypeOK, FramesInv, NEW o \in OwnerType, NEW ab \in BOOLEAN, Finish(o, ab),
           o.frames = owner.frames
    PROVE  FramesInv'
  <1>1. owner'.frames = owner.frames /\ log' <= owner.frames
    <2>1. log' \in {0, log, owner.frames}
      BY DEF Finish, FinishLog
    <2>2. owner'.frames = owner.frames
      BY DEF Finish, Finished, OwnerType
    <2>. QED
      BY <2>1, <2>2, Counts DEF FramesInv
  <1>2. log' \in Nat
    BY FinishTypes
  <1>3. kept' <= owner.frames
    <2>1. kept' \in {kept, log'}
      BY DEF Finish, Longer
    <2>. QED
      BY <1>1, <2>1 DEF FramesInv
  <1>. QED
    BY <1>1, <1>3 DEF FramesInv

LEMMA SaveFrames ==
    ASSUME TypeOK, FramesInv, NEW pc, SaveReply(pc)
    PROVE  FramesInv'
  <1>1. owner'.frames = owner.frames
    BY DEF SaveReply, TypeOK, OwnerType
  <1>2. log' \in {0, log} /\ kept' \in {kept, owner.frames}
    BY DEF SaveReply, Longer
  <1>. QED
    BY <1>1, <1>2, Counts DEF FramesInv

LEMMA StepKeepsFrames ==
    ASSUME TypeOK, FramesInv, [Next]_vars
    PROVE  FramesInv'
  <1>0. owner \in OwnerType /\ log \in Nat /\ owner.frames \in Nat
    BY Counts DEF TypeOK
  <1>1. CASE Emit
    BY <1>0, <1>1 DEF Emit, FramesInv, OwnerType, TypeOK
  <1>2. CASE Flush
    <2>1. owner'.frames = owner.frames
      BY <1>0, <1>2 DEF Flush, OwnerType
    <2>2. log' \in {log, owner.frames} /\ kept' \in {kept, owner.frames}
      BY <1>2 DEF Flush, Longer
    <2>. QED
      BY <1>0, <2>1, <2>2 DEF FramesInv
  <1>3. CASE Checkpoint
    <2>1. kept' \in {kept, owner.frames} /\ UNCHANGED <<owner, log>>
      BY <1>3 DEF Checkpoint, Longer
    <2>. QED
      BY <1>0, <2>1 DEF FramesInv
  <1>4. CASE Stop
    <2>1. [owner EXCEPT !.aborted = TRUE] \in OwnerType
      BY <1>0 DEF OwnerType
    <2>2. PICK o : o = [owner EXCEPT !.aborted = TRUE]
      OBVIOUS
    <2>3. o.frames = owner.frames
      BY <1>0, <2>2 DEF OwnerType
    <2>. QED
      BY <1>4, <2>1, <2>2, <2>3, FinishFrames DEF Stop
  <1>5. CASE Throw
    <2>1. [owner EXCEPT !.pc = "rescue", !.aborted = TRUE] \in OwnerType
      BY <1>0 DEF OwnerType
    <2>2. PICK o : o = [owner EXCEPT !.pc = "rescue", !.aborted = TRUE]
      OBVIOUS
    <2>3. o.frames = owner.frames
      BY <1>0, <2>2 DEF OwnerType
    <2>. QED
      BY <1>5, <2>1, <2>2, <2>3, FinishFrames DEF Throw
  <1>6. CASE OnFinish
    <2>1. [owner EXCEPT !.pc = "done"] \in OwnerType /\ owner.aborted \in BOOLEAN
      BY <1>0 DEF OwnerType
    <2>2. PICK o : o = [owner EXCEPT !.pc = "done"]
      OBVIOUS
    <2>3. o.frames = owner.frames
      BY <1>0, <2>2 DEF OwnerType
    <2>. QED
      BY <1>6, <2>1, <2>2, <2>3, FinishFrames DEF OnFinish
  <1>7. CASE ExecuteEndSave \/ Refine \/ Rescue
    BY <1>7, SaveFrames DEF ExecuteEndSave, Refine, Rescue
  <1>8. CASE End \/ LandFinish \/ Crash
    <2>1. owner'.frames = owner.frames /\ UNCHANGED <<log, kept>>
      BY <1>0, <1>8 DEF End, LandFinish, Crash, OwnerType
    <2>. QED
      BY <2>1 DEF FramesInv
  <1>9. CASE Heartbeat \/ Tick \/ UNCHANGED vars
    BY <1>9 DEF Heartbeat, Tick, vars, FramesInv
  <1>10. ASSUME NEW r \in Reapers, Judge(r) \/ Reap(r) \/ GiveUp(r) PROVE FramesInv'
    <2>1. CASE Release(r)
      <3>1. owner'.frames = owner.frames /\ log' \in {0, log} /\ kept' = kept
        BY <1>0, <2>1 DEF Release, OwnerType
      <3>. QED
        BY <1>0, <3>1 DEF FramesInv
    <2>2. CASE ~ Release(r)
      BY <1>10, <2>2 DEF Judge, Reap, Claim, Recover, Materialize, CheckRelease, Settle,
                         GiveUp, FramesInv
    <2>. QED
      BY <2>1, <2>2
  <1>. QED
    BY <1>1, <1>2, <1>3, <1>4, <1>5, <1>6, <1>7, <1>8, <1>9, <1>10 DEF Next, Generate

\* Every frame that was ever durable is, until the reply has a terminal message,
\* in the log or the snapshot for the next claim; and what was durable when a
\* reaper claimed the row is in the copy that the reaper works on.
DurableInv ==
    ~ Terminal(message) =>
      /\ row.status = "streaming" => kept <= Longer(log, row.parts)
      /\ \A r \in Reapers :
            /\ reaper[r].pc = "claimed" =>
                  reaper[r].owed <= Longer(log, reaper[r].snapshot)
            /\ reaper[r].pc = "recovered" => reaper[r].owed <= reaper[r].content

LEMMA LongerGrows ==
    ASSUME NEW a \in Nat, NEW b \in Nat, NEW c \in Nat, NEW n \in Nat,
           a <= b, n <= Longer(a, c)
    PROVE  n <= Longer(b, c)
  BY DEF Longer

\* The reapers' part lasts while the log grows and what they hold stays; the
\* row's part is left to each action.
LEMMA DurableKept ==
    ASSUME TypeOK, DurableInv, log' \in Nat,
           Terminal(message) => Terminal(message)',
           ~ Terminal(message)' => log <= log',
           ~ Terminal(message)' /\ row'.status = "streaming" =>
                 kept' <= Longer(log', row'.parts),
           \A r \in Reapers : reaper'[r].pc \in {"claimed", "recovered"} =>
              /\ reaper'[r].pc = reaper[r].pc /\ reaper'[r].snapshot = reaper[r].snapshot
              /\ reaper'[r].content = reaper[r].content /\ reaper'[r].owed = reaper[r].owed
    PROVE  DurableInv'
  <1>. SUFFICES ASSUME ~ Terminal(message)' PROVE DurableInv'
    BY DEF DurableInv
  <1>1. ~ Terminal(message) /\ log <= log'
    OBVIOUS
  <1>2. ASSUME NEW r \in Reapers, reaper'[r].pc = "claimed"
        PROVE  reaper'[r].owed <= Longer(log', reaper'[r].snapshot)
    <2>1. /\ reaper[r].pc = "claimed" /\ reaper'[r].owed = reaper[r].owed
          /\ reaper'[r].snapshot = reaper[r].snapshot
      BY <1>2
    <2>2. reaper[r].owed <= Longer(log, reaper[r].snapshot)
      BY <1>1, <2>1 DEF DurableInv
    <2>3. reaper[r].owed <= Longer(log', reaper[r].snapshot)
      BY <1>1, <2>2, Counts, LongerGrows
    <2>. QED
      BY <2>1, <2>3
  <1>3. ASSUME NEW r \in Reapers, reaper'[r].pc = "recovered"
        PROVE  reaper'[r].owed <= reaper'[r].content
    BY <1>1, <1>3 DEF DurableInv
  <1>. QED
    BY <1>2, <1>3 DEF DurableInv

\* Steps that change no record of the reply.
LEMMA RecordsKept ==
    ASSUME TypeOK, DurableInv, UNCHANGED <<log, message, kept>>,
           row'.status = "streaming" => row.status = "streaming" /\ row'.parts = row.parts,
           \A r \in Reapers : reaper'[r].pc \in {"claimed", "recovered"} =>
              /\ reaper'[r].pc = reaper[r].pc /\ reaper'[r].snapshot = reaper[r].snapshot
              /\ reaper'[r].content = reaper[r].content /\ reaper'[r].owed = reaper[r].owed
    PROVE  DurableInv'
  <1>1. (Terminal(message)' <=> Terminal(message)) /\ log' \in Nat /\ log <= log'
    BY Counts DEF Terminal
  <1>2. ~ Terminal(message)' /\ row'.status = "streaming" => kept' <= Longer(log', row'.parts)
    BY <1>1 DEF DurableInv
  <1>. QED
    BY <1>1, <1>2, DurableKept

\* A batch of frames, or a snapshot, reaches the database: it has all there is.
LEMMA WriteKeepsDurable ==
    ASSUME TypeOK, FramesInv, DurableInv,
           UNCHANGED <<owner, message, reaper>>, kept' = Longer(kept, owner.frames),
           \/ (log' = owner.frames /\ row' = row)
           \/ (log' = log /\ row'.parts = owner.frames)
    PROVE  DurableInv'
  <1>1. kept' = owner.frames
    BY Counts, LongerIs DEF FramesInv
  <1>2. log' \in Nat /\ row'.parts \in Nat /\ owner.frames \in Nat /\ log <= log'
    BY Counts DEF FramesInv
  <1>3. kept' <= Longer(log', row'.parts)
    BY <1>1, <1>2, LongerFacts
  <1>4. Terminal(message)' <=> Terminal(message)
    BY DEF Terminal
  <1>. QED
    BY <1>2, <1>3, <1>4, DurableKept

\* A save that succeeds leaves a terminal message; one that fails changes nothing.
LEMMA SaveKeepsDurable ==
    ASSUME TypeOK, DurableInv, NEW pc \in {"refine", "settle", "done"},
           SaveReply(pc), UNCHANGED <<row, reaper>>
    PROVE  DurableInv'
  <1>1. CASE message' = OwnReply
    BY <1>1 DEF OwnReply, Terminal, DurableInv
  <1>2. CASE UNCHANGED <<message, log, kept>>
    BY <1>2, RecordsKept
  <1>. QED
    BY <1>1, <1>2 DEF SaveReply

\* A finish writes the tail, or drops the log of a reply that is saved.
LEMMA FinishKeepsDurable ==
    ASSUME TypeOK, SavedInv, FramesInv, DurableInv, NEW o, NEW ab, Finish(o, ab),
           UNCHANGED <<row, message, reaper>>
    PROVE  DurableInv'
  <1>1. Terminal(message)' <=> Terminal(message)
    BY DEF Terminal
  <1>2. log' \in {0, log, owner.frames} /\ kept' \in {kept, log'}
    BY DEF Finish, FinishLog, Longer
  <1>3. log' \in Nat
    BY <1>2, Counts
  <1>4. ASSUME ~ Terminal(message) PROVE log <= log'
    <2>1. ~ owner.saved
      BY <1>4 DEF SavedInv
    <2>2. log' \in {log, owner.frames}
      BY <2>1 DEF Finish, FinishLog
    <2>. QED
      BY <2>2, Counts DEF FramesInv
  <1>5. ASSUME ~ Terminal(message), row.status = "streaming"
        PROVE  kept' <= Longer(log', row.parts)
    <2>1. kept <= Longer(log, row.parts)
      BY <1>5 DEF DurableInv
    <2>2. kept <= Longer(log', row.parts)
      BY <1>3, <1>4, <1>5, <2>1, Counts, LongerGrows
    <2>3. log' <= Longer(log', row.parts)
      BY <1>3, Counts, LongerFacts
    <2>. QED
      BY <1>2, <2>2, <2>3
  <1>. QED
    BY <1>1, <1>3, <1>4, <1>5, DurableKept

\* A claim reads the snapshot, a recovery the log; what is then written, where
\* nothing is, holds it all.
LEMMA ReapKeepsDurable ==
    ASSUME TypeOK, SavedInv, DurableInv, NEW r \in Reapers, Reap(r)
    PROVE  DurableInv'
  <1>0. row \in RowType /\ reaper \in [Reapers -> ReaperType] /\ owner \in OwnerType
    BY DEF TypeOK
  <1>1. \A x : reaper' = [reaper EXCEPT ![r] = x] =>
                  reaper'[r] = x /\ \A q \in Reapers \ {r} : reaper'[q] = reaper[q]
    BY <1>0
  <1>2. reaper[r] \in ReaperType /\ NoReap.pc = "idle"
    BY <1>0 DEF NoReap
  <1>3. CASE Claim(r)
    <2>1. CASE row' = [row EXCEPT !.reapedAt = clock] /\ row.status = "streaming"
               /\ reaper' = [reaper EXCEPT ![r] =
                     [NoReap EXCEPT !.pc = "claimed", !.claimedAt = clock,
                                    !.beatAtClaim = row.beat, !.snapshot = row.parts,
                                    !.owed = kept]]
      <3>1. PICK x : x = [NoReap EXCEPT !.pc = "claimed", !.claimedAt = clock,
                                        !.beatAtClaim = row.beat, !.snapshot = row.parts,
                                        !.owed = kept]
        OBVIOUS
      <3>2. x.pc = "claimed" /\ x.snapshot = row.parts /\ x.owed = kept
        BY <3>1 DEF NoReap
      <3>3. reaper'[r] = x /\ \A q \in Reapers \ {r} : reaper'[q] = reaper[q]
        BY <1>1, <2>1, <3>1
      <3>4. row'.status = row.status /\ row'.parts = row.parts
        BY <1>0, <2>1 DEF RowType
      <3>5. UNCHANGED <<log, message, kept>>
        BY <1>3 DEF Claim
      <3>6. Terminal(message)' <=> Terminal(message)
        BY <3>5 DEF Terminal
      <3>7. ~ Terminal(message) => kept <= Longer(log, row.parts)
        BY <2>1 DEF DurableInv
      <3>. QED
        BY <3>2, <3>3, <3>4, <3>5, <3>6, <3>7 DEF DurableInv
    <2>2. CASE reaper' = [reaper EXCEPT ![r] = NoReap] /\ UNCHANGED row
      <3>1. reaper'[r] = NoReap /\ \A q \in Reapers \ {r} : reaper'[q] = reaper[q]
        BY <1>1, <2>2
      <3>2. UNCHANGED <<log, message, kept>>
        BY <1>3 DEF Claim
      <3>. QED
        BY <1>2, <2>2, <3>1, <3>2, RecordsKept
    <2>. QED
      BY <1>3, <2>1, <2>2 DEF Claim, Claimable
  <1>4. CASE Recover(r)
    <2>1. PICK n : n = Longer(log, reaper[r].snapshot)
      OBVIOUS
    <2>2. PICK x : x = [reaper[r] EXCEPT !.pc = "recovered", !.content = n,
                                          !.snapshot = 0]
      OBVIOUS
    <2>3. reaper' = [reaper EXCEPT ![r] = x]
      BY <1>0, <1>4, <2>1, <2>2 DEF Recover, Recovered
    <2>4. reaper'[r] = x /\ \A q \in Reapers \ {r} : reaper'[q] = reaper[q]
      BY <1>1, <2>3
    <2>5. x.pc = "recovered" /\ x.content = n /\ x.owed = reaper[r].owed
      BY <1>2, <2>2 DEF ReaperType
    <2>6. UNCHANGED <<row, log, message, kept>> /\ reaper[r].pc = "claimed"
      BY <1>4 DEF Recover
    <2>7. Terminal(message)' <=> Terminal(message)
      BY <2>6 DEF Terminal
    <2>. QED
      BY <2>1, <2>4, <2>5, <2>6, <2>7 DEF DurableInv
  <1>5. CASE Materialize(r)
    <2>1. Terminal(message)'
      BY <1>5 DEF Materialize, Terminal
    <2>. QED
      BY <2>1 DEF DurableInv
  <1>6. CASE Release(r)
    <2>1. Terminal(message) /\ UNCHANGED message
      BY <1>6 DEF Release, SavedInv, Materialized
    <2>2. Terminal(message)'
      BY <2>1 DEF Terminal
    <2>. QED
      BY <2>2 DEF DurableInv
  <1>7. CASE CheckRelease(r)
    <2>1. /\ UNCHANGED <<row, log, message, kept>>
          /\ reaper'[r].pc \notin {"claimed", "recovered"}
          /\ \A q \in Reapers \ {r} : reaper'[q] = reaper[q]
      BY <1>0, <1>2, <1>7 DEF CheckRelease, ReaperType
    <2>. QED
      BY <2>1, RecordsKept
  <1>8. CASE Settle(r)
    <2>1. /\ UNCHANGED <<log, message, kept>>
          /\ row'.status = "streaming" => row' = row
      BY <1>0, <1>8 DEF Settle, RowType
    <2>2. reaper'[r] = NoReap /\ \A q \in Reapers \ {r} : reaper'[q] = reaper[q]
      BY <1>1, <1>8 DEF Settle
    <2>. QED
      BY <1>2, <2>1, <2>2, RecordsKept
  <1>. QED
    BY <1>3, <1>4, <1>5, <1>6, <1>7, <1>8 DEF Reap

LEMMA StepKeepsDurable ==
    ASSUME TypeOK, SavedInv, FramesInv, DurableInv, [Next]_vars
    PROVE  DurableInv'
  <1>1. row \in RowType /\ reaper \in [Reapers -> ReaperType] /\ owner \in OwnerType
    BY DEF TypeOK
  <1>2. CASE Emit \/ End \/ Heartbeat \/ Tick \/ UNCHANGED vars
    <2>1. /\ UNCHANGED <<log, message, reaper, kept>>
          /\ row'.status = row.status /\ row'.parts = row.parts
      BY <1>1, <1>2 DEF Emit, End, Heartbeat, Tick, vars, RowType
    <2>. QED
      BY <2>1, RecordsKept
  <1>3. CASE Flush
    <2>1. CASE log' = owner.frames /\ kept' = Longer(kept, log') /\ UNCHANGED owner
      BY <1>3, <2>1, WriteKeepsDurable DEF Flush
    <2>2. CASE UNCHANGED <<log, kept>>
      BY <1>3, <2>2, RecordsKept DEF Flush
    <2>. QED
      BY <1>3, <2>1, <2>2 DEF Flush
  <1>4. CASE Checkpoint
    <2>1. row'.parts = owner.frames
      BY <1>1, <1>4 DEF Checkpoint, RowType
    <2>. QED
      BY <1>4, <2>1, WriteKeepsDurable DEF Checkpoint
  <1>5. CASE Stop \/ Throw \/ OnFinish
    BY <1>5, FinishKeepsDurable DEF Stop, Throw, OnFinish
  <1>6. CASE LandFinish
    <2>1. UNCHANGED <<log, message, reaper, kept>>
      BY <1>6 DEF LandFinish
    <2>2. row'.status = "streaming" => row' = row
      <3>1. owner.pending \in {"aborted", "complete"}
        BY <1>1, <1>6 DEF LandFinish, OwnerType
      <3>. QED
        BY <1>1, <1>6, <3>1 DEF LandFinish, RowType
    <2>. QED
      BY <2>1, <2>2, RecordsKept
  <1>7. CASE ExecuteEndSave \/ Refine \/ Rescue
    BY <1>7, SaveKeepsDurable DEF ExecuteEndSave, Refine, Rescue
  <1>8. CASE Crash
    <2>1. UNCHANGED <<row, log, message, kept>>
      BY <1>8 DEF Crash
    <2>2. \A r \in Reapers : reaper'[r] = NoReap \/ reaper'[r] = reaper[r]
      BY <1>8 DEF Crash
    <2>3. NoReap.pc = "idle"
      BY DEF NoReap
    <2>. QED
      BY <2>1, <2>2, <2>3, RecordsKept
  <1>9. ASSUME NEW r \in Reapers, Judge(r) \/ GiveUp(r) PROVE DurableInv'
    <2>1. UNCHANGED <<row, log, message, kept>>
      BY <1>9 DEF Judge, GiveUp
    <2>2. PICK x : reaper' = [reaper EXCEPT ![r] = x] /\ x.pc \in {"judged", "idle"}
      <3>1. NoReap.pc = "idle" /\ [NoReap EXCEPT !.pc = "judged", !.claimedAt = clock].pc = "judged"
        BY DEF NoReap
      <3>. QED
        BY <1>9, <3>1 DEF Judge, GiveUp
    <2>3. reaper'[r] = x /\ \A q \in Reapers \ {r} : reaper'[q] = reaper[q]
      BY <1>1, <2>2
    <2>. QED
      BY <2>1, <2>2, <2>3, RecordsKept
  <1>10. ASSUME NEW r \in Reapers, Reap(r) PROVE DurableInv'
    BY <1>10, ReapKeepsDurable
  <1>. QED
    BY <1>2, <1>3, <1>4, <1>5, <1>6, <1>7, <1>8, <1>9, <1>10 DEF Next, Generate

\* What a reap writes is as long as the longest durable record of the reply there
\* had been when it claimed the row, whether the generation was stopped, stalled
\* or dead, and whatever other reapers have deleted.  Frames that the generation
\* makes durable after the claim are not covered.
THEOREM LongestRecovered == Spec => RecoveryKeepsLongest
  <1>1. Init => FramesInv /\ DurableInv
    <2>1. Longer(0, 0) = 0
      BY DEF Longer
    <2>. QED
      BY <2>1 DEF Init, FramesInv, DurableInv, NoReap
  <1>2. TypeOK /\ SavedInv /\ FramesInv /\ DurableInv /\ [Next]_vars
            => FramesInv' /\ DurableInv'
    BY StepKeepsFrames, StepKeepsDurable
  <1>3. ASSUME DurableInv, NEW r \in Reapers, Materialize(r), message' # message
        PROVE  message'.content >= reaper[r].owed
    <2>1. ~ Terminal(message) /\ message'.content = reaper[r].content
      BY <1>3 DEF Materialize
    <2>2. reaper[r].owed <= reaper[r].content
      BY <1>3, <2>1 DEF DurableInv, Materialize
    <2>. QED
      BY <2>1, <2>2
  <1>4. DurableInv => [\A r \in Reapers : Materialize(r) /\ message' # message
                          => message'.content >= reaper[r].owed]_vars
    BY <1>3
  <1>. QED
    BY <1>1, <1>2, <1>4, SavedInvariant, PTL DEF Spec, RecoveryKeepsLongest
=============================================================================
