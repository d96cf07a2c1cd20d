------------------------- MODULE CreditLedgerProofs -------------------------
(***************************************************************************)
(* What CreditLedger guarantees about billing each call once, about the    *)
(* ledger only growing, about corrections, and about the gate's grants,    *)
(* for every value of the constants.                                       *)
(***************************************************************************)
EXTENDS CreditLedgerMoney

(***************************************************************************)
(* Each call is billed once                                                *)
(***************************************************************************)
ClaimInv == BilledOnce /\ ClaimsExclusive

\* What a run of the backfill has selected for a retry is past the grace, and
\* its clock is not ahead.
RetriesAreOld(s) ==
    /\ \A c \in sweeper[s].retry :
           usageRow[c].status # "none" /\ usageRow[c].at + Grace < clock
    /\ sweeper[s].now <= clock

\* No new claim: the same rows, and no process between claim and settlement
\* that was not there before.
LEMMA NoNewClaim ==
    ASSUME TypeOK, ClaimInv, UNCHANGED <<usageRow, settles, clock>>,
           \A c \in Calls : call'[c].pc = "claimed" => call[c].pc = "claimed",
           \A s \in Sweepers : /\ sweeper'[s].claimed \subseteq sweeper[s].claimed
                               /\ RetriesAreOld(s)'
    PROVE  ClaimInv'
  <1>1. BilledOnce'
    BY DEF ClaimInv, BilledOnce
  <1>2. \A c \in Calls : call'[c].pc = "claimed" =>
            ClaimInFlight(c)' /\ \A s \in Sweepers : c \notin sweeper'[s].claimed
    BY DEF ClaimInv, ClaimsExclusive, ClaimInFlight
  <1>3. \A s \in Sweepers : \A c \in sweeper'[s].claimed :
            ClaimInFlight(c)' /\ \A t \in Sweepers \ {s} : c \notin sweeper'[t].claimed
    BY DEF ClaimInv, ClaimsExclusive, ClaimInFlight
  <1>. QED
    BY <1>1, <1>2, <1>3 DEF ClaimInv, ClaimsExclusive, RetriesAreOld

\* A settlement: the row of c was pending, and nobody else is at it afterwards.
LEMMA SettlementKeepsClaims ==
    ASSUME TypeOK, ClaimInv, NEW c \in Calls, usageRow[c].status = "pending",
           \/ /\ usageRow' = [usageRow EXCEPT ![c].status = "applied"]
              /\ settles' = [settles EXCEPT ![c] = @ + 1]
           \/ /\ usageRow' = [usageRow EXCEPT ![c].status = "skipped"]
              /\ settles' = settles,
           clock' = clock,
           \A d \in Calls : call'[d].pc = "claimed" => d # c /\ call[d].pc = "claimed",
           \A s \in Sweepers : /\ sweeper'[s].claimed \subseteq sweeper[s].claimed \ {c}
                               /\ sweeper'[s].retry \subseteq sweeper[s].retry
                               /\ sweeper'[s].now = sweeper[s].now
    PROVE  ClaimInv'
  <1>1. settles[c] = 0
    BY DEF ClaimInv, BilledOnce
  <1>2. /\ usageRow'[c].status # "none" /\ usageRow'[c].at = usageRow[c].at
        /\ \A d \in Calls \ {c} : usageRow'[d] = usageRow[d] /\ settles'[d] = settles[d]
        /\ settles'[c] = IF usageRow'[c].status = "applied" THEN 1 ELSE 0
    BY <1>1 DEF TypeOK, UsageRows
  <1>3. BilledOnce'
    BY <1>2 DEF ClaimInv, BilledOnce
  <1>4. \A d \in Calls : call'[d].pc = "claimed" =>
            ClaimInFlight(d)' /\ \A s \in Sweepers : d \notin sweeper'[s].claimed
    BY <1>2 DEF ClaimInv, ClaimsExclusive, ClaimInFlight
  <1>5. \A s \in Sweepers : sweeper[s].claimed \subseteq Calls /\ sweeper[s].retry \subseteq Calls
    BY SweeperSets DEF TypeOK
  <1>6. \A s \in Sweepers : \A d \in sweeper'[s].claimed :
            ClaimInFlight(d)' /\ \A t \in Sweepers \ {s} : d \notin sweeper'[t].claimed
    BY <1>2, <1>5 DEF ClaimInv, ClaimsExclusive, ClaimInFlight
  <1>7. \A s \in Sweepers : \A d \in sweeper'[s].retry :
            usageRow'[d].status # "none" /\ usageRow'[d].at + Grace < clock'
    BY <1>2, <1>5 DEF ClaimInv, ClaimsExclusive
  <1>8. \A s \in Sweepers : sweeper'[s].now <= clock'
    BY DEF ClaimInv, ClaimsExclusive
  <1>. QED
    BY <1>3, <1>4, <1>6, <1>7, <1>8 DEF ClaimInv, ClaimsExclusive

\* A claim: c had no row, one process is between claim and settlement of c now.
LEMMA NewClaim ==
    ASSUME ConstantsAssumption, TypeOK, ClaimInv, NEW c \in Calls,
           usageRow[c].status = "none", InsertUsageRow(c), settles' = settles,
           clock' = clock,
           \A d \in Calls \ {c} : call'[d].pc = "claimed" => call[d].pc = "claimed",
           \A s \in Sweepers : /\ sweeper'[s].claimed \subseteq sweeper[s].claimed \cup {c}
                               /\ sweeper'[s].retry \subseteq sweeper[s].retry
                               /\ sweeper'[s].now = sweeper[s].now,
           \/ \A s \in Sweepers : c \notin sweeper'[s].claimed
           \/ /\ call'[c].pc # "claimed"
              /\ \A s, t \in Sweepers :
                     c \in sweeper'[s].claimed /\ c \in sweeper'[t].claimed => s = t
    PROVE  ClaimInv'
  <1>1. settles[c] = 0
    BY DEF ClaimInv, BilledOnce
  <1>2. /\ usageRow'[c].status = "pending" /\ usageRow'[c].at = clock
        /\ \A d \in Calls \ {c} : usageRow'[d] = usageRow[d]
    BY DEF TypeOK, InsertUsageRow
  <1>3. BilledOnce'
    BY <1>1, <1>2 DEF ClaimInv, BilledOnce
  <1>4. ClaimInFlight(c)'
    BY <1>2 DEF ClaimInFlight, TypeOK, ConstantsAssumption
  <1>5. \A s \in Sweepers : /\ c \notin sweeper[s].retry
                            /\ sweeper[s].claimed \subseteq Calls
                            /\ sweeper[s].retry \subseteq Calls
    BY SweeperSets DEF TypeOK, ClaimInv, ClaimsExclusive
  <1>6. \A d \in Calls : call'[d].pc = "claimed" =>
            ClaimInFlight(d)' /\ \A s \in Sweepers : d \notin sweeper'[s].claimed
    BY <1>2, <1>4 DEF ClaimInv, ClaimsExclusive, ClaimInFlight
  <1>7. \A s \in Sweepers : \A d \in sweeper'[s].claimed :
            ClaimInFlight(d)' /\ \A t \in Sweepers \ {s} : d \notin sweeper'[t].claimed
    BY <1>2, <1>4, <1>5 DEF ClaimInv, ClaimsExclusive, ClaimInFlight
  <1>8. \A s \in Sweepers : \A d \in sweeper'[s].retry :
            usageRow'[d].status # "none" /\ usageRow'[d].at + Grace < clock'
    BY <1>2, <1>5 DEF ClaimInv, ClaimsExclusive
  <1>9. \A s \in Sweepers : sweeper'[s].now <= clock'
    BY DEF ClaimInv, ClaimsExclusive
  <1>. QED
    BY <1>3, <1>6, <1>7, <1>8, <1>9 DEF ClaimInv, ClaimsExclusive

\* Where no sweep moves, no sweep's retries change.
LEMMA SameSweepers ==
    ASSUME ClaimInv, UNCHANGED <<sweeper, usageRow, clock>>
    PROVE  \A s \in Sweepers : /\ sweeper'[s].claimed \subseteq sweeper[s].claimed
                               /\ RetriesAreOld(s)'
  BY DEF ClaimInv, ClaimsExclusive, RetriesAreOld

\* The steps of a call keep ClaimInv.
LEMMA CallKeepsClaims ==
    ASSUME ConstantsAssumption, TypeOK, ClaimInv, NEW c \in Calls, CallStep(c)
    PROVE  ClaimInv'
  <1>1. CASE \/ GateStart(c) \/ GateReset(c) \/ GateInit(c) \/ GateHold(c)
             \/ StartUngated(c) \/ FailTokenless(c) \/ WriteUsage(c)
             \/ ReleaseSkipped(c) \/ Crash(c)
    <2>1. UNCHANGED <<usageRow, settles, clock, sweeper>>
      BY <1>1 DEF GateStart, GateReset, GateInit, GateHold, StartUngated,
                  FailTokenless, WriteUsage, ReleaseSkipped, Crash, dbVars, histVars
    <2>2. \A d \in Calls : call'[d].pc = "claimed" => call[d].pc = "claimed"
      BY <1>1 DEF GateStart, GateReset, GateInit, GateHold, StartUngated,
                  FailTokenless, WriteUsage, ReleaseSkipped, Crash, Goto, Step,
                  TypeOK, CallStates
    <2>. QED
      BY <2>1, <2>2, SameSweepers, NoNewClaim
  <1>2. CASE Claim(c)
    <2>1. CASE usageRow[c].status # "none"
      <3>1. UNCHANGED <<usageRow, settles, clock, sweeper>>
        BY <1>2, <2>1 DEF Claim, histVars
      <3>2. \A d \in Calls : call'[d].pc = "claimed" => call[d].pc = "claimed"
        BY <1>2, <2>1 DEF Claim, Goto, TypeOK
      <3>. QED
        BY <3>1, <3>2, SameSweepers, NoNewClaim
    <2>2. CASE usageRow[c].status = "none"
      <3>1. /\ InsertUsageRow(c) /\ UNCHANGED <<settles, clock, sweeper>>
            /\ Goto(c, "claimed")
        BY <1>2, <2>2 DEF Claim, histVars
      <3>2. \A d \in Calls \ {c} : call'[d].pc = "claimed" => call[d].pc = "claimed"
        BY <3>1 DEF Goto, TypeOK
      <3>3. \A s \in Sweepers : c \notin sweeper'[s].claimed
        BY <2>2, <3>1 DEF ClaimInv, ClaimsExclusive, ClaimInFlight
      <3>4. \A s \in Sweepers : /\ sweeper'[s].claimed \subseteq sweeper[s].claimed \cup {c}
                                /\ sweeper'[s].retry \subseteq sweeper[s].retry
                                /\ sweeper'[s].now = sweeper[s].now
        BY <3>1
      <3>. QED
        BY <2>2, <3>1, <3>2, <3>3, <3>4, NewClaim
    <2>. QED
      BY <2>1, <2>2
  <1>3. CASE SkipZeroCharge(c) \/ Settle(c)
    <2>1. call[c].pc = "claimed"
      BY <1>3 DEF SkipZeroCharge, Settle
    <2>2. usageRow[c].status = "pending" /\ \A s \in Sweepers : c \notin sweeper[s].claimed
      BY <2>1 DEF ClaimInv, ClaimsExclusive, ClaimInFlight
    <2>3. UNCHANGED <<clock, sweeper>>
      BY <1>3 DEF SkipZeroCharge, Settle
    <2>4. \A d \in Calls : call'[d].pc = "claimed" => d # c /\ call[d].pc = "claimed"
      BY <1>3 DEF SkipZeroCharge, Settle, Goto, TypeOK
    <2>5. \A s \in Sweepers : /\ sweeper'[s].claimed \subseteq sweeper[s].claimed \ {c}
                              /\ sweeper'[s].retry \subseteq sweeper[s].retry
                              /\ sweeper'[s].now = sweeper[s].now
      BY <2>2, <2>3
    <2>6. CASE UNCHANGED <<usageRow, settles>>
      BY <2>3, <2>4, <2>6, SameSweepers, NoNewClaim
    <2>7. CASE \/ /\ usageRow' = [usageRow EXCEPT ![c].status = "applied"]
                  /\ settles' = [settles EXCEPT ![c] = @ + 1]
               \/ /\ usageRow' = [usageRow EXCEPT ![c].status = "skipped"]
                  /\ settles' = settles
      BY <2>2, <2>3, <2>4, <2>5, <2>7, SettlementKeepsClaims
    <2>. QED
      BY <1>3, <2>6, <2>7 DEF SkipZeroCharge, Settle, DecrementAndSettle, histVars
  <1>. QED
    BY <1>1, <1>2, <1>3 DEF CallStep

\* So do the steps of the backfill: a retry is past the grace, so that by
\* SettleLag <= Grace nobody is still between its claim and its settlement.
LEMMA BackfillKeepsClaims ==
    ASSUME ConstantsAssumption, SettleLag <= Grace, TypeOK, ClaimInv,
           NEW s \in Sweepers, BackfillStep(s) \/ FailBackfill(s)
    PROVE  ClaimInv'
  <1>1. UNCHANGED <<call, clock>>
    BY DEF BackfillStep, FailBackfill, CrashBackfill, SkipHolds, SkipRow, SweepHolds,
           SelectBacklog, EndBackfill, RetryPending, ClaimOrphan, SettleOrphan
  <1>2. \A d \in Calls : call'[d].pc = "claimed" => call[d].pc = "claimed"
    BY <1>1
  <1>3. CASE SweepHolds(s) \/ SelectBacklog(s) \/ EndBackfill(s) \/ FailBackfill(s)
    <2>1. UNCHANGED <<usageRow, settles>>
      BY <1>3 DEF SweepHolds, SelectBacklog, EndBackfill, FailBackfill, CrashBackfill,
                  SkipHolds, SkipRow, dbVars, histVars
    <2>2. \A t \in Sweepers : t # s => sweeper'[t] = sweeper[t]
      BY <1>3 DEF SweepHolds, SelectBacklog, EndBackfill, FailBackfill, CrashBackfill,
                  SkipHolds, SkipRow, TypeOK
    <2>3. sweeper'[s].claimed \subseteq sweeper[s].claimed /\ RetriesAreOld(s)'
      <3>1. CASE SweepHolds(s) \/ SkipHolds(s)
        <4>1. /\ sweeper'[s].claimed = sweeper[s].claimed
              /\ sweeper'[s].retry = sweeper[s].retry /\ sweeper'[s].now = clock
          BY <3>1 DEF SweepHolds, SkipHolds, TypeOK, SweeperStates
        <4>2. clock \in Nat
          BY DEF TypeOK
        <4>. QED
          BY <1>1, <2>1, <4>1, <4>2 DEF RetriesAreOld, ClaimInv, ClaimsExclusive
      <3>2. CASE SelectBacklog(s)
        <4>. DEFINE retry == RetryRows(Cutoff(s))
        <4>1. /\ sweeper'[s].claimed = {} /\ sweeper'[s].now = 0
              /\ sweeper'[s].retry \subseteq retry
          BY <3>2 DEF SelectBacklog, TypeOK, IdleSweeper
        <4>2. sweeper[s].now \in Nat /\ sweeper[s].now <= clock /\ clock \in Nat
          BY SweeperSets DEF TypeOK, ClaimInv, ClaimsExclusive
        <4>3. \A c \in retry : /\ usageRow[c].status # "none"
                               /\ usageRow[c].at + Grace < clock
          <5>1. TAKE c \in retry
          <5>2. /\ c \in Calls /\ usageRow[c].status = "pending"
                /\ usageRow[c].at < sweeper[s].now - Grace
            BY DEF RetryRows, Cutoff
          <5>3. usageRow[c].at \in Nat /\ Grace \in Nat
            BY <5>2 DEF TypeOK, UsageRows, ConstantsAssumption
          <5>. QED
            BY <4>2, <5>2, <5>3
        <4>. QED
          BY <1>1, <2>1, <4>1, <4>2, <4>3 DEF RetriesAreOld
      <3>3. CASE EndBackfill(s) \/ CrashBackfill(s)
        <4>1. sweeper'[s] = IdleSweeper
          BY <3>3 DEF EndBackfill, CrashBackfill, TypeOK
        <4>2. clock \in Nat
          BY DEF TypeOK
        <4>. QED
          BY <1>1, <4>1, <4>2 DEF RetriesAreOld, IdleSweeper
      <3>4. ASSUME NEW c \in Calls, SkipRow(s, c)
            PROVE  sweeper'[s].claimed \subseteq sweeper[s].claimed /\ RetriesAreOld(s)'
        <4>1. /\ sweeper'[s].claimed \subseteq sweeper[s].claimed
              /\ sweeper'[s].retry \subseteq sweeper[s].retry
              /\ sweeper'[s].now = sweeper[s].now
          BY <3>4 DEF SkipRow, TypeOK, SweeperStates
        <4>. QED
          BY <1>1, <2>1, <4>1 DEF RetriesAreOld, ClaimInv, ClaimsExclusive
      <3>. QED
        BY <1>3, <3>1, <3>2, <3>3, <3>4 DEF FailBackfill
    <2>4. \A t \in Sweepers : /\ sweeper'[t].claimed \subseteq sweeper[t].claimed
                              /\ RetriesAreOld(t)'
      BY <1>1, <2>1, <2>2, <2>3 DEF RetriesAreOld, ClaimInv, ClaimsExclusive
    <2>. QED
      BY <1>1, <1>2, <2>1, <2>4, NoNewClaim
  <1>4. ASSUME NEW c \in Calls, RetryPending(s, c) PROVE ClaimInv'
    <2>1. \A t \in Sweepers : /\ sweeper'[t].claimed = sweeper[t].claimed
                              /\ sweeper'[t].retry \subseteq sweeper[t].retry
                              /\ sweeper'[t].now = sweeper[t].now
      BY <1>4 DEF RetryPending, TypeOK, SweeperStates
    <2>2. CASE UNCHANGED <<usageRow, settles>>
      <3>1. \A t \in Sweepers : /\ sweeper'[t].claimed \subseteq sweeper[t].claimed
                                /\ RetriesAreOld(t)'
        BY <1>1, <2>1, <2>2 DEF RetriesAreOld, ClaimInv, ClaimsExclusive
      <3>. QED
        BY <1>1, <1>2, <2>2, <3>1, NoNewClaim
    <2>3. CASE usageRow[c].status = "pending" /\ DecrementAndSettle(c) /\ balance.exists
      <3>1. /\ usageRow' = [usageRow EXCEPT ![c].status = "applied"]
            /\ settles' = [settles EXCEPT ![c] = @ + 1]
        BY <2>3 DEF DecrementAndSettle
      <3>2. ~ ClaimInFlight(c)
        <4>1. usageRow[c].at + Grace < clock
          BY <1>4 DEF RetryPending, ClaimInv, ClaimsExclusive
        <4>2. usageRow[c].at \in Nat /\ Grace \in Nat /\ SettleLag \in Nat /\ clock \in Nat
          BY DEF TypeOK, UsageRows, ConstantsAssumption
        <4>. QED
          BY <4>1, <4>2 DEF ClaimInFlight
      <3>3. call[c].pc # "claimed" /\ \A t \in Sweepers : c \notin sweeper[t].claimed
        BY <3>2 DEF ClaimInv, ClaimsExclusive
      <3>4. \A d \in Calls : call'[d].pc = "claimed" => d # c /\ call[d].pc = "claimed"
        BY <1>1, <3>3
      <3>5. \A t \in Sweepers : /\ sweeper'[t].claimed \subseteq sweeper[t].claimed \ {c}
                                /\ sweeper'[t].retry \subseteq sweeper[t].retry
                                /\ sweeper'[t].now = sweeper[t].now
        BY <2>1, <3>3
      <3>. QED
        BY <1>1, <2>3, <3>1, <3>4, <3>5, SettlementKeepsClaims
    <2>. QED
      BY <1>4, <2>2, <2>3 DEF RetryPending, DecrementAndSettle
  <1>5. ASSUME NEW c \in Calls, ClaimOrphan(s, c) PROVE ClaimInv'
    <2>1. settles' = settles
      BY <1>5 DEF ClaimOrphan, histVars
    <2>2. CASE usageRow[c].status # "none"
      <3>1. usageRow' = usageRow
        BY <1>5, <2>2 DEF ClaimOrphan
      <3>2. \A t \in Sweepers : /\ sweeper'[t].claimed = sweeper[t].claimed
                                /\ sweeper'[t].retry = sweeper[t].retry
                                /\ sweeper'[t].now = sweeper[t].now
        BY <1>5, <2>2 DEF ClaimOrphan, TypeOK, SweeperStates
      <3>3. \A t \in Sweepers : /\ sweeper'[t].claimed \subseteq sweeper[t].claimed
                                /\ RetriesAreOld(t)'
        BY <1>1, <3>1, <3>2 DEF RetriesAreOld, ClaimInv, ClaimsExclusive
      <3>. QED
        BY <1>1, <1>2, <2>1, <3>1, <3>3, NoNewClaim
    <2>3. CASE usageRow[c].status = "none"
      <3>1. InsertUsageRow(c) /\ sweeper[s].claimed = {}
        BY <1>5, <2>3 DEF ClaimOrphan
      <3>2. call'[c].pc # "claimed" /\ \A t \in Sweepers : c \notin sweeper[t].claimed
        BY <1>1, <2>3 DEF ClaimInv, ClaimsExclusive, ClaimInFlight
      <3>3. /\ sweeper'[s].claimed = {c}
            /\ sweeper'[s].retry = sweeper[s].retry /\ sweeper'[s].now = sweeper[s].now
        BY <1>5, <2>3 DEF ClaimOrphan, TypeOK, SweeperStates
      <3>4. \A t \in Sweepers : t # s => sweeper'[t] = sweeper[t]
        BY <1>5 DEF ClaimOrphan, TypeOK
      <3>5. \A t \in Sweepers : /\ sweeper'[t].claimed \subseteq sweeper[t].claimed \cup {c}
                                /\ sweeper'[t].retry \subseteq sweeper[t].retry
                                /\ sweeper'[t].now = sweeper[t].now
        BY <3>3, <3>4
      <3>6. \A t, u \in Sweepers :
                c \in sweeper'[t].claimed /\ c \in sweeper'[u].claimed => t = u
        BY <3>2, <3>4
      <3>. QED
        BY <1>1, <1>2, <2>1, <2>3, <3>1, <3>2, <3>5, <3>6, NewClaim
    <2>. QED
      BY <2>2, <2>3
  <1>6. ASSUME NEW c \in Calls, SettleOrphan(s, c) PROVE ClaimInv'
    <2>1. c \in sweeper[s].claimed
      BY <1>6 DEF SettleOrphan
    <2>2. /\ usageRow[c].status = "pending" /\ call[c].pc # "claimed"
          /\ \A t \in Sweepers \ {s} : c \notin sweeper[t].claimed
      BY <2>1 DEF ClaimInv, ClaimsExclusive, ClaimInFlight
    <2>3. /\ sweeper'[s].claimed = {} /\ sweeper'[s].retry = sweeper[s].retry
          /\ sweeper'[s].now = sweeper[s].now
          /\ \A t \in Sweepers : t # s => sweeper'[t] = sweeper[t]
      BY <1>6 DEF SettleOrphan, TypeOK, SweeperStates
    <2>4. \A t \in Sweepers : /\ sweeper'[t].claimed \subseteq sweeper[t].claimed \ {c}
                              /\ sweeper'[t].retry \subseteq sweeper[t].retry
                              /\ sweeper'[t].now = sweeper[t].now
      BY <2>2, <2>3
    <2>5. CASE UNCHANGED <<usageRow, settles>>
      <3>1. \A t \in Sweepers : /\ sweeper'[t].claimed \subseteq sweeper[t].claimed
                                /\ RetriesAreOld(t)'
        BY <1>1, <2>4, <2>5 DEF RetriesAreOld, ClaimInv, ClaimsExclusive
      <3>. QED
        BY <1>1, <1>2, <2>5, <3>1, NoNewClaim
    <2>6. CASE \/ /\ usageRow' = [usageRow EXCEPT ![c].status = "applied"]
                  /\ settles' = [settles EXCEPT ![c] = @ + 1]
               \/ /\ usageRow' = [usageRow EXCEPT ![c].status = "skipped"]
                  /\ settles' = settles
      <3>1. \A d \in Calls : call'[d].pc = "claimed" => d # c /\ call[d].pc = "claimed"
        BY <1>1, <2>2
      <3>. QED
        BY <1>1, <2>2, <2>4, <2>6, <3>1, SettlementKeepsClaims
    <2>. QED
      BY <1>6, <2>5, <2>6 DEF SettleOrphan, DecrementAndSettle
  <1>. QED
    BY <1>3, <1>4, <1>5, <1>6 DEF BackfillStep

\* The clock does not outrun a process between claim and settlement.
LEMMA TickKeepsClaims ==
    ASSUME ConstantsAssumption, TypeOK, ClaimInv, Tick
    PROVE  ClaimInv'
  <1>1. UNCHANGED <<call, sweeper, usageRow, settles>> /\ clock' = clock + 1
    BY DEF Tick, dbVars, histVars
  <1>2. BilledOnce'
    BY <1>1 DEF ClaimInv, BilledOnce
  <1>3. ASSUME NEW c \in Calls, Prompt(c), ClaimInFlight(c) PROVE ClaimInFlight(c)'
    <2>1. usageRow[c].at \in Nat /\ SettleLag \in Nat /\ clock \in Nat
      BY DEF TypeOK, UsageRows, ConstantsAssumption
    <2>2. clock + 1 <= usageRow[c].at + SettleLag
      BY <1>3, <2>1 DEF Prompt
    <2>. QED
      BY <1>1, <1>3, <2>2 DEF ClaimInFlight
  <1>4. \A c \in Calls : call'[c].pc = "claimed" =>
            ClaimInFlight(c)' /\ \A s \in Sweepers : c \notin sweeper'[s].claimed
    BY <1>1, <1>3 DEF Tick, ClaimInv, ClaimsExclusive
  <1>5. \A s \in Sweepers : sweeper[s].claimed \subseteq Calls /\ sweeper[s].retry \subseteq Calls
    BY SweeperSets DEF TypeOK
  <1>6. \A s \in Sweepers : \A c \in sweeper'[s].claimed :
            ClaimInFlight(c)' /\ \A t \in Sweepers \ {s} : c \notin sweeper'[t].claimed
    BY <1>1, <1>3, <1>5 DEF Tick, ClaimInv, ClaimsExclusive
  <1>7. \A s \in Sweepers : \A c \in sweeper'[s].retry :
            usageRow'[c].status # "none" /\ usageRow'[c].at + Grace < clock'
    <2>1. \A c \in Calls : usageRow[c].at \in Nat
      BY DEF TypeOK, UsageRows
    <2>2. Grace \in Nat /\ clock \in Nat
      BY DEF TypeOK, ConstantsAssumption
    <2>. QED
      BY <1>1, <1>5, <2>1, <2>2 DEF ClaimInv, ClaimsExclusive
  <1>8. \A s \in Sweepers : sweeper'[s].now <= clock'
    <2>1. \A s \in Sweepers : sweeper[s].now \in Nat /\ sweeper[s].now <= clock
      BY SweeperSets DEF TypeOK, ClaimInv, ClaimsExclusive
    <2>. QED
      BY <1>1, <2>1 DEF TypeOK
  <1>. QED
    BY <1>2, <1>4, <1>6, <1>7, <1>8 DEF ClaimInv, ClaimsExclusive

\* So every step keeps ClaimInv.
LEMMA StepKeepsClaims ==
    ASSUME ConstantsAssumption, SettleLag <= Grace, TypeOK, ClaimInv, [Next]_vars
    PROVE  ClaimInv'
  <1>1. ASSUME UNCHANGED <<usageRow, settles, clock, call, sweeper>> PROVE ClaimInv'
    BY <1>1, SameSweepers, NoNewClaim
  <1>2. ASSUME NEW r \in Reconcilers, ReconcileStep(r) \/ CrashReconcile(r)
        PROVE  ClaimInv'
    BY <1>1, <1>2 DEF ReconcileStep, CrashReconcile, PickRow, CheckBase,
                      FetchGeneration, ApplyCorrection, MarkReconciled, dbVars, histVars
  <1>3. ASSUME NEW ref \in Invoices, FundInvoice(ref) PROVE ClaimInv'
    BY <1>1, <1>3 DEF FundInvoice, procVars
  <1>4. ASSUME NEW ref \in Packs, FundPack(ref) PROVE ClaimInv'
    BY <1>1, <1>4 DEF FundPack, procVars
  <1>5. CASE SubscriptionChange \/ UNCHANGED vars
    BY <1>1, <1>5 DEF SubscriptionChange, vars, dbVars, procVars, histVars
  <1>. QED
    BY <1>2, <1>3, <1>4, <1>5, CallKeepsClaims, BackfillKeepsClaims, TickKeepsClaims
       DEF Next

\* ClaimInv, with TypeOK, is an invariant if SettleLag <= Grace.
LEMMA ClaimInvariant ==
    ASSUME SettleLag <= Grace
    PROVE  Spec => [](TypeOK /\ ClaimInv)
  <1>1. Init => TypeOK /\ ClaimInv
    <2>1. Init => ClaimInv
      BY DEF Init, NoUsageRow, IdleSweeper, ClaimInv, BilledOnce, ClaimsExclusive
    <2>. QED
      BY <2>1, InitTypes
  <1>2. TypeOK /\ ClaimInv /\ [Next]_vars => (TypeOK /\ ClaimInv)'
    BY StepTypes, StepKeepsClaims, ConstantsAssumption
  <1>. QED
    BY <1>1, <1>2, PTL DEF Spec

\* Each AI call is billed at most once, and exactly once when its row says so,
\* whatever the live consumer, the retry sweeps and the orphan sweeps do - as
\* long as no process stays between claim and settlement longer than the
\* backfill's grace.
THEOREM CallsBilledOnce ==
    ASSUME SettleLag <= Grace
    PROVE  Spec => []BilledOnce
  <1>1. ClaimInv => BilledOnce
    BY DEF ClaimInv
  <1>. QED
    BY <1>1, ClaimInvariant, PTL

\* Under the same assumption no two processes are ever between the claim and
\* the settlement of one call, and no sweep retries a call in flight.
THEOREM ClaimsAreExclusive ==
    ASSUME SettleLag <= Grace
    PROVE  Spec => []ClaimsExclusive
  <1>1. ClaimInv => ClaimsExclusive
    BY DEF ClaimInv
  <1>. QED
    BY <1>1, ClaimInvariant, PTL

(***************************************************************************)
(* The ledger only grows                                                   *)
(***************************************************************************)
\* A usage row is written once and settled once.
RowsOnlyAdvance ==
    \A c \in Calls :
        /\ usageRow[c].status # "none" => usageRow'[c].status # "none"
        /\ usageRow[c].status \in {"applied", "skipped"} =>
               usageRow'[c].status = usageRow[c].status

\* Writing one row that was not settled advances it.
LEMMA OneRowAdvances ==
    ASSUME TypeOK, NEW c \in Calls, NEW row \in UsageRows,
           usageRow' = [usageRow EXCEPT ![c] = row],
           usageRow[c].status \in {"none", "pending"}, row.status # "none"
    PROVE  RowsOnlyAdvance
  BY DEF TypeOK, RowsOnlyAdvance

\* Settling a pending row advances it.
LEMMA SettlingAdvances ==
    ASSUME TypeOK, NEW c \in Calls, NEW st \in {"applied", "skipped"},
           usageRow' = [usageRow EXCEPT ![c].status = st],
           usageRow[c].status = "pending"
    PROVE  RowsOnlyAdvance
  <1>1. usageRow'[c].status = st /\ \A d \in Calls \ {c} : usageRow'[d] = usageRow[d]
    BY DEF TypeOK, UsageRows
  <1>. QED
    BY <1>1 DEF RowsOnlyAdvance

\* Inserting a row advances it.
LEMMA InsertingAdvances ==
    ASSUME TypeOK, NEW c \in Calls, InsertUsageRow(c), usageRow[c].status = "none"
    PROVE  RowsOnlyAdvance
  <1>1. [status |-> "pending", at |-> clock] \in UsageRows
    BY DEF TypeOK, UsageRows
  <1>. QED
    BY <1>1, OneRowAdvances DEF InsertUsageRow

\* Every step only advances usage rows.
LEMMA StepAdvances ==
    ASSUME ConstantsAssumption, TypeOK, ClaimInv, [Next]_vars
    PROVE  RowsOnlyAdvance
  <1>1. ASSUME UNCHANGED usageRow PROVE RowsOnlyAdvance
    BY <1>1 DEF RowsOnlyAdvance
  <1>2. ASSUME NEW c \in Calls, usageRow[c].status = "pending", DecrementAndSettle(c)
        PROVE  RowsOnlyAdvance
    BY <1>1, <1>2, SettlingAdvances DEF DecrementAndSettle
  <1>3. ASSUME NEW c \in Calls, CallStep(c) PROVE RowsOnlyAdvance
    <2>1. CASE Claim(c)
      BY <1>1, <2>1, InsertingAdvances DEF Claim
    <2>2. CASE SkipZeroCharge(c) \/ Settle(c)
      <3>1. usageRow[c].status = "pending"
        BY <2>2 DEF SkipZeroCharge, Settle, ClaimInv, ClaimsExclusive, ClaimInFlight
      <3>2. CASE SkipZeroCharge(c)
        BY <3>1, <3>2, SettlingAdvances DEF SkipZeroCharge
      <3>3. CASE Settle(c)
        BY <1>2, <3>1, <3>3 DEF Settle
      <3>. QED
        BY <2>2, <3>2, <3>3
    <2>. QED
      BY <1>1, <1>3, <2>1, <2>2
         DEF CallStep, GateStart, GateReset, GateInit, GateHold, StartUngated,
             FailTokenless, WriteUsage, ReleaseSkipped, Crash, dbVars
  <1>4. ASSUME NEW s \in Sweepers, BackfillStep(s) \/ FailBackfill(s)
        PROVE  RowsOnlyAdvance
    <2>1. ASSUME NEW c \in Calls, RetryPending(s, c) PROVE RowsOnlyAdvance
      BY <1>1, <1>2, <2>1 DEF RetryPending
    <2>2. ASSUME NEW c \in Calls, ClaimOrphan(s, c) PROVE RowsOnlyAdvance
      BY <1>1, <2>2, InsertingAdvances DEF ClaimOrphan
    <2>3. ASSUME NEW c \in Calls, SettleOrphan(s, c) PROVE RowsOnlyAdvance
      <3>1. usageRow[c].status = "pending"
        BY <2>3 DEF SettleOrphan, ClaimInv, ClaimsExclusive, ClaimInFlight
      <3>. QED
        BY <1>2, <2>3, <3>1, SettlingAdvances DEF SettleOrphan
    <2>. QED
      BY <1>1, <1>4, <2>1, <2>2, <2>3
         DEF BackfillStep, FailBackfill, CrashBackfill, SkipHolds, SkipRow,
             SweepHolds, SelectBacklog, EndBackfill, dbVars
  <1>5. ASSUME NEW r \in Reconcilers, ReconcileStep(r) \/ CrashReconcile(r)
        PROVE  RowsOnlyAdvance
    BY <1>1, <1>5 DEF ReconcileStep, CrashReconcile, PickRow, CheckBase,
                      FetchGeneration, ApplyCorrection, MarkReconciled, dbVars
  <1>6. ASSUME NEW ref \in Invoices, FundInvoice(ref) PROVE RowsOnlyAdvance
    BY <1>1, <1>6 DEF FundInvoice
  <1>7. ASSUME NEW ref \in Packs, FundPack(ref) PROVE RowsOnlyAdvance
    BY <1>1, <1>7 DEF FundPack
  <1>8. CASE SubscriptionChange \/ Tick \/ UNCHANGED vars
    BY <1>1, <1>8 DEF SubscriptionChange, Tick, vars, dbVars
  <1>. QED
    BY <1>3, <1>4, <1>5, <1>6, <1>7, <1>8 DEF Next

\* Credited payments and corrections are for ever.
EntriesKept ==
    /\ credited \subseteq credited'
    /\ \A c \in Calls : correction[c].made => correction'[c] = correction[c]

\* Every step keeps corrections and credited payments.
LEMMA StepKeepsEntries ==
    ASSUME TypeOK, [Next]_vars
    PROVE  EntriesKept
  <1>. USE DEF dbVars, procVars, histVars
  <1>1. ASSUME UNCHANGED <<credited, correction>> PROVE EntriesKept
    BY <1>1 DEF EntriesKept
  <1>2. ASSUME NEW r \in Reconcilers, NEW c \in Calls, ApplyCorrection(r, c)
        PROVE  EntriesKept
    BY <1>2 DEF ApplyCorrection, Uncorrected, EntriesKept, TypeOK
  <1>3. ASSUME NEW ref \in Invoices, FundInvoice(ref) PROVE EntriesKept
    BY <1>3 DEF FundInvoice, EntriesKept
  <1>4. ASSUME NEW ref \in Packs, FundPack(ref) PROVE EntriesKept
    BY <1>4 DEF FundPack, EntriesKept
  <1>5. ASSUME NEW c \in Calls, CallStep(c) PROVE EntriesKept
    BY <1>1, <1>5 DEF CallStep, GateStart, GateReset, GateInit, GateHold, StartUngated,
             FailTokenless, WriteUsage, Claim, SkipZeroCharge, ReleaseSkipped,
             Settle, Crash
  <1>6. ASSUME NEW s \in Sweepers, BackfillStep(s) \/ FailBackfill(s)
        PROVE  EntriesKept
    BY <1>1, <1>6 DEF BackfillStep, FailBackfill, CrashBackfill, SkipHolds, SkipRow,
                      SweepHolds, SelectBacklog,
             RetryPending, ClaimOrphan, SettleOrphan, EndBackfill
  <1>7. ASSUME NEW r \in Reconcilers, ReconcileStep(r) \/ CrashReconcile(r)
        PROVE  EntriesKept
    BY <1>1, <1>2, <1>7 DEF ReconcileStep, CrashReconcile, PickRow, CheckBase,
             FetchGeneration, MarkReconciled
  <1>8. CASE SubscriptionChange \/ Tick \/ UNCHANGED vars
    BY <1>1, <1>8 DEF SubscriptionChange, Tick, vars
  <1>. QED
    BY <1>3, <1>4, <1>5, <1>6, <1>7, <1>8 DEF Next

\* The ledger is append-only: no settled usage row is ever settled again or
\* goes back, no correction and no credited payment is undone.
THEOREM LedgerNeverRewritten ==
    ASSUME SettleLag <= Grace
    PROVE  Spec => LedgerAppendOnly
  <1>1. TypeOK /\ ClaimInv /\ [Next]_vars => RowsOnlyAdvance /\ EntriesKept
    BY StepAdvances, StepKeepsEntries, ConstantsAssumption
  <1>2. RowsOnlyAdvance /\ EntriesKept =>
            /\ credited \subseteq credited'
            /\ \A c \in Calls :
                 /\ correction[c].made => correction'[c] = correction[c]
                 /\ usageRow[c].status \in {"applied", "skipped"} =>
                        usageRow'[c].status = usageRow[c].status
    BY DEF RowsOnlyAdvance, EntriesKept
  <1>. QED
    BY <1>1, <1>2, ClaimInvariant, PTL DEF Spec, LedgerAppendOnly

(***************************************************************************)
(* A correction never hides an unbilled call                               *)
(***************************************************************************)
NoRowVanishes ==
    \A c \in Calls : usageRow[c].status # "none" => usageRow'[c].status # "none"

\* No step removes a usage row (this needs no assumption on SettleLag).
LEMMA UsageRowsStay ==
    ASSUME TypeOK, [Next]_vars
    PROVE  NoRowVanishes
  <1>. USE DEF dbVars
  <1>1. ASSUME UNCHANGED usageRow PROVE NoRowVanishes
    BY <1>1 DEF NoRowVanishes
  <1>2. ASSUME NEW c \in Calls, NEW st \in {"applied", "skipped"},
               usageRow' = [usageRow EXCEPT ![c].status = st]
        PROVE  NoRowVanishes
    BY <1>2 DEF NoRowVanishes, TypeOK, UsageRows
  <1>3. ASSUME NEW c \in Calls, InsertUsageRow(c) PROVE NoRowVanishes
    BY <1>3 DEF InsertUsageRow, NoRowVanishes, TypeOK
  <1>4. ASSUME NEW c \in Calls, DecrementAndSettle(c) PROVE NoRowVanishes
    BY <1>1, <1>2, <1>4 DEF DecrementAndSettle
  <1>5. ASSUME NEW c \in Calls, CallStep(c) PROVE NoRowVanishes
    BY <1>1, <1>2, <1>3, <1>4, <1>5
       DEF CallStep, GateStart, GateReset, GateInit, GateHold, StartUngated,
           FailTokenless, WriteUsage, Claim, SkipZeroCharge, ReleaseSkipped,
           Settle, Crash
  <1>6. ASSUME NEW s \in Sweepers, BackfillStep(s) \/ FailBackfill(s)
        PROVE  NoRowVanishes
    BY <1>1, <1>2, <1>3, <1>4, <1>6
       DEF BackfillStep, FailBackfill, CrashBackfill, SkipHolds, SkipRow,
           SweepHolds, SelectBacklog, RetryPending,
           ClaimOrphan, SettleOrphan, EndBackfill
  <1>7. ASSUME NEW r \in Reconcilers, ReconcileStep(r) \/ CrashReconcile(r)
        PROVE  NoRowVanishes
    BY <1>1, <1>7 DEF ReconcileStep, CrashReconcile, PickRow, CheckBase,
           FetchGeneration, ApplyCorrection, MarkReconciled
  <1>8. ASSUME NEW ref \in Invoices, FundInvoice(ref) PROVE NoRowVanishes
    BY <1>1, <1>8 DEF FundInvoice
  <1>9. ASSUME NEW ref \in Packs, FundPack(ref) PROVE NoRowVanishes
    BY <1>1, <1>9 DEF FundPack
  <1>10. CASE SubscriptionChange \/ Tick \/ UNCHANGED vars
    BY <1>1, <1>10 DEF SubscriptionChange, Tick, vars
  <1>. QED
    BY <1>5, <1>6, <1>7, <1>8, <1>9, <1>10 DEF Next

\* A reconciler is at one call at a time, and past its base check that call has
\* its base charge.
BaseChecked(r) ==
    /\ \A c, d \in reconciler[r].rows : c = d
    /\ reconciler[r].pc \in {"fetch", "correct", "mark"} =>
           \A c \in reconciler[r].rows : usageRow[c].status # "none"

VisibleInv == OrphansStayVisible /\ \A r \in Reconcilers : BaseChecked(r)

\* Steps outside the reconciliation keep VisibleInv ...
LEMMA SameReconcilersVisible ==
    ASSUME TypeOK, VisibleInv, NoRowVanishes, UNCHANGED <<correction, reconciler>>
    PROVE  VisibleInv'
  <1>1. \A r \in Reconcilers : reconciler[r].rows \subseteq Calls
    BY DEF TypeOK, ReconcilerStates
  <1>. QED
    BY <1>1 DEF VisibleInv, OrphansStayVisible, BaseChecked, NoRowVanishes

\* ... and so do the steps of its runs ...
LEMMA ReconcileKeepsVisible ==
    ASSUME TypeOK, VisibleInv, NoRowVanishes, NEW r \in Reconcilers,
           ReconcileStep(r) \/ CrashReconcile(r)
    PROVE  VisibleInv'
  <1>1. \A q \in Reconcilers : reconciler[q].rows \subseteq Calls
    BY DEF TypeOK, ReconcilerStates
  <1>2. \A q \in Reconcilers : q # r => reconciler'[q] = reconciler[q]
    BY DEF ReconcileStep, CrashReconcile, PickRow, CheckBase, Defer,
           FetchGeneration, ApplyCorrection, MarkReconciled, TypeOK
  <1>3. \A q \in Reconcilers \ {r} : BaseChecked(q)'
    BY <1>1, <1>2 DEF VisibleInv, BaseChecked, NoRowVanishes
  <1>4. ASSUME UNCHANGED correction, BaseChecked(r)' PROVE VisibleInv'
    BY <1>3, <1>4 DEF VisibleInv, OrphansStayVisible, NoRowVanishes
  <1>5. ASSUME reconciler'[r] = IdleReconciler PROVE BaseChecked(r)'
    BY <1>5 DEF BaseChecked, IdleReconciler
  <1>6. ASSUME NEW c \in Calls, Defer(r, c) PROVE BaseChecked(r)'
    BY <1>5, <1>6 DEF Defer, TypeOK
  <1>7. ASSUME NEW c \in Calls, PickRow(r, c) PROVE VisibleInv'
    <2>1. reconciler'[r].pc = "check" /\ reconciler'[r].rows = {c}
      BY <1>7 DEF PickRow, IdleReconciler, TypeOK
    <2>. QED
      BY <1>4, <1>7, <2>1 DEF PickRow, BaseChecked, dbVars
  <1>8. ASSUME NEW c \in Calls, CheckBase(r, c) PROVE VisibleInv'
    <2>1. CASE Defer(r, c)
      BY <1>4, <1>6, <1>8, <2>1 DEF CheckBase
    <2>2. CASE HasUsageRow(c) /\ reconciler' = [reconciler EXCEPT ![r].pc = "fetch"]
      <3>1. c \in reconciler[r].rows /\ UNCHANGED <<usageRow, correction>>
        BY <1>8 DEF CheckBase
      <3>2. \A d, e \in reconciler[r].rows : d = e
        BY DEF VisibleInv, BaseChecked
      <3>3. reconciler'[r].rows = reconciler[r].rows
        BY <2>2 DEF TypeOK, ReconcilerStates
      <3>4. BaseChecked(r)'
        BY <2>2, <3>1, <3>2, <3>3 DEF HasUsageRow, BaseChecked
      <3>. QED
        BY <1>4, <3>1, <3>4
    <2>. QED
      BY <1>8, <2>1, <2>2 DEF CheckBase
  <1>9. ASSUME NEW c \in Calls, FetchGeneration(r, c) PROVE VisibleInv'
    <2>1. CASE Defer(r, c)
      BY <1>4, <1>6, <1>9, <2>1 DEF FetchGeneration
    <2>2. CASE ~ Defer(r, c)
      <3>1. /\ reconciler'[r].rows = reconciler[r].rows /\ reconciler[r].pc = "fetch"
            /\ UNCHANGED <<usageRow, correction>>
        <4>1. \E pc, delta : reconciler' = [reconciler EXCEPT ![r].pc = pc,
                                                              ![r].deltaMc = delta]
          BY <1>9, <2>2 DEF FetchGeneration
        <4>2. PICK pc, delta : reconciler' = [reconciler EXCEPT ![r].pc = pc,
                                                                ![r].deltaMc = delta]
          BY <4>1
        <4>3. reconciler'[r].rows = reconciler[r].rows
          BY <4>2 DEF TypeOK, ReconcilerStates
        <4>. QED
          BY <1>9, <4>3 DEF FetchGeneration
      <3>2. BaseChecked(r)'
        BY <3>1 DEF VisibleInv, BaseChecked
      <3>. QED
        BY <1>4, <3>1, <3>2
    <2>. QED
      BY <2>1, <2>2
  <1>10. ASSUME NEW c \in Calls, ApplyCorrection(r, c) PROVE VisibleInv'
    <2>1. /\ reconciler'[r].rows = reconciler[r].rows /\ reconciler[r].pc = "correct"
          /\ c \in reconciler[r].rows /\ UNCHANGED usageRow
      BY <1>10 DEF ApplyCorrection, TypeOK, ReconcilerStates
    <2>2. usageRow[c].status # "none" /\ BaseChecked(r)'
      BY <2>1 DEF VisibleInv, BaseChecked
    <2>3. \A d \in Calls \ {c} : correction'[d] = correction[d]
      BY <1>10 DEF ApplyCorrection, TypeOK
    <2>4. OrphansStayVisible'
      BY <2>1, <2>2, <2>3 DEF VisibleInv, OrphansStayVisible
    <2>. QED
      BY <1>3, <2>2, <2>4 DEF VisibleInv
  <1>11. ASSUME NEW c \in Calls, MarkReconciled(r, c) PROVE VisibleInv'
    BY <1>4, <1>5, <1>11 DEF MarkReconciled, TypeOK
  <1>12. CASE CrashReconcile(r)
    BY <1>4, <1>5, <1>12 DEF CrashReconcile, TypeOK, dbVars
  <1>. QED
    BY <1>7, <1>8, <1>9, <1>10, <1>11, <1>12 DEF ReconcileStep

\* ... hence all steps do.
LEMMA StepKeepsVisible ==
    ASSUME TypeOK, VisibleInv, [Next]_vars
    PROVE  VisibleInv'
  <1>. USE UsageRowsStay DEF dbVars, procVars, histVars
  <1>1. ASSUME UNCHANGED <<correction, reconciler>> PROVE VisibleInv'
    BY <1>1, SameReconcilersVisible
  <1>2. ASSUME NEW c \in Calls, CallStep(c) PROVE VisibleInv'
    BY <1>1, <1>2
       DEF CallStep, GateStart, GateReset, GateInit, GateHold, StartUngated,
           FailTokenless, WriteUsage, Claim, SkipZeroCharge, ReleaseSkipped,
           Settle, Crash
  <1>3. ASSUME NEW s \in Sweepers, BackfillStep(s) \/ FailBackfill(s)
        PROVE  VisibleInv'
    BY <1>1, <1>3
       DEF BackfillStep, FailBackfill, CrashBackfill, SkipHolds, SkipRow,
           SweepHolds, SelectBacklog, RetryPending,
           ClaimOrphan, SettleOrphan, EndBackfill
  <1>4. ASSUME NEW r \in Reconcilers, ReconcileStep(r) \/ CrashReconcile(r)
        PROVE  VisibleInv'
    BY <1>4, ReconcileKeepsVisible
  <1>5. ASSUME NEW ref \in Invoices, FundInvoice(ref) PROVE VisibleInv'
    BY <1>1, <1>5 DEF FundInvoice
  <1>6. ASSUME NEW ref \in Packs, FundPack(ref) PROVE VisibleInv'
    BY <1>1, <1>6 DEF FundPack
  <1>7. CASE SubscriptionChange \/ Tick \/ UNCHANGED vars
    BY <1>1, <1>7 DEF SubscriptionChange, Tick, vars
  <1>. QED
    BY <1>2, <1>3, <1>4, <1>5, <1>6, <1>7 DEF Next

\* VisibleInv, with TypeOK, is an invariant.
LEMMA VisibleInvariant == Spec => [](TypeOK /\ VisibleInv)
  <1>1. Init => TypeOK /\ VisibleInv
    <2>1. Init => VisibleInv
      BY DEF Init, NoCorrection, IdleReconciler, VisibleInv, OrphansStayVisible,
             BaseChecked
    <2>. QED
      BY <2>1, InitTypes
  <1>2. TypeOK /\ VisibleInv /\ [Next]_vars => (TypeOK /\ VisibleInv)'
    BY StepTypes, StepKeepsVisible, ConstantsAssumption
  <1>. QED
    BY <1>1, <1>2, PTL DEF Spec

\* A correction exists only beside its base charge: the orphan sweep, which
\* passes over every call that has a ledger row of any type, never passes over
\* a call that is not billed because of a correction.
THEOREM CorrectionsHaveBase == Spec => []OrphansStayVisible
  <1>1. VisibleInv => OrphansStayVisible
    BY DEF VisibleInv
  <1>. QED
    BY <1>1, VisibleInvariant, PTL

(***************************************************************************)
(* One grant per period                                                    *)
(***************************************************************************)
\* The row remembers the gate's last grant: its window ends a period later.
GrantRemembered ==
    gateGrants.last # Null =>
        /\ balance.exists /\ balance.periodEnd # Null
        /\ balance.periodEnd >= gateGrants.last + Period

OneGrantPerPeriod ==
    gateGrants'.rows # gateGrants.rows =>
        gateGrants.last = Null \/ gateGrants'.last > gateGrants.last + Period

\* The types of the fields that the grants depend on.
LEMMA GrantTypes ==
    ASSUME TypeOK
    PROVE  /\ gateGrants.last \in Nat \cup {Null}
           /\ balance.periodEnd \in Nat \cup {Null}
           /\ \A c \in Calls : call[c].now \in Nat
  BY DEF TypeOK, Balances, CallStates

\* A step that grants does so for a window that is over, and records it.
LEMMA GrantStep ==
    ASSUME ConstantsAssumption, TypeOK, GrantRemembered, NEW now \in Nat,
           gateGrants' = [rows |-> gateGrants.rows + 1, last |-> now],
           ~ balance.exists \/ WindowExpired(balance, now),
           balance'.exists = TRUE, balance'.periodEnd = now + Period
    PROVE  GrantRemembered' /\ OneGrantPerPeriod
  <1>1. GrantRemembered'
    BY DEF GrantRemembered, ConstantsAssumption, Null
  <1>2. gateGrants.last = Null \/ now > gateGrants.last + Period
    BY GrantTypes DEF GrantRemembered, WindowExpired, ConstantsAssumption, Null
  <1>. QED
    BY <1>1, <1>2 DEF OneGrantPerPeriod

\* A step that grants nothing and leaves the window alone.
LEMMA NoGrant ==
    ASSUME GrantRemembered, UNCHANGED gateGrants,
           balance'.exists = balance.exists, balance'.periodEnd = balance.periodEnd
    PROVE  GrantRemembered' /\ OneGrantPerPeriod
  BY DEF GrantRemembered, OneGrantPerPeriod

\* A debit leaves the billing window alone.
LEMMA DebitKeepsWindow ==
    ASSUME NEW b \in Balances, NEW mc
    PROVE  /\ Debit(b, mc).exists = b.exists
           /\ Debit(b, mc).periodEnd = b.periodEnd
  BY DEF Debit, Balances

\* So does a payment.
LEMMA RefundKeepsWindow ==
    ASSUME NEW b \in Balances, NEW cents
    PROVE  /\ Refund(b, cents).exists = b.exists
           /\ Refund(b, cents).periodEnd = b.periodEnd
  BY DEF Refund, Balances

\* A refill sets the window ...
LEMMA RefillSetsWindow ==
    ASSUME NEW b \in Balances, NEW end
    PROVE  Refill(b, end).exists = b.exists /\ Refill(b, end).periodEnd = end
  BY DEF Refill, Balances

\* ... and so does the lazy grant.
LEMMA LazyGrantSetsWindow ==
    ASSUME NEW b \in Balances, NEW end,
           balance' = [EnsureRow(b) EXCEPT !.monthly = Allowance, !.periodEnd = end]
    PROVE  balance'.exists = TRUE /\ balance'.periodEnd = end
  BY DEF EnsureRow, Balances

\* Every step of an account without invoices keeps GrantRemembered and grants
\* at most once a period.
LEMMA StepGrants ==
    ASSUME ConstantsAssumption, Invoices = {}, TypeOK, GrantRemembered, [Next]_vars
    PROVE  GrantRemembered' /\ OneGrantPerPeriod
  <1>. DEFINE Goal == GrantRemembered' /\ OneGrantPerPeriod
  <1>. USE DEF dbVars, procVars, histVars
  <1>1. ASSUME UNCHANGED <<balance, gateGrants>> PROVE Goal
    BY <1>1, NoGrant
  <1>. HIDE DEF Goal
  <1>2. balance \in Balances
    BY DEF TypeOK
  <1>3. ASSUME NEW c \in Calls, DecrementAndSettle(c), UNCHANGED gateGrants PROVE Goal
    <2>1. CASE balance.exists
      BY <1>2, <1>3, <2>1, DebitKeepsWindow, NoGrant DEF DecrementAndSettle, Goal
    <2>2. CASE ~ balance.exists
      BY <1>1, <1>3, <2>2 DEF DecrementAndSettle
    <2>. QED
      BY <2>1, <2>2
  <1>4. ASSUME NEW c \in Calls, CallStep(c) PROVE Goal
    <2>1. call[c].now \in Nat
      BY GrantTypes
    <2>2. CASE GateReset(c)
      <3>1. CASE MayReset(c)
        <4>1. /\ balance'.exists = TRUE
              /\ balance'.periodEnd = call[c].now + Period
          <5>1. balance.exists = TRUE
            BY <1>2, <3>1 DEF MayReset, Balances
          <5>. QED
            BY <1>2, <2>2, <3>1, <5>1, RefillSetsWindow DEF GateReset
        <4>2. /\ WindowExpired(balance, call[c].now)
              /\ gateGrants' = [rows |-> gateGrants.rows + 1, last |-> call[c].now]
          BY <2>2, <3>1 DEF GateReset, MayReset, RecordGrant
        <4>. QED
          BY <2>1, <4>1, <4>2, GrantStep DEF Goal
      <3>. QED
        BY <1>1, <2>2, <3>1 DEF GateReset
    <2>3. CASE GateInit(c)
      <3>1. CASE ~ balance.exists
        <4>1. /\ balance'.exists = TRUE
              /\ balance'.periodEnd = call[c].now + Period
          BY <1>2, <2>3, <3>1, LazyGrantSetsWindow DEF GateInit
        <4>2. gateGrants' = [rows |-> gateGrants.rows + 1, last |-> call[c].now]
          BY <2>3, <3>1 DEF GateInit, RecordGrant
        <4>. QED
          BY <2>1, <3>1, <4>1, <4>2, GrantStep DEF Goal
      <3>. QED
        BY <1>1, <2>3, <3>1 DEF GateInit
    <2>4. CASE Settle(c)
      BY <1>3, <2>4 DEF Settle
    <2>. QED
      BY <1>1, <1>4, <2>2, <2>3, <2>4
         DEF CallStep, GateStart, GateHold, StartUngated, FailTokenless, WriteUsage,
             Claim, SkipZeroCharge, ReleaseSkipped, Crash
  <1>5. ASSUME NEW s \in Sweepers, BackfillStep(s) \/ FailBackfill(s) PROVE Goal
    <2>1. ASSUME NEW c \in Calls, RetryPending(s, c) \/ SettleOrphan(s, c) PROVE Goal
      BY <1>1, <1>3, <2>1 DEF RetryPending, SettleOrphan
    <2>. QED
      BY <1>1, <1>5, <2>1 DEF BackfillStep, FailBackfill, CrashBackfill, SkipHolds,
                              SkipRow, SweepHolds, SelectBacklog,
                              ClaimOrphan, EndBackfill
  <1>6. ASSUME NEW r \in Reconcilers, ReconcileStep(r) \/ CrashReconcile(r) PROVE Goal
    <2>1. ASSUME NEW c \in Calls, ApplyCorrection(r, c) PROVE Goal
      <3>1. gateGrants' = gateGrants
        BY <2>1 DEF ApplyCorrection
      <3>2. ASSUME MoveDelta(reconciler[r].deltaMc) PROVE Goal
        BY <1>2, <3>1, <3>2, DebitKeepsWindow, RefundKeepsWindow, NoGrant
           DEF MoveDelta, Goal
      <3>. QED
        BY <1>1, <2>1, <3>1, <3>2 DEF ApplyCorrection
    <2>. QED
      BY <1>1, <1>6, <2>1 DEF ReconcileStep, CrashReconcile, PickRow, CheckBase,
                              FetchGeneration, MarkReconciled
  <1>7. ASSUME NEW ref \in Packs, FundPack(ref) PROVE Goal
    <2>1. gateGrants' = gateGrants
      BY <1>7 DEF FundPack
    <2>2. /\ balance'.exists = EnsureRow(balance).exists
          /\ balance'.periodEnd = EnsureRow(balance).periodEnd
      BY <1>2, <1>7, EnsureRowType, RefundKeepsWindow DEF FundPack
    <2>3. balance'.exists = TRUE /\ balance'.periodEnd = balance.periodEnd
      BY <1>2, <2>2 DEF EnsureRow, Balances
    <2>. QED
      BY <2>1, <2>3 DEF Goal, GrantRemembered, OneGrantPerPeriod
  <1>8. ASSUME SubscriptionChange \/ Tick \/ UNCHANGED vars PROVE Goal
    BY <1>1, <1>8 DEF SubscriptionChange, Tick, vars
  <1>9. Goal
    BY <1>4, <1>5, <1>6, <1>7, <1>8 DEF Next
  <1>. QED
    BY <1>9 DEF Goal

\* Two grants by the gate of an account without invoices (the free tier) are
\* more than a period apart, however many calls find the window expired at the
\* same moment and however late each of them gets to the row lock.
THEOREM OneGrantAPeriod ==
    ASSUME Invoices = {}
    PROVE  Spec => GateGrantsApart
  <1>1. Init => TypeOK /\ GrantRemembered
    <2>1. Init => GrantRemembered
      BY DEF Init, GrantRemembered
    <2>. QED
      BY <2>1, InitTypes
  <1>2. TypeOK /\ GrantRemembered /\ [Next]_vars =>
            (TypeOK /\ GrantRemembered)' /\ OneGrantPerPeriod
    BY StepTypes, StepGrants, ConstantsAssumption
  <1>3. OneGrantPerPeriod =>
            (gateGrants'.rows # gateGrants.rows =>
                gateGrants.last = Null \/ gateGrants'.last > gateGrants.last + Period)
    BY DEF OneGrantPerPeriod
  <1>. QED
    BY <1>1, <1>2, <1>3, PTL DEF Spec, GateGrantsApart

(***************************************************************************)
(* The account does what CreditAccount promises                            *)
(***************************************************************************)
\* A usage log is written when the call has run and stays; claims, settlements
\* and the orphans that a sweep has selected are of calls that have one.
LogInv ==
    /\ \A c \in Calls : usageLog[c].written =>
           call[c].pc \in {"logged", "claimed", "skipped", "done", "dead"}
    /\ \A c \in Calls : call[c].pc \in {"logged", "claimed", "skipped"} =>
           usageLog[c].written
    /\ \A c \in Calls : usageRow[c].status # "none" => usageLog[c].written
    /\ \A s \in Sweepers : \A c \in sweeper[s].orphans \cup sweeper[s].claimed :
           usageLog[c].written

\* The steps of a call keep LogInv ...
LEMMA CallKeepsLogs ==
    ASSUME TypeOK, LogInv, NEW c \in Calls, CallStep(c)
    PROVE  LogInv'
  <1>. USE DEF dbVars, procVars, histVars
  <1>1. /\ \A d \in Calls \ {c} : call'[d] = call[d] /\ usageLog'[d] = usageLog[d]
                                  /\ usageRow'[d] = usageRow[d]
        /\ sweeper' = sweeper
    BY DEF CallStep, GateStart, GateReset, GateInit, GateHold, StartUngated,
           FailTokenless, WriteUsage, Claim, SkipZeroCharge, ReleaseSkipped, Settle,
           Crash, DecrementAndSettle, InsertUsageRow, Goto, Step, TypeOK
  <1>2. \A s \in Sweepers : sweeper[s].orphans \cup sweeper[s].claimed \subseteq Calls
    BY SweeperSets DEF TypeOK
  <1>3. ASSUME usageLog[c].written => usageLog'[c].written,
               usageLog'[c].written =>
                   call'[c].pc \in {"logged", "claimed", "skipped", "done", "dead"},
               call'[c].pc \in {"logged", "claimed", "skipped"} => usageLog'[c].written,
               usageRow'[c].status # "none" => usageLog'[c].written
        PROVE  LogInv'
    BY <1>1, <1>2, <1>3 DEF LogInv
  <1>4. CASE WriteUsage(c)
    <2>1. usageLog'[c].written /\ call'[c].pc = "logged"
      BY <1>4 DEF WriteUsage, Goto, TypeOK
    <2>. QED
      BY <1>3, <2>1
  <1>5. CASE Claim(c) \/ SkipZeroCharge(c) \/ ReleaseSkipped(c) \/ Settle(c) \/ Crash(c)
    <2>1. /\ call[c].pc \in {"logged", "claimed", "skipped"} /\ usageLog' = usageLog
          /\ call'[c].pc \in {"claimed", "skipped", "done", "dead"}
      BY <1>5 DEF Claim, SkipZeroCharge, ReleaseSkipped, Settle, Crash, Goto, TypeOK
    <2>2. usageLog[c].written
      BY <2>1 DEF LogInv
    <2>. QED
      BY <1>3, <2>1, <2>2
  <1>6. CASE GateStart(c) \/ GateReset(c) \/ GateInit(c) \/ GateHold(c)
             \/ StartUngated(c) \/ FailTokenless(c)
    <2>1. /\ call[c].pc \in {"idle", "reset", "init", "hold", "running"}
          /\ UNCHANGED <<usageLog, usageRow>>
      BY <1>6 DEF GateStart, GateReset, GateInit, GateHold, StartUngated, FailTokenless
    <2>2. call'[c].pc \in {"reset", "init", "hold", "denied", "running", "done"}
      BY <1>6 DEF GateStart, GateReset, GateInit, GateHold, StartUngated, FailTokenless,
                  Goto, Step, TypeOK, CallStates
    <2>3. ~ usageLog[c].written
      BY <2>1 DEF LogInv
    <2>4. usageRow[c].status = "none"
      BY <2>3 DEF LogInv
    <2>. QED
      BY <1>3, <2>1, <2>2, <2>3, <2>4
  <1>. QED
    BY <1>4, <1>5, <1>6 DEF CallStep

\* What the cost reconciliation writes to a usage log is not its cost.
LEMMA ReconcileKeepsCosts ==
    ASSUME TypeOK, NEW r \in Reconcilers, ReconcileStep(r) \/ CrashReconcile(r),
           NEW d \in Calls
    PROVE  /\ usageLog'[d].written = usageLog[d].written
           /\ usageLog'[d].cost = usageLog[d].cost
  <1>1. ASSUME UNCHANGED usageLog
        PROVE  /\ usageLog'[d].written = usageLog[d].written
               /\ usageLog'[d].cost = usageLog[d].cost
    BY <1>1
  <1>2. ASSUME NEW c \in Calls, NEW st, usageLog' = [usageLog EXCEPT ![c].reconcile = st]
        PROVE  /\ usageLog'[d].written = usageLog[d].written
               /\ usageLog'[d].cost = usageLog[d].cost
    BY <1>2 DEF TypeOK, UsageLogs
  <1>3. ASSUME NEW c \in Calls, usageLog' = [usageLog EXCEPT ![c].attempts = @ + 1]
        PROVE  /\ usageLog'[d].written = usageLog[d].written
               /\ usageLog'[d].cost = usageLog[d].cost
    BY <1>3 DEF TypeOK, UsageLogs
  <1>4. ASSUME NEW c \in Calls, Defer(r, c)
        PROVE  /\ usageLog'[d].written = usageLog[d].written
               /\ usageLog'[d].cost = usageLog[d].cost
    BY <1>2, <1>3, <1>4 DEF Defer
  <1>. QED
    BY <1>1, <1>2, <1>4 DEF ReconcileStep, CrashReconcile, PickRow, CheckBase,
           FetchGeneration, ApplyCorrection, MarkReconciled, dbVars

\* ... and so do the other steps.
LEMMA StepKeepsLogs ==
    ASSUME TypeOK, LogInv, [Next]_vars
    PROVE  LogInv'
  <1>. USE DEF dbVars, procVars, histVars
  <1>1. \A s \in Sweepers : sweeper[s].orphans \cup sweeper[s].claimed \subseteq Calls
    BY SweeperSets DEF TypeOK
  <1>2. ASSUME UNCHANGED <<call, usageRow, sweeper>>,
               \A c \in Calls : usageLog'[c].written = usageLog[c].written
        PROVE  LogInv'
    BY <1>1, <1>2 DEF LogInv
  <1>3. ASSUME NEW s \in Sweepers, BackfillStep(s) \/ FailBackfill(s) PROVE LogInv'
    <2>1. UNCHANGED <<call, usageLog>>
      BY <1>3 DEF BackfillStep, FailBackfill, CrashBackfill, SkipHolds, SkipRow,
             SweepHolds, SelectBacklog, RetryPending, ClaimOrphan, SettleOrphan,
             EndBackfill
    <2>2. \A t \in Sweepers \ {s} : sweeper'[t] = sweeper[t]
      BY <1>3 DEF BackfillStep, FailBackfill, CrashBackfill, SkipHolds, SkipRow,
             SweepHolds, SelectBacklog, RetryPending, ClaimOrphan, SettleOrphan,
             EndBackfill, TypeOK
    <2>3. ASSUME \A c \in Calls : usageRow'[c].status # "none" => usageLog[c].written,
                 \A c \in sweeper'[s].orphans \cup sweeper'[s].claimed :
                     c \in Calls /\ usageLog[c].written
          PROVE  LogInv'
      BY <1>1, <2>1, <2>2, <2>3 DEF LogInv
    <2>4. \A c \in sweeper[s].orphans \cup sweeper[s].claimed :
              c \in Calls /\ usageLog[c].written
      BY <1>1 DEF LogInv
    <2>5. ASSUME usageRow' = usageRow,
                 sweeper'[s].orphans \cup sweeper'[s].claimed
                    \subseteq sweeper[s].orphans \cup sweeper[s].claimed
          PROVE  LogInv'
      <3>1. \A c \in Calls : usageRow'[c].status # "none" => usageLog[c].written
        BY <2>5 DEF LogInv
      <3>2. \A c \in sweeper'[s].orphans \cup sweeper'[s].claimed :
                c \in Calls /\ usageLog[c].written
        BY <2>4, <2>5
      <3>. QED
        BY <2>3, <3>1, <3>2
    <2>6. ASSUME NEW c \in Calls, usageLog[c].written,
                 \A d \in Calls \ {c} : usageRow'[d] = usageRow[d],
                 sweeper'[s].orphans \cup sweeper'[s].claimed
                    \subseteq sweeper[s].orphans \cup sweeper[s].claimed
          PROVE  LogInv'
      <3>1. \A d \in Calls : usageRow'[d].status # "none" => usageLog[d].written
        BY <2>6 DEF LogInv
      <3>2. \A d \in sweeper'[s].orphans \cup sweeper'[s].claimed :
                d \in Calls /\ usageLog[d].written
        BY <2>4, <2>6
      <3>. QED
        BY <2>3, <3>1, <3>2
    <2>7. CASE SelectBacklog(s)
      <3>1. /\ sweeper'[s].orphans \subseteq OrphanLogs(Cutoff(s))
            /\ sweeper'[s].claimed = {}
        BY <2>7 DEF SelectBacklog, TypeOK, IdleSweeper
      <3>2. \A c \in OrphanLogs(Cutoff(s)) : c \in Calls /\ usageLog[c].written
        BY DEF OrphanLogs
      <3>3. \A c \in Calls : usageRow'[c].status # "none" => usageLog[c].written
        BY <2>7 DEF SelectBacklog, LogInv
      <3>. QED
        BY <2>3, <3>1, <3>2, <3>3
    <2>8. CASE SweepHolds(s) \/ EndBackfill(s) \/ CrashBackfill(s) \/ SkipHolds(s)
      <3>1. sweeper'[s].orphans \cup sweeper'[s].claimed
                \subseteq sweeper[s].orphans \cup sweeper[s].claimed
        BY <2>8 DEF SweepHolds, EndBackfill, CrashBackfill, SkipHolds, TypeOK,
                    SweeperStates, IdleSweeper
      <3>. QED
        BY <2>5, <2>8, <3>1 DEF SweepHolds, EndBackfill, CrashBackfill, SkipHolds
    <2>9. ASSUME NEW c \in Calls, SkipRow(s, c) PROVE LogInv'
      <3>1. sweeper'[s].orphans \cup sweeper'[s].claimed
                \subseteq sweeper[s].orphans \cup sweeper[s].claimed
        BY <2>9 DEF SkipRow, TypeOK, SweeperStates
      <3>. QED
        BY <2>5, <2>9, <3>1 DEF SkipRow
    <2>10. ASSUME NEW c \in Calls, \/ RetryPending(s, c)
                                   \/ ClaimOrphan(s, c)
                                   \/ SettleOrphan(s, c)
           PROVE  LogInv'
      <3>1. sweeper'[s].orphans \cup sweeper'[s].claimed
                \subseteq sweeper[s].orphans \cup sweeper[s].claimed
        BY <2>10 DEF RetryPending, ClaimOrphan, SettleOrphan, TypeOK, SweeperStates
      <3>2. \A d \in Calls \ {c} : usageRow'[d] = usageRow[d]
        BY <2>10 DEF RetryPending, ClaimOrphan, SettleOrphan, DecrementAndSettle,
                     InsertUsageRow, TypeOK
      <3>3. CASE usageRow' = usageRow
        BY <2>5, <3>1, <3>3
      <3>4. CASE usageRow' # usageRow
        <4>1. \/ usageRow[c].status # "none"
              \/ c \in sweeper[s].orphans \cup sweeper[s].claimed
          BY <2>10, <3>4 DEF RetryPending, ClaimOrphan, SettleOrphan
        <4>2. usageLog[c].written
          BY <2>4, <4>1 DEF LogInv
        <4>. QED
          BY <2>6, <3>1, <3>2, <4>2
      <3>. QED
        BY <3>3, <3>4
    <2>. QED
      BY <1>3, <2>7, <2>8, <2>9, <2>10 DEF BackfillStep, FailBackfill
  <1>4. ASSUME NEW r \in Reconcilers, ReconcileStep(r) \/ CrashReconcile(r) PROVE LogInv'
    <2>1. UNCHANGED <<call, usageRow, sweeper>>
      BY <1>4 DEF ReconcileStep, CrashReconcile, PickRow, CheckBase,
                  FetchGeneration, ApplyCorrection, MarkReconciled
    <2>2. \A c \in Calls : usageLog'[c].written = usageLog[c].written
      BY <1>4, ReconcileKeepsCosts
    <2>. QED
      BY <1>2, <2>1, <2>2
  <1>5. ASSUME NEW ref \in Invoices, FundInvoice(ref) PROVE LogInv'
    BY <1>2, <1>5 DEF FundInvoice
  <1>6. ASSUME NEW ref \in Packs, FundPack(ref) PROVE LogInv'
    BY <1>2, <1>6 DEF FundPack
  <1>7. CASE SubscriptionChange \/ Tick \/ UNCHANGED vars
    BY <1>2, <1>7 DEF SubscriptionChange, Tick, vars
  <1>. QED
    BY <1>3, <1>4, <1>5, <1>6, <1>7, CallKeepsLogs DEF Next

\* What CreditAccount sees of a state.
AccountPrice == [c \in Calls |-> IF usageLog[c].written THEN Charge(c) ELSE -1]
AccountCorrected == {c \in Calls : correction[c].made}

\* A charge takes exactly its millicents from what is spendable ...
LEMMA DebitNet ==
    ASSUME NEW b \in Balances, NEW mc \in Nat
    PROVE  NetMillicents(Debit(b, mc)) = NetMillicents(b) - mc
  <1>. DEFINE a == SpendFor(b, mc).applied
              n == Debit(b, mc)
  <1>1. n \in Balances /\ a \in Nat
    BY DebitFacts
  <1>2. /\ n.monthly + n.topup = b.monthly + b.topup - a
        /\ 1000 * (a + n.debt) + n.pending = 1000 * b.debt + b.pending + mc
    BY DebitFacts
  <1>3. /\ n.monthly \in Nat /\ n.topup \in Nat /\ n.debt \in Nat /\ n.pending \in Nat
        /\ b.monthly \in Nat /\ b.topup \in Nat /\ b.debt \in Nat /\ b.pending \in Nat
    BY <1>1, BalanceNat
  <1>. HIDE DEF a, n
  <1>4. 1000 * (n.monthly + n.topup - n.debt) - n.pending
            = 1000 * (b.monthly + b.topup - b.debt) - b.pending - mc
    BY <1>1, <1>2, <1>3
  <1>. QED
    BY <1>4 DEF NetMillicents, n

\* ... a payment adds all of its cents, to debt or to top-up ...
LEMMA RefundNet ==
    ASSUME NEW b \in Balances, NEW cents \in Nat
    PROVE  NetMillicents(Refund(EnsureRow(b), cents)) = NetMillicents(b) + 1000 * cents
  <1>. DEFINE e == EnsureRow(b)
              paid == ApplyPaymentToDebt(e.debt, e.topup, cents).paidDebt
              n == Refund(e, cents)
  <1>1. /\ e \in Balances /\ e.monthly = b.monthly /\ e.topup = b.topup
        /\ e.debt = b.debt /\ e.pending = b.pending
    BY EnsureRowType
  <1>. HIDE DEF e
  <1>2. /\ paid \in Nat /\ n.monthly = e.monthly /\ n.topup = e.topup + (cents - paid)
        /\ n.debt = e.debt - paid /\ n.pending = e.pending
    BY <1>1, RefundFacts
  <1>3. b.monthly \in Nat /\ b.topup \in Nat /\ b.debt \in Nat /\ b.pending \in Nat
    BY BalanceNat
  <1>. HIDE DEF paid, n
  <1>4. 1000 * (n.monthly + n.topup - n.debt) - n.pending
            = 1000 * (b.monthly + b.topup - b.debt) - b.pending + 1000 * cents
    BY <1>1, <1>2, <1>3
  <1>. QED
    BY <1>4 DEF NetMillicents, n, e

\* What Refilled allows the spendable amount to become.
AddsAllowance(old, new) ==
    \/ new = old + 1000 * Allowance
    \/ new > old + 1000 * Allowance /\ new \in -999..0

\* ... and a refill adds the allowance, unless it forgives debt and leaves the
\* account with nothing but its sub-cent remainder: only an account with both
\* buckets empty has debt to forgive.
LEMMA RefillNet ==
    ASSUME ConstantsAssumption, NEW b \in Balances, NEW end \in Nat, DebtIsDrained(b)
    PROVE  AddsAllowance(NetMillicents(b), NetMillicents(Refill(EnsureRow(b), end)))
  <1>1. PICK e \in Balances : /\ e = EnsureRow(b) /\ e.monthly = b.monthly
                              /\ e.topup = b.topup /\ e.debt = b.debt
                              /\ e.pending = b.pending
    BY EnsureRowType
  <1>2. PICK n : n = Refill(e, end)
    OBVIOUS
  <1>3. PICK netted : netted = Lesser(e.debt, e.monthly + Allowance)
    OBVIOUS
  <1>4. /\ n \in Balances /\ netted \in Nat /\ e.debt - netted \in Nat
        /\ n.monthly = (e.monthly + Allowance) - netted
        /\ e.debt - netted > 0 => n.monthly = 0
        /\ n.topup = e.topup /\ n.debt = 0 /\ n.pending = e.pending
    BY ZenonT(60), <1>2, <1>3, RefillFacts
  <1>5. /\ b.monthly \in Nat /\ b.topup \in Nat /\ b.debt \in Nat
        /\ b.pending \in 0..999 /\ Allowance \in Nat /\ n.monthly \in Nat
    BY <1>4 DEF Balances, ConstantsAssumption
  <1>6. b.debt > 0 => b.monthly = 0 /\ b.topup = 0
    BY DEF DebtIsDrained
  <1>7. AddsAllowance(1000 * (b.monthly + b.topup - b.debt) - b.pending,
                      1000 * (n.monthly + b.topup - 0) - b.pending)
    <2>1. PICK m \in Nat : m = b.monthly
      BY <1>5
    <2>2. PICK t \in Nat : t = b.topup
      BY <1>5
    <2>3. PICK d \in Nat : d = b.debt
      BY <1>5
    <2>4. PICK p \in 0..999 : p = b.pending
      BY <1>5
    <2>5. PICK m2 \in Nat : m2 = n.monthly
      BY <1>5
    <2>6. m2 = (m + Allowance) - netted /\ d - netted \in Nat
      BY <1>1, <1>4, <2>1, <2>3, <2>5
    <2>7. /\ d - netted > 0 => m2 = 0
          /\ d > 0 => m = 0 /\ t = 0
      BY <1>1, <1>4, <1>6, <2>1, <2>2, <2>3, <2>5
    <2>8. netted \in Nat /\ Allowance \in Nat
      BY <1>4, <1>5
    <2>9. PICK old \in Int : old = 1000 * (m + t - d) - p
      OBVIOUS
    <2>10. PICK new \in Int : new = 1000 * (m2 + t - 0) - p
      OBVIOUS
    <2>11. AddsAllowance(old, new)
      <3>1. CASE d = netted
        <4>1. m2 = (m - d) + Allowance
          BY <2>6, <2>8, <3>1
        <4>2. new = old + 1000 * Allowance
          BY SMTT(30), <2>8, <2>9, <2>10, <4>1
        <4>. QED
          BY <4>2 DEF AddsAllowance
      <3>2. CASE d # netted
        <4>1. d > 0 /\ d - netted > 0
          BY <2>6, <2>8, <3>2
        <4>2. m = 0 /\ t = 0 /\ m2 = 0
          BY <2>7, <4>1
        <4>3. netted = Allowance
          BY <2>6, <2>8, <4>2
        <4>4. new = - p /\ old = - (1000 * d) - p
          BY <2>9, <2>10, <4>2
        <4>5. new > old + 1000 * Allowance /\ new \in -999..0
          BY <2>8, <4>1, <4>3, <4>4
        <4>. QED
          BY <4>5 DEF AddsAllowance
      <3>. QED
        BY <3>1, <3>2
    <2>. QED
      BY <2>1, <2>2, <2>3, <2>4, <2>5, <2>9, <2>10, <2>11
  <1>8. /\ NetMillicents(n) = 1000 * (n.monthly + b.topup - 0) - b.pending
        /\ NetMillicents(b) = 1000 * (b.monthly + b.topup - b.debt) - b.pending
    BY <1>1, <1>4 DEF NetMillicents
  <1>. QED
    BY <1>1, <1>2, <1>7, <1>8

\* The first allowance finds an account without debt and with an empty bucket.
LEMMA LazyGrantNet ==
    ASSUME ConstantsAssumption, TypeOK, MoneyInv, LazyGrant
    PROVE  AddsAllowance(NetMillicents(balance), NetMillicents(balance)')
  <1>1. balance \in Balances /\ Allowance \in Nat
    BY DEF TypeOK, ConstantsAssumption
  <1>2. /\ balance'.monthly = Allowance /\ balance'.topup = balance.topup
        /\ balance'.debt = balance.debt /\ balance'.pending = balance.pending
    BY <1>1 DEF LazyGrant, EnsureRow, Balances
  <1>3. balance.monthly = 0
    BY DEF LazyGrant, MoneyInv, RowlessIsEmpty
  <1>4. balance.topup \in Nat /\ balance.debt \in Nat /\ balance.pending \in Nat
    BY <1>1, BalanceNat
  <1>5. PICK old : old = NetMillicents(balance)
    OBVIOUS
  <1>6. PICK new : new = NetMillicents(balance)'
    OBVIOUS
  <1>7. new = old + 1000 * Allowance
    BY <1>1, <1>2, <1>3, <1>4, <1>5, <1>6 DEF NetMillicents
  <1>8. AddsAllowance(old, new)
    BY <1>7 DEF AddsAllowance
  <1>. QED
    BY <1>5, <1>6, <1>8

\* A step of CreditAccount, or none that it sees.
AccountStep == [Account!Next]_(Account!acctVars)

\* CreditAccount sees nothing where no amount, no price, no bill, no correction
\* and no payment changes ...
LEMMA AccountStutters ==
    ASSUME AccountPrice' = AccountPrice, Applied' = Applied,
           AccountCorrected' = AccountCorrected, credited' = credited,
           balance' = balance
    PROVE  AccountStep
  BY DEF AccountStep, Account!acctVars, AccountPrice, Applied, AccountCorrected,
         NetMillicents

\* ... a price where a usage log is written for the first time ...
LEMMA AccountRuns ==
    ASSUME TypeOK, NEW c \in Calls, ~ usageLog[c].written, NEW log \in UsageLogs,
           log.written, log.cost \in Costs, usageLog' = [usageLog EXCEPT ![c] = log],
           UNCHANGED <<balance, usageRow, correction, credited>>
    PROVE  AccountStep
  <1>1. AccountPrice[c] = -1
    BY DEF AccountPrice
  <1>2. AccountPrice'
            = [AccountPrice EXCEPT ![c] = ChargeMillicents(log.cost, MarkupBps)]
    BY DEF AccountPrice, Charge, TypeOK
  <1>3. Account!Run(c)
    BY ZenonT(60), <1>1, <1>2
       DEF Account!Run, Account!Unpriced, AccountPrice, Applied, NetMillicents
  <1>. QED
    BY <1>3 DEF AccountStep, Account!Next

\* ... a bill where a row is marked applied ...
LEMMA AccountBills ==
    ASSUME ConstantsAssumption, TypeOK, LogInv, NEW c \in Calls,
           usageRow[c].status \notin {"none", "applied"},
           DecrementAndSettle(c), UNCHANGED <<usageLog, correction, credited>>
    PROVE  AccountStep
  <1>1. CASE ~ balance.exists
    <2>1. balance' = balance /\ usageRow' = usageRow
      BY <1>1 DEF DecrementAndSettle
    <2>2. /\ AccountPrice' = AccountPrice /\ Applied' = Applied
          /\ AccountCorrected' = AccountCorrected
      BY <2>1 DEF AccountPrice, Applied, AccountCorrected, Charge
    <2>. QED
      BY <2>1, <2>2, AccountStutters
  <1>2. CASE balance.exists
    <2>1. /\ balance' = Debit(balance, Charge(c))
          /\ usageRow' = [usageRow EXCEPT ![c].status = "applied"]
      BY <1>2 DEF DecrementAndSettle
    <2>2. Charge(c) \in Nat /\ balance \in Balances
      BY ChargeNat DEF TypeOK
    <2>3. AccountPrice[c] = Charge(c) /\ AccountPrice[c] # -1
      BY <2>2 DEF AccountPrice, LogInv
    <2>4. NetMillicents(balance') = NetMillicents(balance) - AccountPrice[c]
      BY <2>1, <2>2, <2>3, DebitNet
    <2>5. c \notin Applied /\ Applied' = Applied \cup {c}
      BY <2>1 DEF Applied, TypeOK, UsageRows
    <2>6. AccountPrice' = AccountPrice /\ AccountCorrected' = AccountCorrected
      BY DEF AccountPrice, AccountCorrected, Charge
    <2>7. Account!Bill(c)
      BY <2>3, <2>4, <2>5, <2>6
         DEF Account!Bill, Account!Unpriced, AccountPrice, Applied, AccountCorrected
    <2>. QED
      BY <2>7 DEF AccountStep, Account!Next
  <1>. QED
    BY <1>1, <1>2

\* ... and an allowance or a payment where it is booked.
LEMMA AccountGrants ==
    ASSUME AddsAllowance(NetMillicents(balance), NetMillicents(balance)'),
           UNCHANGED <<usageLog, usageRow, correction>>
    PROVE  /\ credited' = credited => AccountStep
           /\ \A ref \in Invoices :
                  ref \notin credited /\ credited' = credited \cup {ref} => AccountStep
  <1>1. /\ AccountPrice' = AccountPrice /\ Applied' = Applied
        /\ AccountCorrected' = AccountCorrected
    BY DEF AccountPrice, Applied, AccountCorrected, Charge
  <1>2. Account!Refilled
    BY DEF Account!Refilled, AddsAllowance
  <1>3. credited' = credited => Account!GrantByGate
    BY <1>1, <1>2 DEF Account!GrantByGate, AccountPrice, Applied, AccountCorrected
  <1>4. ASSUME NEW ref \in Invoices, ref \notin credited, credited' = credited \cup {ref}
        PROVE  Account!CreditInvoice(ref)
    BY <1>1, <1>2, <1>4 DEF Account!CreditInvoice, AccountPrice, Applied, AccountCorrected
  <1>. QED
    BY <1>3, <1>4 DEF AccountStep, Account!Next

\* A step that leaves prices as they are.
LEMMA SamePrices ==
    ASSUME TypeOK, \A c \in Calls : /\ usageLog'[c].written = usageLog[c].written
                                    /\ usageLog'[c].cost = usageLog[c].cost
    PROVE  AccountPrice' = AccountPrice
  BY DEF AccountPrice, Charge

\* Inserting a row, or skipping one that is not applied, bills nothing.
LEMMA SameBilled ==
    ASSUME TypeOK, NEW c \in Calls, NEW row \in UsageRows,
           usageRow[c].status # "applied", row.status # "applied",
           usageRow' = [usageRow EXCEPT ![c] = row]
    PROVE  Applied' = Applied
  BY DEF Applied, TypeOK

\* The invariants that CreditLedger needs to implement CreditAccount.
AccountInv == TypeOK /\ MoneyInv /\ ClaimInv /\ LogInv /\ VisibleInv

\* A step that CreditAccount does not see.
LEMMA UnseenStep ==
    ASSUME UNCHANGED <<balance, usageLog, usageRow, correction, credited>>
    PROVE  AccountStep
  <1>1. /\ AccountPrice' = AccountPrice /\ Applied' = Applied
        /\ AccountCorrected' = AccountCorrected
    BY DEF AccountPrice, Applied, AccountCorrected, Charge
  <1>. QED
    BY <1>1, AccountStutters

\* A claim, and a charge that is skipped.
LEMMA UnbilledRow ==
    ASSUME TypeOK, NEW c \in Calls, usageRow[c].status # "applied",
           \/ InsertUsageRow(c)
           \/ usageRow' = [usageRow EXCEPT ![c].status = "skipped"],
           UNCHANGED <<balance, usageLog, correction, credited>>
    PROVE  AccountStep
  <1>1. PICK row \in UsageRows : /\ row.status # "applied"
                                 /\ usageRow' = [usageRow EXCEPT ![c] = row]
    <2>1. CASE InsertUsageRow(c)
      <3>. DEFINE row == [status |-> "pending", at |-> clock]
      <3>1. row \in UsageRows /\ row.status # "applied"
        BY DEF TypeOK, UsageRows
      <3>. QED
        BY <2>1, <3>1 DEF InsertUsageRow
    <2>2. CASE usageRow' = [usageRow EXCEPT ![c].status = "skipped"]
      <3>. DEFINE row == [usageRow[c] EXCEPT !.status = "skipped"]
      <3>1. row \in UsageRows /\ row.status # "applied"
        BY DEF TypeOK, UsageRows
      <3>2. usageRow' = [usageRow EXCEPT ![c] = row]
        BY <2>2
      <3>. QED
        BY <3>1, <3>2
    <2>. QED
      BY <2>1, <2>2
  <1>2. Applied' = Applied
    BY <1>1, SameBilled
  <1>3. AccountPrice' = AccountPrice /\ AccountCorrected' = AccountCorrected
    BY DEF AccountPrice, AccountCorrected, Charge
  <1>. QED
    BY <1>2, <1>3, AccountStutters

\* A correction is made once, for a call that has been charged.
LEMMA AccountCorrects ==
    ASSUME ConstantsAssumption, AccountInv, NEW r \in Reconcilers, NEW c \in Calls,
           ApplyCorrection(r, c)
    PROVE  AccountStep
  <1>1. UNCHANGED <<usageLog, usageRow, credited>>
    BY DEF ApplyCorrection
  <1>2. AccountPrice' = AccountPrice /\ Applied' = Applied
    BY <1>1 DEF AccountPrice, Applied, Charge
  <1>3. CASE correction[c].made
    BY <1>1, <1>3, UnseenStep DEF ApplyCorrection, Uncorrected
  <1>4. CASE ~ correction[c].made
    <2>1. c \notin AccountCorrected /\ AccountCorrected' = AccountCorrected \cup {c}
      BY <1>4 DEF ApplyCorrection, Uncorrected, AccountCorrected, AccountInv, TypeOK
    <2>2. usageLog[c].written
      <3>1. reconciler[r].pc = "correct" /\ c \in reconciler[r].rows
        BY DEF ApplyCorrection
      <3>2. usageRow[c].status # "none"
        BY <3>1 DEF AccountInv, VisibleInv, BaseChecked
      <3>. QED
        BY <3>2 DEF AccountInv, LogInv
    <2>3. AccountPrice[c] # -1
      <3>1. Charge(c) \in Nat
        BY ChargeNat DEF AccountInv, TypeOK
      <3>. QED
        BY <2>2, <3>1 DEF AccountPrice
    <2>4. NetMillicents(balance') \in Int
      <3>1. balance' \in Balances
        <4>1. [Next]_vars
          BY DEF Next, ReconcileStep
        <4>2. TypeOK'
          BY <4>1, StepTypes DEF AccountInv
        <4>. QED
          BY <4>2 DEF TypeOK
      <3>2. /\ balance'.monthly \in Nat /\ balance'.topup \in Nat
            /\ balance'.debt \in Nat /\ balance'.pending \in Nat
        BY <3>1, BalanceNat
      <3>. QED
        BY <3>2 DEF NetMillicents
    <2>5. Account!Correct(c)
      BY <1>1, <1>2, <2>1, <2>3, <2>4
         DEF Account!Correct, Account!Unpriced, AccountPrice, Applied,
             AccountCorrected
    <2>. QED
      BY <2>5 DEF AccountStep, Account!Next
  <1>. QED
    BY <1>3, <1>4

\* Every step of CreditLedger is a step of CreditAccount, or one that it does
\* not see.
LEMMA StepImplements ==
    ASSUME ConstantsAssumption, AccountInv, [Next]_vars
    PROVE  AccountStep
  <1>. USE DEF dbVars, procVars, histVars
  <1>1. /\ TypeOK /\ MoneyInv /\ ClaimInv /\ LogInv /\ balance \in Balances
        /\ DebtIsDrained(balance)
    BY DEF AccountInv, TypeOK, MoneyInv, DebtOnlyWhenDrained, DebtIsDrained
  <1>2. ASSUME NEW end \in Nat, balance' = Refill(EnsureRow(balance), end)
        PROVE  AddsAllowance(NetMillicents(balance), NetMillicents(balance)')
    BY <1>1, <1>2, RefillNet
  <1>3. ASSUME NEW c \in Calls, CallStep(c) PROVE AccountStep
    <2>1. call[c].now + Period \in Nat
      BY <1>1 DEF TypeOK, CallStates, ConstantsAssumption
    <2>2. CASE GateReset(c)
      <3>1. CASE MayReset(c)
        <4>1. EnsureRow(balance) = balance
          BY <1>1, <3>1, EnsureExisting DEF MayReset
        <4>2. AddsAllowance(NetMillicents(balance), NetMillicents(balance)')
          BY <1>2, <2>1, <2>2, <3>1, <4>1 DEF GateReset
        <4>. QED
          BY <2>2, <4>2, AccountGrants DEF GateReset
      <3>. QED
        BY <2>2, <3>1, UnseenStep DEF GateReset
    <2>3. CASE GateInit(c)
      <3>1. CASE balance.exists
        BY <2>3, <3>1, UnseenStep DEF GateInit
      <3>2. CASE ~ balance.exists
        <4>1. LazyGrant
          BY <2>1, <2>3, <3>2 DEF GateInit, LazyGrant
        <4>2. AddsAllowance(NetMillicents(balance), NetMillicents(balance)')
          BY <1>1, <4>1, LazyGrantNet
        <4>. QED
          BY <2>3, <4>2, AccountGrants DEF GateInit
      <3>. QED
        BY <3>1, <3>2
    <2>4. CASE WriteUsage(c)
      <3>1. ~ usageLog[c].written
        BY <1>1, <2>4 DEF WriteUsage, LogInv
      <3>2. PICK cost \in Costs, source \in CostSources :
                usageLog' = [usageLog EXCEPT ![c] =
                    [written |-> TRUE, at |-> clock, cost |-> cost, attempts |-> 0,
                     reconcile |-> IF source = "openrouter" THEN "pending" ELSE "none"]]
        BY <2>4 DEF WriteUsage
      <3>3. PICK log : log = [written |-> TRUE, at |-> clock, cost |-> cost, attempts |-> 0,
                     reconcile |-> IF source = "openrouter" THEN "pending" ELSE "none"]
        OBVIOUS
      <3>4. log \in UsageLogs /\ log.written /\ log.cost \in Costs
        BY <1>1, <3>3 DEF UsageLogs, TypeOK, ConstantsAssumption
      <3>5. usageLog' = [usageLog EXCEPT ![c] = log]
        BY <3>2, <3>3
      <3>. QED
        BY <1>1, <2>4, <3>1, <3>4, <3>5, AccountRuns DEF WriteUsage
    <2>5. CASE Claim(c)
      BY <1>1, <2>5, UnbilledRow, UnseenStep DEF Claim
    <2>6. CASE SkipZeroCharge(c) \/ Settle(c)
      <3>1. usageRow[c].status = "pending"
        BY <1>1, <2>6 DEF SkipZeroCharge, Settle, ClaimInv, ClaimsExclusive, ClaimInFlight
      <3>2. CASE SkipZeroCharge(c)
        BY <1>1, <3>1, <3>2, UnbilledRow DEF SkipZeroCharge
      <3>3. CASE Settle(c)
        BY <1>1, <3>1, <3>3, AccountBills DEF Settle
      <3>. QED
        BY <2>6, <3>2, <3>3
    <2>7. CASE \/ GateStart(c) \/ GateHold(c) \/ StartUngated(c) \/ FailTokenless(c)
               \/ ReleaseSkipped(c) \/ Crash(c)
      BY <2>7, UnseenStep DEF GateStart, GateHold, StartUngated, FailTokenless,
                              ReleaseSkipped, Crash
    <2>. QED
      BY <1>3, <2>2, <2>3, <2>4, <2>5, <2>6, <2>7 DEF CallStep
  <1>4. ASSUME NEW s \in Sweepers, BackfillStep(s) \/ FailBackfill(s) PROVE AccountStep
    <2>1. ASSUME NEW c \in Calls, RetryPending(s, c) PROVE AccountStep
      BY <1>1, <2>1, AccountBills, UnseenStep DEF RetryPending
    <2>2. ASSUME NEW c \in Calls, ClaimOrphan(s, c) PROVE AccountStep
      BY <1>1, <2>2, UnbilledRow, UnseenStep DEF ClaimOrphan
    <2>3. ASSUME NEW c \in Calls, SettleOrphan(s, c) PROVE AccountStep
      <3>1. usageRow[c].status = "pending"
        BY <1>1, <2>3 DEF SettleOrphan, ClaimInv, ClaimsExclusive, ClaimInFlight
      <3>. QED
        BY <1>1, <2>3, <3>1, AccountBills, UnbilledRow DEF SettleOrphan
    <2>4. CASE SweepHolds(s) \/ SelectBacklog(s) \/ EndBackfill(s) \/ FailBackfill(s)
      BY <2>4, UnseenStep DEF SweepHolds, SelectBacklog, EndBackfill, FailBackfill,
                              CrashBackfill, SkipHolds, SkipRow
    <2>. QED
      BY <1>4, <2>1, <2>2, <2>3, <2>4 DEF BackfillStep
  <1>5. ASSUME NEW r \in Reconcilers, ReconcileStep(r) \/ CrashReconcile(r)
        PROVE  AccountStep
    <2>1. ASSUME NEW c \in Calls, \/ PickRow(r, c) \/ CheckBase(r, c)
                                  \/ FetchGeneration(r, c) \/ MarkReconciled(r, c)
          PROVE  AccountStep
      <3>1. UNCHANGED <<balance, usageRow, correction, credited>>
        BY <2>1 DEF PickRow, CheckBase, FetchGeneration, MarkReconciled
      <3>2. \A d \in Calls : /\ usageLog'[d].written = usageLog[d].written
                             /\ usageLog'[d].cost = usageLog[d].cost
        BY <1>1, <1>5, ReconcileKeepsCosts
      <3>3. AccountPrice' = AccountPrice
        BY <1>1, <3>2, SamePrices
      <3>4. Applied' = Applied /\ AccountCorrected' = AccountCorrected
        BY <3>1 DEF Applied, AccountCorrected
      <3>. QED
        BY <3>1, <3>3, <3>4, AccountStutters
    <2>2. CASE CrashReconcile(r)
      BY <2>2, UnseenStep DEF CrashReconcile
    <2>. QED
      BY <1>5, <2>1, <2>2, AccountCorrects DEF ReconcileStep
  <1>6. ASSUME NEW ref \in Invoices, FundInvoice(ref) PROVE AccountStep
    <2>1. \A lag \in InvoiceLags : clock + Period - lag \in Nat
      BY <1>1 DEF TypeOK, ConstantsAssumption
    <2>2. AddsAllowance(NetMillicents(balance), NetMillicents(balance)')
      BY <1>2, <1>6, <2>1 DEF FundInvoice
    <2>. QED
      BY <1>6, <2>2, AccountGrants DEF FundInvoice, Uncredited
  <1>7. ASSUME NEW ref \in Packs, FundPack(ref) PROVE AccountStep
    <2>1. NetMillicents(balance') = NetMillicents(balance) + 1000 * PackCents
      BY <1>1, <1>7, RefundNet DEF FundPack, ConstantsAssumption
    <2>2. AccountPrice' = AccountPrice /\ Applied' = Applied
          /\ AccountCorrected' = AccountCorrected
      BY <1>7 DEF FundPack, AccountPrice, Applied, AccountCorrected, Charge
    <2>3. Account!CreditPack(ref)
      BY <1>7, <2>1, <2>2 DEF FundPack, Uncredited, Account!CreditPack, AccountPrice,
                              Applied, AccountCorrected
    <2>. QED
      BY <2>3 DEF AccountStep, Account!Next
  <1>8. CASE SubscriptionChange \/ Tick \/ UNCHANGED vars
    BY <1>8, UnseenStep DEF SubscriptionChange, Tick, vars
  <1>. QED
    BY <1>3, <1>4, <1>5, <1>6, <1>7, <1>8 DEF Next

\* The account does what CreditAccount promises, whatever calls, sweeps,
\* corrections and payments interleave and crash: each call is billed its price
\* once, corrected once, each payment is credited once and in full, and nothing
\* else moves the spendable amount.
THEOREM LedgerImplementsAccount ==
    ASSUME SettleLag <= Grace
    PROVE  Spec => ImplementsAccount
  <1>1. Init => LogInv /\ Account!Init
    <2>1. Init => LogInv
      BY DEF Init, NoUsageRow, NoLog, IdleSweeper, LogInv
    <2>2. ASSUME Init PROVE Account!Init
      <3>1. NetMillicents(balance) = 0
        BY <2>2 DEF Init, NoBalance, NetMillicents
      <3>2. /\ AccountPrice = [c \in Calls |-> -1]
            /\ Applied = {} /\ AccountCorrected = {} /\ credited = {}
        BY <2>2 DEF Init, NoLog, NoUsageRow, NoCorrection, AccountPrice,
                    Applied, AccountCorrected
      <3>. QED
        BY <3>1, <3>2 DEF Account!Init, Account!Unpriced, AccountPrice, Applied,
                          AccountCorrected
    <2>. QED
      BY <2>1, <2>2
  <1>2. TypeOK /\ LogInv /\ [Next]_vars => LogInv'
    BY StepKeepsLogs
  <1>3. TypeOK /\ MoneyInv /\ ClaimInv /\ LogInv /\ VisibleInv /\ [Next]_vars =>
            [Account!Next]_(Account!acctVars)
    BY StepImplements, ConstantsAssumption DEF AccountInv, AccountStep
  <1>4. Spec => [](TypeOK /\ ClaimInv)
    BY ClaimInvariant
  <1>. QED
    BY <1>1, <1>2, <1>3, <1>4, MoneyInvariant, VisibleInvariant, PTL
       DEF Spec, ImplementsAccount, Account!Spec

(***************************************************************************)
(* What the live holds reserve                                             *)
(***************************************************************************)
\* No request's time is ahead of the clock.
ClocksBehind == \A c \in Calls : call[c].now <= clock

\* A gate that lets its call in has found, at the request's time, room for it.
Admitted(c, est) ==
    /\ Admits(c, est) /\ PlaceHold(c, est)
    /\ UNCHANGED <<balance, usageLog, usageRow, correction, clock, uncovered>>

\* Any other step places no hold, and the clock does not go back.
HoldsOnlyGo ==
    /\ \A c \in Calls : holds'[c] = holds[c] \/ holds'[c] = NoHold
    /\ clock' \in {clock, clock + 1}

\* Releasing one hold is such a step.
LEMMA ReleaseGoes ==
    ASSUME TypeOK, NEW c \in Calls, clock' = clock,
           holds' = [holds EXCEPT ![c] = NoHold] \/ holds' = holds
    PROVE  HoldsOnlyGo
  BY DEF TypeOK, HoldsOnlyGo

\* Every step admits a call or places no hold.
LEMMA StepHolds ==
    ASSUME TypeOK, [Next]_vars
    PROVE  HoldsOnlyGo \/ \E c \in Calls, est \in HoldEstimates : Admitted(c, est)
  <1>. USE DEF dbVars, procVars, histVars
  <1>1. ASSUME UNCHANGED <<holds, clock>> PROVE HoldsOnlyGo
    BY <1>1 DEF HoldsOnlyGo
  <1>2. ASSUME NEW c \in Calls, CallStep(c)
        PROVE  HoldsOnlyGo \/ \E est \in HoldEstimates : Admitted(c, est)
    <2>1. CASE GateHold(c)
      BY <1>1, <2>1 DEF GateHold, Admitted
    <2>2. CASE FailTokenless(c) \/ ReleaseSkipped(c) \/ Settle(c)
      BY <2>2, ReleaseGoes DEF FailTokenless, ReleaseSkipped, Settle
    <2>. QED
      BY <1>1, <1>2, <2>1, <2>2 DEF CallStep, GateStart, GateReset, GateInit,
         StartUngated, WriteUsage, Claim, SkipZeroCharge, Crash
  <1>3. ASSUME NEW s \in Sweepers, BackfillStep(s) \/ FailBackfill(s) PROVE HoldsOnlyGo
    <2>1. CASE SweepHolds(s)
      BY <2>1 DEF SweepHolds, HoldsOnlyGo
    <2>. QED
      BY <1>1, <1>3, <2>1 DEF BackfillStep, FailBackfill, CrashBackfill, SkipHolds,
         SkipRow, SelectBacklog, RetryPending, ClaimOrphan, SettleOrphan, EndBackfill
  <1>4. ASSUME NEW r \in Reconcilers, ReconcileStep(r) \/ CrashReconcile(r)
        PROVE  HoldsOnlyGo
    BY <1>1, <1>4 DEF ReconcileStep, CrashReconcile, PickRow, CheckBase,
                      FetchGeneration, ApplyCorrection, MarkReconciled
  <1>5. ASSUME NEW ref \in Invoices, FundInvoice(ref) PROVE HoldsOnlyGo
    BY <1>1, <1>5 DEF FundInvoice
  <1>6. ASSUME NEW ref \in Packs, FundPack(ref) PROVE HoldsOnlyGo
    BY <1>1, <1>6 DEF FundPack
  <1>7. CASE Tick
    BY <1>7 DEF Tick, HoldsOnlyGo
  <1>8. CASE SubscriptionChange \/ UNCHANGED vars
    BY <1>1, <1>8 DEF SubscriptionChange, vars
  <1>. QED
    BY <1>2, <1>3, <1>4, <1>5, <1>6, <1>7, <1>8 DEF Next

\* A step that admits no call leaves no hold live that was not live.
LEMMA LiveHoldsShrink ==
    ASSUME TypeOK, HoldsOnlyGo
    PROVE  /\ ActiveHolds(clock)' \subseteq ActiveHolds(clock)
           /\ \A c \in ActiveHolds(clock)' : holds'[c] = holds[c]
  <1>1. ASSUME NEW c \in ActiveHolds(clock)'
        PROVE  c \in ActiveHolds(clock) /\ holds'[c] = holds[c]
    <2>1. c \in Calls /\ holds'[c].placed /\ holds'[c].expiresAt > clock'
      BY DEF ActiveHolds
    <2>2. holds'[c] = holds[c]
      BY <2>1 DEF HoldsOnlyGo, NoHold
    <2>3. clock \in Nat /\ holds[c].expiresAt \in Nat
      BY <2>1 DEF TypeOK, Holds
    <2>4. clock' >= clock
      BY <2>3 DEF HoldsOnlyGo
    <2>. QED
      BY <2>1, <2>2, <2>3, <2>4 DEF HoldsOnlyGo, ActiveHolds
  <1>. QED
    BY <1>1

\* An admission adds the call's hold, and counts every hold that is live now.
LEMMA AdmissionAdds ==
    ASSUME TypeOK, ClocksBehind, NEW c \in Calls, NEW est, Admitted(c, est)
    PROVE  /\ ActiveHolds(clock)' \subseteq ActiveHolds(call[c].now) \cup {c}
           /\ \A d \in Calls \ {c} : holds'[d] = holds[d]
           /\ holds'[c].est = est
  <1>1. /\ \A d \in Calls \ {c} : holds'[d] = holds[d]
        /\ holds'[c].est = est
    BY DEF Admitted, PlaceHold, TypeOK
  <1>2. ASSUME NEW d \in ActiveHolds(clock)', d # c
        PROVE  d \in ActiveHolds(call[c].now)
    <2>1. d \in Calls /\ holds[d].placed /\ holds[d].expiresAt > clock
      BY <1>1, <1>2 DEF ActiveHolds, Admitted
    <2>2. holds[d].expiresAt \in Nat /\ clock \in Nat /\ call[c].now \in Nat
      BY <2>1 DEF TypeOK, Holds, CallStates
    <2>3. call[c].now <= clock
      BY DEF ClocksBehind
    <2>. QED
      BY <2>1, <2>2, <2>3 DEF ActiveHolds
  <1>. QED
    BY <1>1, <1>2

\* A call's time is that of its arrival, or 0.
LEMMA StepKeepsClocks ==
    ASSUME TypeOK, ClocksBehind, [Next]_vars
    PROVE  ClocksBehind'
  <1>. USE DEF dbVars, procVars, histVars
  <1>1. \A c \in Calls : call[c].now \in Nat /\ call[c].now <= clock
    BY DEF TypeOK, CallStates, ClocksBehind
  <1>2. clock \in Nat
    BY DEF TypeOK
  <1>3. ASSUME call' = call, clock' \in {clock, clock + 1} PROVE ClocksBehind'
    BY <1>1, <1>2, <1>3 DEF ClocksBehind
  <1>4. ASSUME NEW c \in Calls, CallStep(c) PROVE ClocksBehind'
    <2>1. clock' = clock
      BY <1>4 DEF CallStep, GateStart, GateReset, GateInit, GateHold, StartUngated,
         FailTokenless, WriteUsage, Claim, SkipZeroCharge, ReleaseSkipped, Settle, Crash
    <2>2. \A d \in Calls \ {c} : call'[d] = call[d]
      BY <1>4 DEF CallStep, GateStart, GateReset, GateInit, GateHold, StartUngated,
         FailTokenless, WriteUsage, Claim, SkipZeroCharge, ReleaseSkipped, Settle, Crash,
         Goto, Step, TypeOK
    <2>3. call'[c].now \in {0, clock, call[c].now}
      BY <1>4 DEF CallStep, GateStart, GateReset, GateInit, GateHold, StartUngated,
         FailTokenless, WriteUsage, Claim, SkipZeroCharge, ReleaseSkipped, Settle, Crash,
         Goto, Step, TypeOK, CallStates
    <2>. QED
      BY <1>1, <1>2, <2>1, <2>2, <2>3 DEF ClocksBehind
  <1>5. ASSUME NEW s \in Sweepers, BackfillStep(s) \/ FailBackfill(s) PROVE ClocksBehind'
    BY <1>3, <1>5 DEF BackfillStep, FailBackfill, CrashBackfill, SkipHolds, SkipRow,
       SweepHolds, SelectBacklog, RetryPending, ClaimOrphan, SettleOrphan, EndBackfill
  <1>6. ASSUME NEW r \in Reconcilers, ReconcileStep(r) \/ CrashReconcile(r)
        PROVE  ClocksBehind'
    BY <1>3, <1>6 DEF ReconcileStep, CrashReconcile, PickRow, CheckBase,
                      FetchGeneration, ApplyCorrection, MarkReconciled
  <1>7. ASSUME NEW ref \in Invoices, FundInvoice(ref) PROVE ClocksBehind'
    BY <1>3, <1>7 DEF FundInvoice
  <1>8. ASSUME NEW ref \in Packs, FundPack(ref) PROVE ClocksBehind'
    BY <1>3, <1>8 DEF FundPack
  <1>9. CASE SubscriptionChange \/ Tick \/ UNCHANGED vars
    BY <1>3, <1>9 DEF SubscriptionChange, Tick, vars
  <1>. QED
    BY <1>4, <1>5, <1>6, <1>7, <1>8, <1>9 DEF Next

\* The set of live holds is finite where there are finitely many calls.
LEMMA LiveHoldsFinite ==
    ASSUME IsFiniteSet(Calls), NEW now
    PROVE  /\ IsFiniteSet(ActiveHolds(now))
           /\ Cardinality(ActiveHolds(now)) \in Nat
  <1>1. ActiveHolds(now) \in SUBSET Calls
    BY DEF ActiveHolds
  <1>2. IsFiniteSet(ActiveHolds(now))
    BY <1>1, FS_Subset
  <1>. QED
    BY <1>2, FS_CardinalityType

CapInv == ClocksBehind /\ InFlightCapHolds

\* An admission keeps the cap, however old the request's time is.
LEMMA AdmissionKeepsCap ==
    ASSUME ConstantsAssumption, IsFiniteSet(Calls), TypeOK, ClocksBehind,
           NEW c \in Calls, NEW est, Admitted(c, est), MaxInFlight # Null
    PROVE  Cardinality(ActiveHolds(clock)') <= MaxInFlight
  <1>1. PICK A : A = ActiveHolds(call[c].now)
    OBVIOUS
  <1>2. PICK B : B = ActiveHolds(clock)'
    OBVIOUS
  <1>3. IsFiniteSet(A) /\ Cardinality(A) \in Nat
    BY <1>1, LiveHoldsFinite
  <1>4. B \subseteq A \cup {c}
    BY <1>1, <1>2, AdmissionAdds
  <1>5. IsFiniteSet(A \cup {c}) /\ Cardinality(A \cup {c}) <= Cardinality(A) + 1
    <2>1. /\ IsFiniteSet(A \cup {c})
          /\ Cardinality(A \cup {c})
                = IF c \in A THEN Cardinality(A) ELSE Cardinality(A) + 1
      BY <1>3, FS_AddElement
    <2>. QED
      BY <1>3, <2>1
  <1>6. PICK E : E = A \cup {c}
    OBVIOUS
  <1>7. B \in SUBSET E /\ IsFiniteSet(E) /\ Cardinality(E) <= Cardinality(A) + 1
    BY <1>4, <1>5, <1>6
  <1>8. Cardinality(B) <= Cardinality(E) /\ Cardinality(B) \in Nat /\ Cardinality(E) \in Nat
    BY <1>7, FS_Subset, FS_CardinalityType
  <1>9. Cardinality(A) < MaxInFlight /\ MaxInFlight \in Nat
    BY <1>1, <1>3 DEF Admitted, Admits, EvaluateGate, AtInFlightCap, ConstantsAssumption
  <1>. QED
    BY <1>2, <1>3, <1>7, <1>8, <1>9

\* CapInv, with TypeOK, is inductive.
LEMMA StepKeepsCap ==
    ASSUME ConstantsAssumption, IsFiniteSet(Calls), TypeOK, CapInv, [Next]_vars
    PROVE  CapInv'
  <1>1. ClocksBehind'
    BY StepKeepsClocks DEF CapInv
  <1>2. CASE HoldsOnlyGo
    <2>1. PICK A : A = ActiveHolds(clock)
      OBVIOUS
    <2>2. PICK B : B = ActiveHolds(clock)'
      OBVIOUS
    <2>3. B \in SUBSET A
      BY <1>2, <2>1, <2>2, LiveHoldsShrink
    <2>4. IsFiniteSet(A) /\ Cardinality(A) \in Nat
      BY <2>1, LiveHoldsFinite
    <2>5. Cardinality(B) <= Cardinality(A) /\ Cardinality(B) \in Nat
      BY <2>3, <2>4, FS_Subset, FS_CardinalityType
    <2>6. MaxInFlight # Null => Cardinality(A) <= MaxInFlight /\ MaxInFlight \in Nat
      BY <2>1 DEF CapInv, InFlightCapHolds, ConstantsAssumption
    <2>7. MaxInFlight # Null => Cardinality(B) <= MaxInFlight
      BY <2>4, <2>5, <2>6
    <2>. QED
      BY <1>1, <2>2, <2>7 DEF CapInv, InFlightCapHolds
  <1>3. ASSUME NEW c \in Calls, NEW est \in HoldEstimates, Admitted(c, est)
        PROVE  CapInv'
    BY <1>1, <1>3, AdmissionKeepsCap DEF CapInv, InFlightCapHolds
  <1>. QED
    BY <1>2, <1>3, StepHolds

\* No request's time is ever ahead of the clock.
LEMMA ClockInvariant == Spec => [](TypeOK /\ ClocksBehind)
  <1>1. Init => TypeOK /\ ClocksBehind
    <2>1. Init => ClocksBehind
      BY DEF Init, ClocksBehind
    <2>. QED
      BY <2>1, InitTypes
  <1>2. TypeOK /\ ClocksBehind /\ [Next]_vars => (TypeOK /\ ClocksBehind)'
    BY StepTypes, StepKeepsClocks, ConstantsAssumption
  <1>. QED
    BY <1>1, <1>2, PTL DEF Spec

\* The cap on concurrent calls is never exceeded by live holds, however many
\* gates decide at once and however old the times are at which they count.
THEOREM InFlightCapKept ==
    ASSUME IsFiniteSet(Calls)
    PROVE  Spec => []InFlightCapHolds
  <1>1. Init => CapInv
    <2>1. Init => ClocksBehind /\ ActiveHolds(clock) = {}
      BY DEF Init, ClocksBehind, ActiveHolds, NoHold
    <2>2. MaxInFlight # Null => 0 <= MaxInFlight
      BY ConstantsAssumption DEF ConstantsAssumption
    <2>. QED
      BY <2>1, <2>2, FS_EmptySet DEF CapInv, InFlightCapHolds
  <1>2. TypeOK /\ CapInv /\ [Next]_vars => CapInv'
    BY StepKeepsCap, ConstantsAssumption
  <1>3. CapInv => InFlightCapHolds
    BY DEF CapInv
  <1>. QED
    BY <1>1, <1>2, <1>3, TypeCorrect, PTL DEF Spec

\* Every hold's estimate is a whole number of cents.
LEMMA EstimatesNat ==
    ASSUME TypeOK
    PROVE  \A c \in Calls : Estimates[c] = holds[c].est /\ Estimates[c] \in Nat
  BY DEF TypeOK, Holds, Estimates

\* Where no call is admitted, a part of the live holds reserves no more.
LEMMA ReservedShrinks ==
    ASSUME IsFiniteSet(Calls), TypeOK, TypeOK', HoldsOnlyGo,
           NEW D \in SUBSET ActiveHolds(clock),
           NEW E \in SUBSET D, E \subseteq ActiveHolds(clock)'
    PROVE  /\ SumFunctionOnSet(Estimates', E) <= SumFunctionOnSet(Estimates, D)
           /\ SumFunctionOnSet(Estimates, D) \in Nat
           /\ SumFunctionOnSet(Estimates', E) \in Nat
  <1>1. PICK f : f = Estimates
    OBVIOUS
  <1>2. PICK g : g = Estimates'
    OBVIOUS
  <1>3. D \in SUBSET Calls /\ E \in SUBSET Calls
    BY DEF ActiveHolds
  <1>4. IsFiniteSet(D) /\ IsFiniteSet(E)
    BY <1>3, FS_Subset
  <1>5. \A c \in D : f[c] \in Nat
    BY <1>1, <1>3, EstimatesNat
  <1>6. \A c \in E : holds'[c] = holds[c]
    BY LiveHoldsShrink
  <1>7. \A c \in E : g[c] = f[c]
    BY <1>1, <1>2, <1>3, <1>6 DEF Estimates
  <1>8. SumFunctionOnSet(g, E) = SumFunctionOnSet(f, E)
    BY <1>4, <1>7, SumSame
  <1>9. SumFunctionOnSet(f, E) <= SumFunctionOnSet(f, D)
    BY <1>4, <1>5, SumPart
  <1>10. SumFunctionOnSet(f, D) \in Nat
    BY <1>4, <1>5, SumNat
  <1>11. \A c \in E : f[c] \in Nat
    BY <1>5
  <1>12. SumFunctionOnSet(f, E) \in Nat
    BY <1>4, <1>11, SumNat
  <1>. QED
    BY <1>1, <1>2, <1>8, <1>9, <1>10, <1>12

\* After an admission, the live holds reserve at most what the gate has seen
\* reserved and the estimate it has admitted.
LEMMA AdmissionReserves ==
    ASSUME ConstantsAssumption, IsFiniteSet(Calls), TypeOK, ClocksBehind,
           NEW c \in Calls, NEW est \in HoldEstimates, Admitted(c, est),
           NEW E \in SUBSET (ActiveHolds(clock)')
    PROVE  /\ SumFunctionOnSet(Estimates', E) <= Reserved(call[c].now) + est
           /\ Reserved(call[c].now) \in Nat /\ est \in Nat
           /\ SumFunctionOnSet(Estimates', E) \in Nat
  <1>1. PICK f : f = Estimates
    OBVIOUS
  <1>2. PICK g : g = Estimates'
    OBVIOUS
  <1>3. PICK A : A = ActiveHolds(call[c].now)
    OBVIOUS
  <1>4. PICK B : B = E \ {c}
    OBVIOUS
  <1>5. est \in Nat
    BY DEF ConstantsAssumption
  <1>6. A \in SUBSET Calls /\ E \in SUBSET Calls /\ B \in SUBSET A
    BY <1>3, <1>4, AdmissionAdds DEF ActiveHolds
  <1>7. IsFiniteSet(A) /\ IsFiniteSet(B) /\ IsFiniteSet(E)
    BY <1>6, FS_Subset
  <1>8. \A d \in A : f[d] \in Nat
    BY <1>1, <1>6, EstimatesNat
  <1>9. \A d \in B : g[d] = f[d]
    <2>1. \A d \in B : d \in Calls \ {c}
      BY <1>4, <1>6
    <2>2. \A d \in Calls \ {c} : holds'[d] = holds[d]
      BY AdmissionAdds
    <2>. QED
      BY <1>1, <1>2, <2>1, <2>2 DEF Estimates
  <1>10. g[c] = est
    BY <1>2, AdmissionAdds DEF Estimates
  <1>11. SumFunctionOnSet(g, B) = SumFunctionOnSet(f, B)
    BY <1>7, <1>9, SumSame
  <1>12. SumFunctionOnSet(f, B) <= SumFunctionOnSet(f, A)
    BY <1>6, <1>7, <1>8, SumPart
  <1>13. SumFunctionOnSet(f, A) \in Nat
    BY <1>7, <1>8, SumNat
  <1>14. \A d \in B : f[d] \in Nat
    BY <1>6, <1>8
  <1>15. SumFunctionOnSet(f, B) \in Nat
    BY <1>7, <1>14, SumNat
  <1>16. \A d \in E : g[d] \in Int
    BY <1>4, <1>5, <1>9, <1>10, <1>14
  <1>17. CASE c \in E
    <2>1. SumFunctionOnSet(g, E) = g[c] + SumFunctionOnSet(g, E \ {c})
      BY <1>7, <1>16, <1>17, SumRemove
    <2>2. SumFunctionOnSet(g, E) = est + SumFunctionOnSet(f, B)
      BY <1>4, <1>10, <1>11, <2>1
    <2>. QED
      BY <1>1, <1>2, <1>3, <1>5, <1>12, <1>13, <1>15, <2>2 DEF Reserved
  <1>18. CASE c \notin E
    <2>1. E = B
      BY <1>4, <1>18
    <2>. QED
      BY <1>1, <1>2, <1>3, <1>5, <1>11, <1>12, <1>13, <1>15, <2>1 DEF Reserved
  <1>. QED
    BY <1>17, <1>18

(***************************************************************************)
(* Held spend is funded                                                    *)
(***************************************************************************)
\* A charge that a reservation covers, out of a balance that funds the
\* reservation, leaves no debt and takes no more than the reservation.
LEMMA CoveredDebit ==
    ASSUME NEW b \in Balances, NEW mc \in Nat
    PROVE  \A est, F, G \in Nat :
             /\ F = b.monthly + b.topup
             /\ G = Debit(b, mc).monthly + Debit(b, mc).topup
             /\ b.debt = 0 /\ mc <= 1000 * est /\ est <= F
             => Debit(b, mc).debt = 0 /\ G >= F - est
  <1>. DEFINE A == SpendFor(b, mc).applied
              e == Debit(b, mc)
  <1>1. A \in Nat /\ e \in Balances
    BY DebitFacts
  <1>2. e.monthly + e.topup = b.monthly + b.topup - A
    BY DebitFacts
  <1>3. 1000 * (A + e.debt) + e.pending = 1000 * b.debt + b.pending + mc
    BY DebitFacts
  <1>4. DebtIsDrained(b) => DebtIsDrained(e)
    BY DebitFacts
  <1>5. e = Debit(b, mc)
    OBVIOUS
  <1>. HIDE DEF A, e
  <1>6. b.debt = 0 /\ e.debt > 0 => e.monthly + e.topup = 0
    BY <1>1, <1>4 DEF DebtIsDrained, Balances
  <1>7. PICK d \in Nat : d = e.debt
    BY <1>1 DEF Balances
  <1>8. PICK p \in Nat : p = e.pending
    BY <1>1 DEF Balances
  <1>9. PICK q \in 0..999 : q = b.pending
    BY DEF Balances
  <1>10. q \in Nat /\ q <= 999
    BY <1>9
  <1>11. 1000 * (A + d) + p = 1000 * b.debt + q + mc
    BY <1>3, <1>7, <1>8, <1>9
  <1>12. ASSUME NEW est \in Nat, NEW F \in Nat, NEW G \in Nat,
                F = b.monthly + b.topup, G = e.monthly + e.topup,
                b.debt = 0, mc <= 1000 * est, est <= F
         PROVE  e.debt = 0 /\ G >= F - est
    <2>1. PICK X \in Nat : X = A + d
      BY <1>1
    <2>2. G = F - A
      <3>1. G = e.monthly + e.topup
        BY <1>12
      <3>2. G = b.monthly + b.topup - A
        BY <1>2, <3>1
      <3>3. PICK m, t \in Nat : m = b.monthly /\ t = b.topup
        BY DEF Balances
      <3>4. G = m + t - A
        BY <3>2, <3>3
      <3>5. F = m + t
        BY <1>12, <3>3
      <3>. QED
        BY <1>1, <3>4, <3>5
    <2>3. 1000 * X + p = q + mc
      BY <1>10, <1>11, <1>12, <2>1
    <2>4. X <= est
      BY <1>10, <1>12, <2>3
    <2>5. d > 0 => G = 0
      BY <1>6, <1>7, <1>12
    <2>. QED
      BY <1>1, <1>7, <1>12, <2>1, <2>2, <2>4, <2>5
  <1>. QED
    BY <1>5, <1>12

\* The account gets no poorer: out of debt it stays out of debt, with no less.
NoPoorer ==
    balance.debt = 0 =>
        /\ balance'.debt = 0
        /\ balance'.monthly + balance'.topup >= balance.monthly + balance.topup

\* The charge of a claimed call is drawn, covered by its live hold.
DrawsCovered(c) ==
    /\ usageRow[c].status = "pending" /\ Covered(c)
    /\ balance' = Debit(balance, Charge(c))
    /\ usageRow' = [usageRow EXCEPT ![c].status = "applied"]
    /\ uncovered' = uncovered

\* A refill makes no account poorer ...
LEMMA RefillNoPoorer ==
    ASSUME ConstantsAssumption, TypeOK, NEW end,
           balance' = Refill(EnsureRow(balance), end)
    PROVE  NoPoorer
  <1>1. PICK m \in Nat : m = balance.monthly
    BY DEF TypeOK, Balances
  <1>2. PICK t \in Nat : t = balance.topup
    BY DEF TypeOK, Balances
  <1>3. PICK d \in Nat : d = balance.debt
    BY DEF TypeOK, Balances
  <1>4. PICK A \in Nat : A = Allowance
    BY DEF ConstantsAssumption
  <1>5. PICK b \in Balances : b = EnsureRow(balance)
    BY EnsureRowType DEF TypeOK
  <1>6. b.monthly = m /\ b.topup = t /\ b.debt = d
    BY <1>1, <1>2, <1>3, <1>5 DEF EnsureRow, TypeOK, Balances
  <1>7. /\ balance'.monthly = ComputeMonthlyRefill(m, d, A)
        /\ balance'.topup = t /\ balance'.debt = 0
    BY <1>4, <1>5, <1>6 DEF Refill, Balances
  <1>8. d = 0 => ComputeMonthlyRefill(m, d, A) = m + A
    BY DEF ComputeMonthlyRefill, Greater
  <1>9. d = 0 => ComputeMonthlyRefill(m, d, A) + t >= m + t
    BY <1>8
  <1>. QED
    BY <1>1, <1>2, <1>3, <1>7, <1>9 DEF NoPoorer

\* ... nor does the lazy grant, ...
LEMMA LazyGrantNoPoorer ==
    ASSUME ConstantsAssumption, TypeOK, RowlessIsEmpty, NEW end, ~ balance.exists,
           balance' = [EnsureRow(balance) EXCEPT !.monthly = Allowance,
                                                 !.periodEnd = end]
    PROVE  NoPoorer
  <1>1. PICK t \in Nat : t = balance.topup
    BY DEF TypeOK, Balances
  <1>2. PICK A \in Nat : A = Allowance
    BY DEF ConstantsAssumption
  <1>3. balance.monthly = 0 /\ balance.debt = 0
    BY DEF RowlessIsEmpty
  <1>4. PICK b \in Balances : b = EnsureRow(balance)
    BY EnsureRowType DEF TypeOK
  <1>5. b.topup = t /\ b.debt = 0
    BY <1>1, <1>3, <1>4 DEF EnsureRow, TypeOK, Balances
  <1>6. balance'.monthly = A /\ balance'.topup = t /\ balance'.debt = 0
    BY <1>2, <1>4, <1>5 DEF Balances
  <1>. QED
    BY <1>1, <1>3, <1>6 DEF NoPoorer

\* ... nor does a payment.
LEMMA PaymentNoPoorer ==
    ASSUME TypeOK, NEW cents \in Nat, NEW b \in Balances,
           b.monthly = balance.monthly, b.topup = balance.topup,
           b.debt = balance.debt, balance' = Refund(b, cents)
    PROVE  NoPoorer
  <1>1. PICK m \in Nat : m = b.monthly
    BY DEF Balances
  <1>2. PICK t \in Nat : t = b.topup
    BY DEF Balances
  <1>3. PICK d \in Nat : d = b.debt
    BY DEF Balances
  <1>4. /\ balance'.monthly = m
        /\ balance'.topup = ApplyPaymentToDebt(d, t, cents).topup
        /\ balance'.debt = ApplyPaymentToDebt(d, t, cents).debt
    BY <1>1, <1>2, <1>3 DEF Refund, Balances
  <1>5. d = 0 => /\ ApplyPaymentToDebt(d, t, cents).topup = t + cents
                 /\ ApplyPaymentToDebt(d, t, cents).debt = 0
    <2>1. d = 0 => Lesser(d, cents) = 0
      BY DEF Lesser
    <2>2. /\ ApplyPaymentToDebt(d, t, cents).topup = t + (cents - Lesser(d, cents))
          /\ ApplyPaymentToDebt(d, t, cents).debt = d - Lesser(d, cents)
      BY DEF ApplyPaymentToDebt
    <2>3. t + (cents - 0) = t + cents /\ 0 - 0 = 0
      OBVIOUS
    <2>. QED
      BY <2>1, <2>2, <2>3
  <1>6. d = 0 => m + (t + cents) >= m + t
    OBVIOUS
  <1>. QED
    BY <1>1, <1>2, <1>3, <1>4, <1>5, <1>6 DEF NoPoorer

\* A settlement draws a charge that its hold covers, changes nothing, or makes
\* an uncovered debit.
LEMMA SettlementFunds ==
    ASSUME TypeOK, NEW c \in Calls, usageRow[c].status = "pending",
           DecrementAndSettle(c)
    PROVE  uncovered' \/ DrawsCovered(c) \/ (NoPoorer /\ uncovered' = uncovered)
  <1>1. CASE balance.exists
    <2>1. CASE uncovered \/ ~ Covered(c)
      BY <1>1, <2>1 DEF DecrementAndSettle
    <2>2. CASE ~ uncovered /\ Covered(c)
      BY <1>1, <2>2 DEF DecrementAndSettle, DrawsCovered, TypeOK
    <2>. QED
      BY <2>1, <2>2
  <1>2. CASE ~ balance.exists
    BY <1>2 DEF DecrementAndSettle, NoPoorer, TypeOK, Balances
  <1>. QED
    BY <1>1, <1>2

\* Every step does: covered draws apart, nothing makes the account poorer but
\* an uncovered debit.
LEMMA StepFunds ==
    ASSUME ConstantsAssumption, TypeOK, RowlessIsEmpty, ClaimInv, [Next]_vars
    PROVE  \/ uncovered'
           \/ \E c \in Calls : DrawsCovered(c)
           \/ NoPoorer /\ uncovered' = uncovered
  <1>. DEFINE Goal == \/ uncovered'
                      \/ \E c \in Calls : DrawsCovered(c)
                      \/ NoPoorer /\ uncovered' = uncovered
  <1>. USE DEF dbVars, procVars, histVars
  <1>1. ASSUME balance' = balance, uncovered' = uncovered PROVE Goal
    BY <1>1 DEF NoPoorer, TypeOK, Balances
  <1>2. ASSUME NEW c \in Calls, usageRow[c].status = "pending", DecrementAndSettle(c)
        PROVE  Goal
    BY <1>2, SettlementFunds
  <1>3. ASSUME NEW c \in Calls, CallStep(c) PROVE Goal
    <2>1. CASE GateReset(c)
      <3>1. CASE MayReset(c)
        <4>1. EnsureRow(balance) = balance
          BY <3>1, EnsureExisting DEF TypeOK, MayReset
        <4>2. balance' = Refill(EnsureRow(balance), call[c].now + Period)
          BY <2>1, <3>1, <4>1 DEF GateReset
        <4>. QED
          BY <2>1, <4>2, RefillNoPoorer DEF GateReset
      <3>. QED
        BY <1>1, <2>1, <3>1 DEF GateReset
    <2>2. CASE GateInit(c)
      <3>1. CASE ~ balance.exists
        <4>1. balance' = [EnsureRow(balance) EXCEPT !.monthly = Allowance,
                                                    !.periodEnd = call[c].now + Period]
          BY <2>2, <3>1 DEF GateInit
        <4>. QED
          BY <2>2, <3>1, <4>1, LazyGrantNoPoorer DEF GateInit
      <3>. QED
        BY <1>1, <2>2, <3>1 DEF GateInit
    <2>3. CASE Settle(c)
      <3>1. usageRow[c].status = "pending"
        BY <2>3 DEF Settle, ClaimInv, ClaimsExclusive, ClaimInFlight
      <3>. QED
        BY <1>2, <2>3, <3>1 DEF Settle
    <2>. QED
      BY <1>1, <1>3, <2>1, <2>2, <2>3
         DEF CallStep, GateStart, GateHold, StartUngated, FailTokenless, WriteUsage,
             Claim, SkipZeroCharge, ReleaseSkipped, Crash
  <1>4. ASSUME NEW s \in Sweepers, BackfillStep(s) \/ FailBackfill(s) PROVE Goal
    <2>1. ASSUME NEW c \in Calls, RetryPending(s, c) PROVE Goal
      BY <1>1, <1>2, <2>1 DEF RetryPending
    <2>2. ASSUME NEW c \in Calls, SettleOrphan(s, c) PROVE Goal
      <3>1. usageRow[c].status = "pending"
        BY <2>2 DEF SettleOrphan, ClaimInv, ClaimsExclusive, ClaimInFlight
      <3>. QED
        BY <1>1, <1>2, <2>2, <3>1 DEF SettleOrphan
    <2>3. ASSUME NEW c \in Calls, ClaimOrphan(s, c) PROVE Goal
      BY <1>1, <2>3 DEF ClaimOrphan
    <2>. QED
      BY <1>1, <1>4, <2>1, <2>2, <2>3
         DEF BackfillStep, FailBackfill, CrashBackfill, SkipHolds, SkipRow,
             SweepHolds, SelectBacklog, EndBackfill
  <1>5. ASSUME NEW r \in Reconcilers, ReconcileStep(r) \/ CrashReconcile(r) PROVE Goal
    <2>1. ASSUME NEW c \in Calls, ApplyCorrection(r, c) PROVE Goal
      <3>1. PICK delta \in Int : delta = reconciler[r].deltaMc
        BY DEF TypeOK, ReconcilerStates
      <3>2. CASE ~ (Uncorrected(c) /\ balance.exists)
        BY <1>1, <2>1, <3>2 DEF ApplyCorrection
      <3>3. CASE Uncorrected(c) /\ balance.exists
        <4>1. MoveDelta(delta)
          BY <2>1, <3>1, <3>3 DEF ApplyCorrection
        <4>2. CASE delta > 0
          BY <4>1, <4>2 DEF MoveDelta
        <4>3. CASE delta <= 0
          <5>1. RefundCents(delta) \in Nat
            BY <4>3, RefundCentsNat
          <5>2. /\ balance' = Refund(balance, RefundCents(delta))
                /\ uncovered' = uncovered
            BY <4>1, <4>3 DEF MoveDelta
          <5>. QED
            BY <5>1, <5>2, PaymentNoPoorer DEF TypeOK
        <4>. QED
          BY <4>2, <4>3
      <3>. QED
        BY <3>2, <3>3
    <2>. QED
      BY <1>1, <1>5, <2>1 DEF ReconcileStep, CrashReconcile, PickRow, CheckBase,
         FetchGeneration, MarkReconciled
  <1>6. ASSUME NEW ref \in Invoices, FundInvoice(ref) PROVE Goal
    BY <1>6, RefillNoPoorer DEF FundInvoice
  <1>7. ASSUME NEW ref \in Packs, FundPack(ref) PROVE Goal
    <2>1. PICK b \in Balances : b = EnsureRow(balance)
      BY EnsureRowType DEF TypeOK
    <2>2. /\ b.monthly = balance.monthly /\ b.topup = balance.topup
          /\ b.debt = balance.debt
      BY <2>1 DEF EnsureRow, TypeOK, Balances
    <2>3. balance' = Refund(b, PackCents) /\ PackCents \in Nat /\ uncovered' = uncovered
      BY <1>7, <2>1 DEF FundPack, ConstantsAssumption
    <2>. QED
      BY <2>2, <2>3, PaymentNoPoorer
  <1>8. CASE SubscriptionChange \/ Tick \/ UNCHANGED vars
    BY <1>1, <1>8 DEF SubscriptionChange, Tick, vars
  <1>. QED
    BY <1>3, <1>4, <1>5, <1>6, <1>7, <1>8 DEF Next

\* What is reserved beyond what has been spent.
Unspent == ActiveHolds(clock) \ Applied

\* A charge whose row is marked stays marked.
LEMMA AppliedStays ==
    ASSUME RowsOnlyAdvance
    PROVE  Applied \subseteq Applied'
  BY DEF RowsOnlyAdvance, Applied

\* A step that admits nothing keeps held spend funded ...
LEMMA GoingKeepsFunds ==
    ASSUME ConstantsAssumption, IsFiniteSet(Calls), TypeOK, TypeOK', RowlessIsEmpty,
           ClaimInv, HeldSpendIsFunded, HoldsOnlyGo, RowsOnlyAdvance, [Next]_vars,
           ~ uncovered'
    PROVE  /\ balance'.debt = 0
           /\ balance'.monthly + balance'.topup >= SumFunctionOnSet(Estimates', Unspent')
  <1>1. PICK D : D = Unspent
    OBVIOUS
  <1>2. PICK E : E = Unspent'
    OBVIOUS
  <1>3. D \in SUBSET ActiveHolds(clock) /\ E \subseteq ActiveHolds(clock)'
    BY <1>1, <1>2 DEF Unspent
  <1>4. E \in SUBSET D
    BY <1>1, <1>2, LiveHoldsShrink, AppliedStays DEF Unspent
  <1>5. CASE uncovered' = uncovered /\ NoPoorer
    <2>1. /\ balance.debt = 0
          /\ balance.monthly + balance.topup >= SumFunctionOnSet(Estimates, D)
      BY <1>1, <1>5 DEF HeldSpendIsFunded, Unspent
    <2>2. /\ SumFunctionOnSet(Estimates', E) <= SumFunctionOnSet(Estimates, D)
          /\ SumFunctionOnSet(Estimates, D) \in Nat
          /\ SumFunctionOnSet(Estimates', E) \in Nat
      BY <1>3, <1>4, ReservedShrinks
    <2>3. /\ balance.monthly \in Nat /\ balance.topup \in Nat
          /\ balance'.monthly \in Nat /\ balance'.topup \in Nat
      BY BalanceNat DEF TypeOK
    <2>4. /\ balance'.debt = 0
          /\ balance'.monthly + balance'.topup >= balance.monthly + balance.topup
      BY <1>5, <2>1 DEF NoPoorer
    <2>5. PICK F \in Nat : F = balance.monthly + balance.topup
      BY <2>3
    <2>6. PICK G \in Nat : G = balance'.monthly + balance'.topup
      BY <2>3
    <2>7. G >= SumFunctionOnSet(Estimates', E)
      BY <2>1, <2>2, <2>4, <2>5, <2>6
    <2>. QED
      BY <1>2, <2>4, <2>6, <2>7
  <1>6. ASSUME NEW c \in Calls, DrawsCovered(c)
        PROVE  /\ balance'.debt = 0
               /\ balance'.monthly + balance'.topup >= SumFunctionOnSet(Estimates', E)
    <2>1. PICK est \in Nat : est = holds[c].est
      BY DEF TypeOK, Holds
    <2>2. PICK f : f = Estimates
      OBVIOUS
    <2>3. PICK R : R = D \ {c}
      OBVIOUS
    <2>4. c \in D
      BY <1>1, <1>6 DEF DrawsCovered, Covered, Unspent, Applied
    <2>5. c \in Applied'
      BY <1>6 DEF DrawsCovered, Applied, TypeOK, UsageRows
    <2>6. c \notin E
      BY <1>2, <2>5 DEF Unspent
    <2>7. E \in SUBSET R /\ R \in SUBSET ActiveHolds(clock)
      BY <1>3, <1>4, <2>3, <2>6
    <2>8. D \in SUBSET Calls
      BY <1>3 DEF ActiveHolds
    <2>9. IsFiniteSet(D)
      BY <2>8, FS_Subset
    <2>10. \A d \in D : f[d] \in Nat
      BY <2>2, <2>8, EstimatesNat
    <2>11. SumFunctionOnSet(f, D) = f[c] + SumFunctionOnSet(f, D \ {c})
      BY <2>4, <2>9, <2>10, SumRemove
    <2>12. f[c] = est
      BY <2>1, <2>2, EstimatesNat
    <2>13. /\ SumFunctionOnSet(Estimates', E) <= SumFunctionOnSet(f, R)
           /\ SumFunctionOnSet(f, R) \in Nat
           /\ SumFunctionOnSet(Estimates', E) \in Nat
      BY <1>3, <2>2, <2>7, ReservedShrinks
    <2>14. ~ uncovered
      BY <1>6 DEF DrawsCovered
    <2>15. PICK F \in Nat : F = balance.monthly + balance.topup
      BY BalanceNat DEF TypeOK
    <2>16. balance.debt = 0 /\ F >= SumFunctionOnSet(f, D)
      BY <1>1, <2>2, <2>14, <2>15 DEF HeldSpendIsFunded, Unspent
    <2>17. F >= est + SumFunctionOnSet(f, R)
      BY <2>3, <2>11, <2>12, <2>16
    <2>18. est <= F
      BY <2>13, <2>17
    <2>19. PICK mc \in Nat : mc = Charge(c)
      BY ChargeNat DEF TypeOK
    <2>20. mc <= 1000 * est /\ balance' = Debit(balance, mc) /\ balance \in Balances
      BY <1>6, <2>1, <2>19 DEF DrawsCovered, Covered, TypeOK
    <2>21. PICK G \in Nat : G = balance'.monthly + balance'.topup
      BY BalanceNat DEF TypeOK
    <2>22. balance'.debt = 0 /\ G >= F - est
      <3>1. G = Debit(balance, mc).monthly + Debit(balance, mc).topup
        BY <2>20, <2>21
      <3>2. Debit(balance, mc).debt = 0 /\ G >= F - est
        BY <2>15, <2>16, <2>18, <2>20, <3>1, CoveredDebit
      <3>. QED
        BY <2>20, <3>2
    <2>23. G >= SumFunctionOnSet(Estimates', E)
      BY <2>13, <2>17, <2>21, <2>22
    <2>. QED
      BY <2>21, <2>22, <2>23
  <1>. QED
    BY <1>2, <1>5, <1>6, StepFunds

\* ... and so does an admission: the gate has set aside, under the row lock,
\* all that is reserved and the call's own estimate.
LEMMA AdmissionKeepsFunds ==
    ASSUME ConstantsAssumption, IsFiniteSet(Calls), TypeOK, ClocksBehind,
           HeldSpendIsFunded, NEW c \in Calls, NEW est \in HoldEstimates,
           Admitted(c, est), ~ uncovered'
    PROVE  /\ balance'.debt = 0
           /\ balance'.monthly + balance'.topup >= SumFunctionOnSet(Estimates', Unspent')
  <1>1. PICK E : E = Unspent'
    OBVIOUS
  <1>2. E \in SUBSET (ActiveHolds(clock)')
    BY <1>1 DEF Unspent
  <1>3. PICK R : R = Reserved(call[c].now)
    OBVIOUS
  <1>4. /\ SumFunctionOnSet(Estimates', E) <= R + est
        /\ R \in Nat /\ est \in Nat /\ SumFunctionOnSet(Estimates', E) \in Nat
    BY <1>2, <1>3, AdmissionReserves
  <1>5. balance' = balance /\ balance.debt = 0
    BY DEF Admitted, HeldSpendIsFunded
  <1>6. Spendable(balance, R, est) > ReserveFloor
    BY <1>3 DEF Admitted, Admits, EvaluateGate
  <1>7. PICK F \in Nat : F = balance.monthly + balance.topup
    BY BalanceNat DEF TypeOK
  <1>8. Spendable(balance, R, est) = F - R - est
    <2>1. Greater(0, balance.debt) = 0
      BY <1>5 DEF Greater
    <2>2. PICK z \in Nat : z = Greater(0, balance.debt) /\ z = 0
      BY <2>1
    <2>3. PICK m \in Nat : m = balance.monthly
      BY BalanceNat DEF TypeOK
    <2>4. PICK t \in Nat : t = balance.topup
      BY BalanceNat DEF TypeOK
    <2>5. Spendable(balance, R, est) = m + t - z - R - est
      BY <2>2, <2>3, <2>4 DEF Spendable
    <2>6. F = m + t
      BY <1>7, <2>3, <2>4
    <2>7. est \in Nat
      BY DEF ConstantsAssumption
    <2>. QED
      BY <1>4, <2>2, <2>5, <2>6, <2>7
  <1>9. ReserveFloor \in Nat
    BY DEF ConstantsAssumption
  <1>10. F >= SumFunctionOnSet(Estimates', E)
    BY <1>4, <1>6, <1>7, <1>8, <1>9
  <1>. QED
    BY <1>1, <1>5, <1>7, <1>10

\* HeldSpendIsFunded is inductive beside the type, money, claim and clock
\* invariants.
LEMMA StepKeepsFunds ==
    ASSUME ConstantsAssumption, IsFiniteSet(Calls), TypeOK, TypeOK', MoneyInv, ClaimInv,
           ClocksBehind, HeldSpendIsFunded, [Next]_vars
    PROVE  HeldSpendIsFunded'
  <1>1. RowlessIsEmpty
    BY DEF MoneyInv
  <1>2. RowsOnlyAdvance
    BY StepAdvances
  <1>3. ~ uncovered' =>
           /\ balance'.debt = 0
           /\ balance'.monthly + balance'.topup >= SumFunctionOnSet(Estimates', Unspent')
    BY <1>1, <1>2, GoingKeepsFunds, AdmissionKeepsFunds, StepHolds
  <1>. QED
    BY <1>3 DEF HeldSpendIsFunded, Unspent

\* While every debit has been covered by the live hold of its own call, the
\* account stays out of debt and still holds, beyond everything spent, what the
\* live holds of unsettled calls have reserved: calls admitted concurrently, at
\* whatever old times, never overshoot the balance together.
THEOREM HeldSpendFunded ==
    ASSUME IsFiniteSet(Calls), SettleLag <= Grace
    PROVE  Spec => []HeldSpendIsFunded
  <1>1. Init => HeldSpendIsFunded
    <2>1. Init => /\ balance.debt = 0 /\ balance.monthly = 0 /\ balance.topup = 0
                  /\ ActiveHolds(clock) = {}
      BY DEF Init, NoBalance, NoHold, ActiveHolds
    <2>2. SumFunctionOnSet(Estimates, {}) = 0
      BY SumEmpty
    <2>3. Init => ActiveHolds(clock) \ Applied = {}
      BY <2>1
    <2>. QED
      BY <2>1, <2>2, <2>3 DEF HeldSpendIsFunded
  <1>2. /\ TypeOK /\ TypeOK' /\ MoneyInv /\ ClaimInv /\ ClocksBehind /\ HeldSpendIsFunded
        /\ [Next]_vars
        => HeldSpendIsFunded'
    BY StepKeepsFunds, ConstantsAssumption
  <1>. QED
    BY <1>1, <1>2, MoneyInvariant, ClaimInvariant, ClockInvariant, PTL DEF Spec

(***************************************************************************)
(* The daily cap                                                           *)
(***************************************************************************)
\* The start of the day does not go back as time goes on.
LEMMA DaysInOrder ==
    ASSUME ConstantsAssumption, NEW a \in Nat, NEW b \in Nat, a <= b
    PROVE  /\ StartOfDay(a) <= StartOfDay(b)
           /\ StartOfDay(a) \in Nat /\ StartOfDay(a) <= a
  <1>1. PICK L \in Nat : L = DayLength /\ L >= 1
    BY DEF ConstantsAssumption
  <1>2. PICK q \in Nat : q = a \div L
    BY <1>1
  <1>3. PICK p \in Nat : p = b \div L
    BY <1>1
  <1>4. PICK r \in Nat : r = a % L /\ r < L
    BY <1>1
  <1>5. PICK s \in Nat : s = b % L /\ s < L
    BY <1>1
  <1>6. a = L * q + r
    BY <1>1, <1>2, <1>4
  <1>7. b = L * p + s
    BY <1>1, <1>3, <1>5
  <1>8. q <= p
    <2>1. SUFFICES ASSUME q >= p + 1 PROVE FALSE
      OBVIOUS
    <2>2. L * q >= L * (p + 1)
      BY <1>1, <2>1
    <2>3. L * (p + 1) = L * p + L
      BY <1>1
    <2>4. PICK x \in Nat : x = L * q
      BY <1>1, ProductNat
    <2>5. PICK y \in Nat : y = L * p
      BY <1>1, ProductNat
    <2>. QED
      BY <1>1, <1>4, <1>5, <1>6, <1>7, <2>2, <2>3, <2>4, <2>5
  <1>9. L * q <= L * p
    BY <1>1, <1>8
  <1>10. PICK x \in Nat : x = L * q
    BY <1>1, ProductNat
  <1>11. PICK y \in Nat : y = L * p
    BY <1>1, ProductNat
  <1>12. StartOfDay(a) = x /\ StartOfDay(b) = y
    BY <1>1, <1>4, <1>5, <1>6, <1>7, <1>10, <1>11 DEF StartOfDay
  <1>. QED
    BY <1>4, <1>6, <1>9, <1>10, <1>11, <1>12

\* Millicents charged since an instant.
ChargedSince(start) == SumFunctionOnSet(Charges, UsedSince(start))

NoCorrections == \A c \in Calls : ~ correction[c].made

\* Every charge is a whole number of millicents.
LEMMA ChargesNat ==
    ASSUME ConstantsAssumption, TypeOK
    PROVE  \A c \in Calls : Charges[c] = Charge(c) /\ Charges[c] \in Nat
  BY ChargeNat DEF TypeOK, Charges

\* Charges since an instant add up to a natural number, and to no more for a
\* later instant.
LEMMA LaterChargesLess ==
    ASSUME ConstantsAssumption, IsFiniteSet(Calls), TypeOK, NEW a \in Nat, NEW b \in Nat,
           a <= b
    PROVE  ChargedSince(a) \in Nat /\ ChargedSince(b) \in Nat
           /\ ChargedSince(b) <= ChargedSince(a)
  <1>1. PICK f : f = Charges
    OBVIOUS
  <1>2. PICK A : A = UsedSince(a)
    OBVIOUS
  <1>3. PICK B : B = UsedSince(b)
    OBVIOUS
  <1>4. A \in SUBSET Calls
    BY <1>2 DEF UsedSince
  <1>5. \A c \in Calls : usageRow[c].at \in Nat
    BY DEF TypeOK, UsageRows
  <1>6. B \in SUBSET A
    BY <1>2, <1>3, <1>5 DEF UsedSince
  <1>7. IsFiniteSet(A) /\ IsFiniteSet(B)
    BY <1>4, <1>6, FS_Subset
  <1>8. (\A c \in A : f[c] \in Nat) /\ (\A c \in B : f[c] \in Nat)
    BY <1>1, <1>4, <1>6, ChargesNat
  <1>9. SumFunctionOnSet(f, A) \in Nat
    BY <1>7, <1>8, SumNat
  <1>10. SumFunctionOnSet(f, B) \in Nat
    BY <1>7, <1>8, SumNat
  <1>11. SumFunctionOnSet(f, B) <= SumFunctionOnSet(f, A)
    BY <1>6, <1>7, <1>8, SumPart
  <1>. QED
    BY <1>1, <1>2, <1>3, <1>9, <1>10, <1>11 DEF ChargedSince

\* Where nothing is corrected, a day's charges are those of its usage rows.
LEMMA DailyUncorrected ==
    ASSUME ConstantsAssumption, IsFiniteSet(Calls), TypeOK, NoCorrections, NEW now \in Nat
    PROVE  DailyCharged(now) = ChargedSince(StartOfDay(now)) \div 1000
  <1>1. AdjustedSince(StartOfDay(now)) = {}
    BY DEF AdjustedSince, NoCorrections
  <1>2. SumFunctionOnSet(Deltas, {}) = 0
    BY SumEmpty
  <1>3. PICK S \in Nat : S = ChargedSince(StartOfDay(now))
    BY DaysInOrder, LaterChargesLess
  <1>4. Greater(0, S + 0) = S
    BY DEF Greater
  <1>5. DailyCharged(now) = Greater(0, S + SumFunctionOnSet(Deltas, {})) \div 1000
    BY <1>1, <1>3 DEF DailyCharged, ChargedSince
  <1>. QED
    BY <1>2, <1>3, <1>4, <1>5

\* The calls that hold a reservation and are still to be charged.
ToBeCharged == {c \in ActiveHolds(clock) : usageRow[c].status = "none"}

\* DailyCapHolds, made inductive: a claimed call may also have no charge.
DailyInv ==
    /\ DailyCap # Null /\ ~ uncovered /\ NoCorrections
    /\ \A c \in Calls : usageRow[c].status = "pending" => Charge(c) = 0 \/ Covered(c)
    => DailyCharged(clock) + SumFunctionOnSet(Estimates, ToBeCharged) <= DailyCap

\* A new usage row is claimed.
RowInserted(c) ==
    /\ usageRow[c].status = "none" /\ InsertUsageRow(c)
    /\ UNCHANGED <<holds, usageLog, clock, uncovered>>

\* Any other step leaves charged rows as they are but for their settlement,
\* which a hold covers unless it is an uncovered debit.
RowsOnlySettle ==
    /\ uncovered => uncovered'
    /\ \A c \in Calls :
          /\ usageRow'[c].status = "none" <=> usageRow[c].status = "none"
          /\ usageRow'[c].at = usageRow[c].at
          /\ usageRow[c].status # "none" => usageLog'[c].cost = usageLog[c].cost
          /\ usageRow'[c].status = "pending" => usageRow[c].status = "pending"
          /\ usageRow[c].status = "pending" /\ usageRow'[c].status # "pending" =>
                 Charge(c) = 0 \/ Covered(c) \/ uncovered'

\* A settlement does.
LEMMA SettlementOnlySettles ==
    ASSUME TypeOK, NEW c \in Calls, usageRow[c].status = "pending",
           DecrementAndSettle(c), usageLog' = usageLog
    PROVE  RowsOnlySettle
  <1>1. CASE balance.exists
    <2>1. usageRow'[c].status = "applied" /\ usageRow'[c].at = usageRow[c].at
      BY <1>1 DEF DecrementAndSettle, TypeOK, UsageRows
    <2>2. \A d \in Calls \ {c} : usageRow'[d] = usageRow[d]
      BY <1>1 DEF DecrementAndSettle, TypeOK
    <2>3. (uncovered => uncovered') /\ (Covered(c) \/ uncovered')
      BY <1>1 DEF DecrementAndSettle
    <2>. QED
      BY <2>1, <2>2, <2>3 DEF RowsOnlySettle
  <1>2. CASE ~ balance.exists
    BY <1>2 DEF DecrementAndSettle, RowsOnlySettle
  <1>. QED
    BY <1>1, <1>2

\* So does the skip of a call without a charge.
LEMMA SkipOnlySettles ==
    ASSUME TypeOK, NEW c \in Calls, usageRow[c].status = "pending", Charge(c) = 0,
           usageRow' = [usageRow EXCEPT ![c].status = "skipped"],
           usageLog' = usageLog, uncovered' = uncovered
    PROVE  RowsOnlySettle
  <1>1. usageRow'[c].status = "skipped" /\ usageRow'[c].at = usageRow[c].at
    BY DEF TypeOK, UsageRows
  <1>2. \A d \in Calls \ {c} : usageRow'[d] = usageRow[d]
    BY DEF TypeOK
  <1>. QED
    BY <1>1, <1>2 DEF RowsOnlySettle

\* Every step inserts one row, or only settles.
LEMMA StepRows ==
    ASSUME TypeOK, ClaimInv, LogInv, [Next]_vars
    PROVE  RowsOnlySettle \/ \E c \in Calls : RowInserted(c)
  <1>. DEFINE Goal == RowsOnlySettle \/ \E c \in Calls : RowInserted(c)
  <1>. USE DEF dbVars, procVars, histVars
  <1>1. ASSUME UNCHANGED <<usageRow, usageLog, uncovered>> PROVE Goal
    BY <1>1 DEF RowsOnlySettle
  <1>2. ASSUME NEW c \in Calls, CallStep(c) PROVE Goal
    <2>1. CASE WriteUsage(c)
      <3>1. usageRow[c].status = "none"
        BY <2>1 DEF WriteUsage, LogInv
      <3>2. \A d \in Calls \ {c} : usageLog'[d] = usageLog[d]
        BY <2>1 DEF WriteUsage, TypeOK
      <3>. QED
        BY <2>1, <3>1, <3>2 DEF WriteUsage, RowsOnlySettle
    <2>2. CASE Claim(c)
      BY <1>1, <2>2 DEF Claim, RowInserted
    <2>3. CASE SkipZeroCharge(c) \/ Settle(c)
      <3>1. usageRow[c].status = "pending"
        BY <2>3 DEF SkipZeroCharge, Settle, ClaimInv, ClaimsExclusive, ClaimInFlight
      <3>2. CASE SkipZeroCharge(c)
        BY <3>1, <3>2, SkipOnlySettles DEF SkipZeroCharge
      <3>3. CASE Settle(c)
        BY <3>1, <3>3, SettlementOnlySettles DEF Settle
      <3>. QED
        BY <2>3, <3>2, <3>3
    <2>. QED
      BY <1>1, <1>2, <2>1, <2>2, <2>3 DEF CallStep, GateStart, GateReset, GateInit,
         GateHold, StartUngated, FailTokenless, ReleaseSkipped, Crash
  <1>3. ASSUME NEW s \in Sweepers, BackfillStep(s) \/ FailBackfill(s) PROVE Goal
    <2>1. ASSUME NEW c \in Calls, RetryPending(s, c) PROVE Goal
      BY <1>1, <2>1, SettlementOnlySettles DEF RetryPending
    <2>2. ASSUME NEW c \in Calls, ClaimOrphan(s, c) PROVE Goal
      BY <1>1, <2>2 DEF ClaimOrphan, RowInserted
    <2>3. ASSUME NEW c \in Calls, SettleOrphan(s, c) PROVE Goal
      <3>1. usageRow[c].status = "pending"
        BY <2>3 DEF SettleOrphan, ClaimInv, ClaimsExclusive, ClaimInFlight
      <3>. QED
        BY <2>3, <3>1, SettlementOnlySettles, SkipOnlySettles DEF SettleOrphan
    <2>. QED
      BY <1>1, <1>3, <2>1, <2>2, <2>3 DEF BackfillStep, FailBackfill, CrashBackfill,
         SkipHolds, SkipRow, SweepHolds, SelectBacklog, EndBackfill
  <1>4. ASSUME NEW r \in Reconcilers, ReconcileStep(r) \/ CrashReconcile(r) PROVE Goal
    <2>1. usageRow' = usageRow
      BY <1>4 DEF ReconcileStep, CrashReconcile, PickRow, CheckBase,
                  FetchGeneration, ApplyCorrection, MarkReconciled
    <2>2. \A c \in Calls : usageLog'[c].cost = usageLog[c].cost
      BY <1>4, ReconcileKeepsCosts
    <2>3. uncovered => uncovered'
      BY <1>4 DEF ReconcileStep, CrashReconcile, PickRow, CheckBase,
                  FetchGeneration, ApplyCorrection, MarkReconciled, MoveDelta
    <2>. QED
      BY <2>1, <2>2, <2>3 DEF RowsOnlySettle
  <1>5. ASSUME NEW ref \in Invoices, FundInvoice(ref) PROVE Goal
    BY <1>1, <1>5 DEF FundInvoice
  <1>6. ASSUME NEW ref \in Packs, FundPack(ref) PROVE Goal
    BY <1>1, <1>6 DEF FundPack
  <1>7. CASE SubscriptionChange \/ Tick \/ UNCHANGED vars
    BY <1>1, <1>7 DEF SubscriptionChange, Tick, vars
  <1>. QED
    BY <1>2, <1>3, <1>4, <1>5, <1>6, <1>7 DEF Next

\* A covered charge is covered before a step that admits no call.
LEMMA CoveredBefore ==
    ASSUME TypeOK, HoldsOnlyGo, NEW c \in Calls, usageLog'[c].cost = usageLog[c].cost,
           Covered(c)'
    PROVE  Covered(c)
  <1>1. c \in ActiveHolds(clock)' /\ Charge(c)' <= 1000 * holds'[c].est
    BY DEF Covered
  <1>2. c \in ActiveHolds(clock) /\ holds'[c] = holds[c]
    BY <1>1, LiveHoldsShrink
  <1>3. Charge(c)' = Charge(c)
    BY DEF Charge
  <1>. QED
    BY <1>1, <1>2, <1>3 DEF Covered

\* Rows that only settle leave no more charged in the day, as time goes on.
LEMMA SettlingKeepsCharges ==
    ASSUME ConstantsAssumption, IsFiniteSet(Calls), TypeOK, TypeOK', RowsOnlySettle,
           clock' \in {clock, clock + 1}
    PROVE  /\ ChargedSince(StartOfDay(clock))' <= ChargedSince(StartOfDay(clock))
           /\ ChargedSince(StartOfDay(clock)) \in Nat
           /\ ChargedSince(StartOfDay(clock))' \in Nat
  <1>1. PICK a \in Nat : a = StartOfDay(clock)
    BY DaysInOrder DEF TypeOK
  <1>2. PICK b \in Nat : b = StartOfDay(clock)'
    <2>1. clock' \in Nat
      BY DEF TypeOK
    <2>2. StartOfDay(clock') \in Nat
      BY <2>1, DaysInOrder
    <2>. QED
      BY <2>2 DEF StartOfDay
  <1>3. a <= b
    <2>1. clock \in Nat /\ clock' \in Nat /\ clock <= clock'
      BY DEF TypeOK
    <2>2. StartOfDay(clock) <= StartOfDay(clock')
      BY <2>1, DaysInOrder
    <2>. QED
      BY <1>1, <1>2, <2>2 DEF StartOfDay
  <1>4. ChargedSince(a) \in Nat /\ ChargedSince(b) \in Nat /\ ChargedSince(b) <= ChargedSince(a)
    BY <1>3, LaterChargesLess
  <1>5. UsedSince(b)' = UsedSince(b)
    BY DEF UsedSince, RowsOnlySettle
  <1>6. PICK B : B = UsedSince(b)
    OBVIOUS
  <1>7. PICK f : f = Charges
    OBVIOUS
  <1>8. PICK g : g = Charges'
    OBVIOUS
  <1>9. \A c \in B : g[c] = f[c]
    BY <1>6, <1>7, <1>8 DEF UsedSince, Charges, Charge, RowsOnlySettle
  <1>10. B \in SUBSET Calls
    BY <1>6 DEF UsedSince
  <1>11. IsFiniteSet(B)
    BY <1>10, FS_Subset
  <1>12. SumFunctionOnSet(g, B) = SumFunctionOnSet(f, B)
    BY <1>9, <1>11, SumSame
  <1>13. ChargedSince(StartOfDay(clock))' = SumFunctionOnSet(g, B)
    <2>1. ChargedSince(StartOfDay(clock))'
              = SumFunctionOnSet(Charges', UsedSince(StartOfDay(clock))')
      BY DEF ChargedSince
    <2>2. UsedSince(StartOfDay(clock))' = UsedSince(b)'
      BY <1>2 DEF UsedSince
    <2>. QED
      BY <1>5, <1>6, <1>8, <2>1, <2>2
  <1>14. ChargedSince(b) = SumFunctionOnSet(f, B)
    BY <1>6, <1>7 DEF ChargedSince
  <1>. QED
    BY <1>1, <1>4, <1>12, <1>13, <1>14

\* A step that admits no call and inserts no row keeps DailyInv.
LEMMA SettlingKeepsDay ==
    ASSUME ConstantsAssumption, IsFiniteSet(Calls), TypeOK, TypeOK', DailyInv,
           HoldsOnlyGo, RowsOnlySettle, EntriesKept
    PROVE  DailyInv'
  <1>1. SUFFICES ASSUME DailyCap # Null, ~ uncovered', NoCorrections',
                        \A c \in Calls : usageRow'[c].status = "pending" =>
                             Charge(c)' = 0 \/ Covered(c)'
                 PROVE  DailyCharged(clock)' + SumFunctionOnSet(Estimates', ToBeCharged')
                            <= DailyCap
    BY DEF DailyInv
  <1>2. ~ uncovered
    BY <1>1 DEF RowsOnlySettle
  <1>3. NoCorrections
    BY <1>1 DEF NoCorrections, EntriesKept
  <1>4. ASSUME NEW c \in Calls, usageRow[c].status = "pending"
        PROVE  Charge(c) = 0 \/ Covered(c)
    <2>1. usageLog'[c].cost = usageLog[c].cost
      BY <1>4 DEF RowsOnlySettle
    <2>2. Charge(c)' = Charge(c)
      BY <2>1 DEF Charge
    <2>3. CASE usageRow'[c].status = "pending"
      BY <1>1, <2>1, <2>2, <2>3, CoveredBefore
    <2>4. CASE usageRow'[c].status # "pending"
      BY <1>1, <1>4, <2>4 DEF RowsOnlySettle
    <2>. QED
      BY <2>3, <2>4
  <1>5. PICK D : D = ToBeCharged
    OBVIOUS
  <1>6. PICK E : E = ToBeCharged'
    OBVIOUS
  <1>7. DailyCharged(clock) + SumFunctionOnSet(Estimates, D) <= DailyCap
    BY <1>1, <1>2, <1>3, <1>4, <1>5 DEF DailyInv
  <1>8. PICK S \in Nat : S = ChargedSince(StartOfDay(clock))
    BY SettlingKeepsCharges DEF HoldsOnlyGo
  <1>9. PICK T \in Nat : T = ChargedSince(StartOfDay(clock))'
    BY SettlingKeepsCharges DEF HoldsOnlyGo
  <1>10. T <= S
    BY <1>8, <1>9, SettlingKeepsCharges DEF HoldsOnlyGo
  <1>11. DailyCharged(clock) = S \div 1000
    BY <1>3, <1>8, DailyUncorrected DEF TypeOK
  <1>12. DailyCharged(clock)' = T \div 1000
    <2>1. AdjustedSince(StartOfDay(clock))' = {}
      BY <1>1 DEF AdjustedSince, NoCorrections
    <2>2. SumFunctionOnSet(Deltas', {}) = 0
      BY SumEmpty
    <2>3. DailyCharged(clock)'
             = Greater(0, T + SumFunctionOnSet(Deltas', AdjustedSince(StartOfDay(clock))')) \div 1000
      BY <1>9 DEF DailyCharged, ChargedSince, UsedSince, AdjustedSince, StartOfDay
    <2>4. Greater(0, T + 0) = T
      BY DEF Greater
    <2>. QED
      BY <2>1, <2>2, <2>3, <2>4
  <1>13. /\ SumFunctionOnSet(Estimates', E) <= SumFunctionOnSet(Estimates, D)
         /\ SumFunctionOnSet(Estimates, D) \in Nat
         /\ SumFunctionOnSet(Estimates', E) \in Nat
    <2>1. D \in SUBSET ActiveHolds(clock) /\ E \subseteq ActiveHolds(clock)'
      BY <1>5, <1>6 DEF ToBeCharged
    <2>2. E \in SUBSET D
      <3>1. ASSUME NEW c \in E PROVE c \in D
        <4>1. c \in Calls /\ c \in ActiveHolds(clock)' /\ usageRow'[c].status = "none"
          BY <1>6, <3>1 DEF ToBeCharged, ActiveHolds
        <4>2. c \in ActiveHolds(clock)
          BY <4>1, LiveHoldsShrink
        <4>3. usageRow[c].status = "none"
          BY <4>1 DEF RowsOnlySettle
        <4>. QED
          BY <1>5, <4>2, <4>3 DEF ToBeCharged
      <3>. QED
        BY <3>1
    <2>. QED
      BY <2>1, <2>2, ReservedShrinks
  <1>14. DailyCap \in Nat
    BY <1>1 DEF ConstantsAssumption
  <1>15. T \div 1000 <= S \div 1000
    BY <1>10
  <1>16. T \div 1000 + SumFunctionOnSet(Estimates', E) <= DailyCap
    <2>1. PICK x \in Nat : x = SumFunctionOnSet(Estimates, D)
      BY <1>13
    <2>2. PICK y \in Nat : y = SumFunctionOnSet(Estimates', E)
      BY <1>13
    <2>3. y <= x /\ S \div 1000 + x <= DailyCap
      BY <1>7, <1>11, <1>13, <2>1, <2>2
    <2>. QED
      BY <1>14, <1>15, <2>2, <2>3
  <1>. QED
    BY <1>6, <1>12, <1>16

\* An admission keeps DailyInv: what the gate has counted as charged since the
\* start of the request's day is at least what has been charged today.
LEMMA AdmissionKeepsDay ==
    ASSUME ConstantsAssumption, IsFiniteSet(Calls), TypeOK, ClocksBehind,
           NEW c \in Calls, NEW est \in HoldEstimates, Admitted(c, est)
    PROVE  DailyInv'
  <1>1. SUFFICES ASSUME DailyCap # Null, NoCorrections'
                 PROVE  DailyCharged(clock)' + SumFunctionOnSet(Estimates', ToBeCharged')
                            <= DailyCap
    BY DEF DailyInv
  <1>2. NoCorrections
    BY <1>1 DEF NoCorrections, Admitted
  <1>3. DailyCharged(clock)' = DailyCharged(clock)
    BY DEF Admitted, DailyCharged, StartOfDay, UsedSince, AdjustedSince, Charges, Deltas, Charge
  <1>4. PICK now \in Nat : now = call[c].now
    BY DEF TypeOK, CallStates
  <1>5. clock \in Nat /\ now <= clock
    BY <1>4 DEF TypeOK, ClocksBehind
  <1>6. PICK a \in Nat : a = StartOfDay(now)
    BY DaysInOrder
  <1>7. PICK b \in Nat : b = StartOfDay(clock)
    BY <1>5, DaysInOrder
  <1>8. a <= b
    BY <1>5, <1>6, <1>7, DaysInOrder
  <1>9. PICK S \in Nat : S = ChargedSince(a)
    BY <1>8, LaterChargesLess
  <1>10. PICK T \in Nat : T = ChargedSince(b)
    BY <1>8, LaterChargesLess
  <1>11. T <= S
    BY <1>8, <1>9, <1>10, LaterChargesLess
  <1>12. DailyCharged(clock) = T \div 1000
    BY <1>2, <1>5, <1>7, <1>10, DailyUncorrected
  <1>13. DailyCharged(now) = S \div 1000
    BY <1>2, <1>6, <1>9, DailyUncorrected
  <1>14. PICK E : E = ToBeCharged'
    OBVIOUS
  <1>15. E \in SUBSET (ActiveHolds(clock)')
    BY <1>14 DEF ToBeCharged
  <1>16. /\ SumFunctionOnSet(Estimates', E) <= Reserved(now) + est
         /\ Reserved(now) \in Nat /\ est \in Nat
         /\ SumFunctionOnSet(Estimates', E) \in Nat
    BY <1>4, <1>15, AdmissionReserves
  <1>17. EvaluateDailyCap(DailyCharged(now) + Reserved(now), est, DailyCap)
    BY <1>4 DEF Admitted, Admits
  <1>18. S \div 1000 + Reserved(now) + est <= DailyCap
    <2>1. PICK R \in Nat : R = Reserved(now)
      BY <1>16
    <2>2. PICK q \in Nat : q = S \div 1000
      OBVIOUS
    <2>3. EvaluateDailyCap(q + R, est, DailyCap)
      BY <1>13, <1>17, <2>1, <2>2
    <2>4. Greater(0, q + R) = q + R /\ Greater(0, est) = est
      BY <1>16 DEF Greater
    <2>5. q + R + est <= DailyCap
      BY <1>1, <2>3, <2>4 DEF EvaluateDailyCap
    <2>. QED
      BY <2>1, <2>2, <2>5
  <1>19. T \div 1000 <= S \div 1000
    BY <1>11
  <1>20. DailyCap \in Nat
    BY <1>1 DEF ConstantsAssumption
  <1>21. T \div 1000 + SumFunctionOnSet(Estimates', E) <= DailyCap
    BY <1>16, <1>18, <1>19, <1>20
  <1>. QED
    BY <1>3, <1>12, <1>14, <1>21

\* A claim keeps DailyInv: what its hold has reserved is charged now.
LEMMA ClaimKeepsDay ==
    ASSUME ConstantsAssumption, IsFiniteSet(Calls), TypeOK, DailyInv, EntriesKept,
           NEW c \in Calls, RowInserted(c)
    PROVE  DailyInv'
  <1>1. SUFFICES ASSUME DailyCap # Null, ~ uncovered', NoCorrections',
                        \A d \in Calls : usageRow'[d].status = "pending" =>
                             Charge(d)' = 0 \/ Covered(d)'
                 PROVE  DailyCharged(clock)' + SumFunctionOnSet(Estimates', ToBeCharged')
                            <= DailyCap
    BY DEF DailyInv
  <1>2. /\ usageRow'[c] = [status |-> "pending", at |-> clock]
        /\ \A d \in Calls \ {c} : usageRow'[d] = usageRow[d]
        /\ usageRow[c].status = "none"
    BY DEF RowInserted, InsertUsageRow, TypeOK
  <1>3. NoCorrections
    BY <1>1 DEF NoCorrections, EntriesKept
  <1>4. \A d \in Calls : Charge(d)' = Charge(d) /\ (Covered(d)' <=> Covered(d))
    BY DEF RowInserted, Charge, Covered, ActiveHolds
  <1>5. \A d \in Calls : usageRow[d].status = "pending" => Charge(d) = 0 \/ Covered(d)
    BY <1>1, <1>2, <1>4
  <1>6. PICK D : D = ToBeCharged
    OBVIOUS
  <1>7. PICK E : E = ToBeCharged'
    OBVIOUS
  <1>8. PICK e : e = Estimates
    OBVIOUS
  <1>9. Estimates' = e
    BY <1>8 DEF Estimates, RowInserted
  <1>10. E = D \ {c}
    BY <1>2, <1>6, <1>7 DEF ToBeCharged, ActiveHolds, RowInserted
  <1>11. PICK f : f = Charges
    OBVIOUS
  <1>12. Charges' = f
    BY <1>11 DEF Charges, Charge, RowInserted
  <1>13. PICK b \in Nat : b = StartOfDay(clock) /\ b <= clock
    BY DaysInOrder DEF TypeOK
  <1>14. StartOfDay(clock)' = b
    BY <1>13 DEF StartOfDay, RowInserted
  <1>15. PICK U : U = UsedSince(b)
    OBVIOUS
  <1>16. UsedSince(b)' = U \cup {c} /\ c \notin U
    BY <1>2, <1>13, <1>15 DEF UsedSince
  <1>17. U \in SUBSET Calls /\ D \in SUBSET Calls
    BY <1>6, <1>15 DEF UsedSince, ToBeCharged, ActiveHolds
  <1>18. IsFiniteSet(U) /\ IsFiniteSet(D)
    BY <1>17, FS_Subset
  <1>19. \A d \in Calls : f[d] \in Nat /\ e[d] \in Nat /\ f[d] = Charge(d)
                          /\ e[d] = holds[d].est
    BY <1>8, <1>11, ChargesNat, EstimatesNat
  <1>20. PICK S \in Nat : S = SumFunctionOnSet(f, U)
    BY <1>17, <1>18, <1>19, SumNat
  <1>21. PICK mc \in Nat : mc = Charge(c) /\ mc = f[c]
    BY <1>19
  <1>22. SumFunctionOnSet(f, U \cup {c}) = mc + S
    <2>1. \A d \in U : f[d] \in Int
      BY <1>17, <1>19
    <2>. QED
      BY <1>16, <1>18, <1>20, <1>21, <2>1, SumAdd
  <1>23. DailyCharged(clock) = S \div 1000
    <2>1. ChargedSince(StartOfDay(clock)) = S
      BY <1>11, <1>13, <1>15, <1>20 DEF ChargedSince
    <2>. QED
      BY <1>3, <2>1, DailyUncorrected DEF TypeOK
  <1>24. DailyCharged(clock)' = (mc + S) \div 1000
    <2>1. AdjustedSince(StartOfDay(clock))' = {}
      BY <1>1 DEF AdjustedSince, NoCorrections
    <2>2. SumFunctionOnSet(Deltas', {}) = 0
      BY SumEmpty
    <2>3. UsedSince(StartOfDay(clock))' = U \cup {c}
      BY <1>14, <1>16 DEF UsedSince
    <2>4. DailyCharged(clock)'
             = Greater(0, SumFunctionOnSet(f, U \cup {c})
                  + SumFunctionOnSet(Deltas', AdjustedSince(StartOfDay(clock))')) \div 1000
      <3>1. DailyCharged(clock)'
               = Greater(0, SumFunctionOnSet(Charges', UsedSince(StartOfDay(clock))')
                    + SumFunctionOnSet(Deltas', AdjustedSince(StartOfDay(clock))')) \div 1000
        BY DEF DailyCharged
      <3>. QED
        BY <1>12, <2>3, <3>1
    <2>5. Greater(0, (mc + S) + 0) = mc + S
      BY DEF Greater
    <2>. QED
      BY <1>22, <2>1, <2>2, <2>4, <2>5
  <1>25. DailyCharged(clock) + SumFunctionOnSet(e, D) <= DailyCap
    BY <1>1, <1>3, <1>5, <1>6, <1>8 DEF DailyInv, RowInserted
  <1>26. DailyCap \in Nat
    BY <1>1 DEF ConstantsAssumption
  <1>27. PICK x \in Nat : x = SumFunctionOnSet(e, D)
    BY <1>17, <1>18, <1>19, SumNat
  <1>28. PICK y \in Nat : y = SumFunctionOnSet(e, E)
    <2>1. E \in SUBSET D
      BY <1>10
    <2>2. IsFiniteSet(E)
      BY <1>18, <2>1, FS_Subset
    <2>3. \A d \in E : e[d] \in Nat
      BY <1>17, <1>19, <2>1
    <2>. QED
      BY <2>2, <2>3, SumNat
  <1>29. S \div 1000 + x <= DailyCap
    BY <1>23, <1>25, <1>27
  <1>30. (mc + S) \div 1000 + y <= DailyCap
    <2>1. CASE mc = 0
      <3>1. E \in SUBSET D
        BY <1>10
      <3>2. \A d \in D : e[d] \in Nat
        BY <1>17, <1>19
      <3>3. SumFunctionOnSet(e, E) <= SumFunctionOnSet(e, D)
        BY <1>18, <3>1, <3>2, SumPart
      <3>4. y <= x
        BY <1>27, <1>28, <3>3
      <3>. QED
        BY <1>26, <1>29, <2>1, <3>4
    <2>2. CASE mc # 0
      <3>1. Covered(c)
        <4>1. usageRow'[c].status = "pending"
          BY <1>2
        <4>2. Charge(c)' # 0
          BY <1>4, <1>21, <2>2
        <4>3. Covered(c)'
          BY <1>1, <4>1, <4>2
        <4>. QED
          BY <1>4, <4>3
      <3>2. PICK est \in Nat : est = holds[c].est
        BY <1>19
      <3>3. c \in ActiveHolds(clock) /\ mc <= 1000 * est
        BY <1>21, <3>1, <3>2 DEF Covered
      <3>4. c \in D
        BY <1>2, <1>6, <3>3 DEF ToBeCharged
      <3>5. \A d \in D : e[d] \in Int
        BY <1>17, <1>19
      <3>6. SumFunctionOnSet(e, D) = e[c] + SumFunctionOnSet(e, D \ {c})
        BY <1>18, <3>4, <3>5, SumRemove
      <3>7. e[c] = est
        BY <1>19, <3>2
      <3>8. x = est + y
        BY <1>10, <1>27, <1>28, <3>6, <3>7
      <3>9. (mc + S) \div 1000 <= S \div 1000 + est
        BY <3>3
      <3>. QED
        BY <1>26, <1>29, <3>8, <3>9
    <2>. QED
      BY <2>1, <2>2
  <1>. QED
    BY <1>7, <1>9, <1>24, <1>28, <1>30

\* DailyInv is inductive beside the type, claim, log and clock invariants.
LEMMA StepKeepsDay ==
    ASSUME ConstantsAssumption, IsFiniteSet(Calls), TypeOK, TypeOK', ClaimInv, LogInv,
           ClocksBehind, DailyInv, [Next]_vars
    PROVE  DailyInv'
  <1>1. EntriesKept
    BY StepKeepsEntries
  <1>2. ASSUME NEW c \in Calls, RowInserted(c) PROVE DailyInv'
    BY <1>1, <1>2, ClaimKeepsDay
  <1>3. ASSUME NEW c \in Calls, NEW est \in HoldEstimates, Admitted(c, est)
        PROVE  DailyInv'
    BY <1>3, AdmissionKeepsDay
  <1>4. CASE HoldsOnlyGo /\ RowsOnlySettle
    BY <1>1, <1>4, SettlingKeepsDay
  <1>. QED
    BY <1>2, <1>3, <1>4, StepHolds, StepRows

\* A usage log is written when its call has run, and rows, claims and selected
\* orphans are of calls that have one.
LEMMA LogInvariant == Spec => [](TypeOK /\ LogInv)
  <1>1. Init => TypeOK /\ LogInv
    <2>1. Init => LogInv
      BY DEF Init, LogInv, NoLog, NoUsageRow, IdleSweeper
    <2>. QED
      BY <2>1, InitTypes
  <1>2. TypeOK /\ LogInv /\ [Next]_vars => (TypeOK /\ LogInv)'
    BY StepTypes, StepKeepsLogs, ConstantsAssumption
  <1>. QED
    BY <1>1, <1>2, PTL DEF Spec

\* While every claim and every debit has been covered by the live hold of its
\* call, and no cost has been corrected, a day's charges and what is reserved
\* for calls still to be charged stay within the daily cap - across midnight,
\* and for requests whose time is of the day before.
THEOREM DailyCapKept ==
    ASSUME IsFiniteSet(Calls), SettleLag <= Grace
    PROVE  Spec => []DailyCapHolds
  <1>1. Init => DailyInv
    <2>1. SUFFICES ASSUME Init, DailyCap # Null
                   PROVE  DailyCharged(clock) + SumFunctionOnSet(Estimates, ToBeCharged)
                              <= DailyCap
      BY DEF DailyInv
    <2>2. /\ UsedSince(StartOfDay(clock)) = {}
          /\ AdjustedSince(StartOfDay(clock)) = {}
          /\ ToBeCharged = {}
      BY <2>1 DEF Init, UsedSince, AdjustedSince, ToBeCharged, ActiveHolds,
                  NoUsageRow, NoCorrection, NoHold
    <2>3. SumFunctionOnSet(Charges, {}) = 0 /\ SumFunctionOnSet(Deltas, {}) = 0
          /\ SumFunctionOnSet(Estimates, {}) = 0
      BY SumEmpty
    <2>4. DailyCharged(clock) = 0
      BY <2>2, <2>3 DEF DailyCharged, Greater
    <2>5. 0 <= DailyCap
      BY <2>1, ConstantsAssumption DEF ConstantsAssumption
    <2>. QED
      BY <2>2, <2>3, <2>4, <2>5
  <1>2. /\ TypeOK /\ TypeOK' /\ ClaimInv /\ LogInv /\ ClocksBehind /\ DailyInv
        /\ [Next]_vars
        => DailyInv'
    BY StepKeepsDay, ConstantsAssumption
  <1>3. DailyInv => DailyCapHolds
    BY DEF DailyInv, DailyCapHolds, NoCorrections, ToBeCharged
  <1>. QED
    BY <1>1, <1>2, <1>3, ClaimInvariant, LogInvariant, ClockInvariant, PTL DEF Spec

(***************************************************************************)
(* The books are those of the ledger's rows                                *)
(***************************************************************************)
\* What the rows say has been charged and credited.
ChargedByRows == SumFunctionOnSet(Charges, Applied) + SumFunctionOnSet(Deltas, Raised)
GrantedByRows ==
    Allowance * (gateGrants.rows + Cardinality(credited \cap Invoices))
        + PackCents * Cardinality(credited \cap Packs)
RefundedByRows == SumFunctionOnSet(Refunds, Refunded)

\* Made inductive: only a correction that is made has moved the balance.
RowsInv ==
    /\ books.charged = ChargedByRows
    /\ books.credits = GrantedByRows + RefundedByRows
    /\ \A c \in Calls : correction[c].moved => correction[c].made
    /\ IsFiniteSet(credited)

\* Corrections are whole numbers of millicents, refunds of cents.
LEMMA DeltasInt ==
    ASSUME TypeOK
    PROVE  \A c \in Calls : /\ Deltas[c] = correction[c].deltaMc /\ Deltas[c] \in Int
                            /\ Refunds[c] = RefundCents(Deltas[c]) /\ Refunds[c] \in Int
  <1>1. ASSUME NEW c \in Calls
        PROVE  /\ Deltas[c] = correction[c].deltaMc /\ Deltas[c] \in Int
               /\ Refunds[c] = RefundCents(Deltas[c]) /\ Refunds[c] \in Int
    <2>1. Deltas[c] = correction[c].deltaMc /\ correction[c].deltaMc \in Int
      BY DEF TypeOK, Corrections, Deltas
    <2>2. PICK d \in Int : d = Deltas[c]
      BY <2>1
    <2>3. RefundCents(d) \in Int
      BY DEF RefundCents, RoundDiv
    <2>4. Refunds[c] = RefundCents(Deltas[c])
      BY DEF Refunds
    <2>. QED
      BY <2>1, <2>2, <2>3, <2>4
  <1>. QED
    BY <1>1

\* The sums of the rows are integers.
LEMMA RowSumsInt ==
    ASSUME ConstantsAssumption, IsFiniteSet(Calls), TypeOK
    PROVE  /\ SumFunctionOnSet(Charges, Applied) \in Int
           /\ SumFunctionOnSet(Deltas, Raised) \in Int
           /\ RefundedByRows \in Int
  <1>1. /\ Applied \in SUBSET Calls /\ Raised \in SUBSET Calls
        /\ Refunded \in SUBSET Calls
    BY DEF Applied, Raised, Refunded
  <1>2. IsFiniteSet(Applied) /\ IsFiniteSet(Raised) /\ IsFiniteSet(Refunded)
    BY <1>1, FS_Subset
  <1>3. /\ \A c \in Applied : Charges[c] \in Int
        /\ \A c \in Raised : Deltas[c] \in Int
        /\ \A c \in Refunded : Refunds[c] \in Int
    BY <1>1, ChargesNat, DeltasInt
  <1>4. SumFunctionOnSet(Charges, Applied) \in Int
    BY <1>2, <1>3, SumInt
  <1>5. SumFunctionOnSet(Deltas, Raised) \in Int
    BY <1>2, <1>3, SumInt
  <1>6. SumFunctionOnSet(Refunds, Refunded) \in Int
    BY <1>2, <1>3, SumInt
  <1>. QED
    BY <1>4, <1>5, <1>6 DEF RefundedByRows

\* The rows that are drawn, and what they cost, stay.
SameDraws ==
    /\ Applied' = Applied
    /\ \A c \in Applied : usageLog'[c].cost = usageLog[c].cost

LEMMA SameDrawsSame ==
    ASSUME ConstantsAssumption, IsFiniteSet(Calls), TypeOK, SameDraws
    PROVE  SumFunctionOnSet(Charges', Applied') = SumFunctionOnSet(Charges, Applied)
  <1>1. PICK D : D = Applied
    OBVIOUS
  <1>2. PICK f : f = Charges
    OBVIOUS
  <1>3. PICK g : g = Charges'
    OBVIOUS
  <1>4. D \in SUBSET Calls
    BY <1>1 DEF Applied
  <1>5. IsFiniteSet(D)
    BY <1>4, FS_Subset
  <1>6. \A c \in D : g[c] = f[c]
    BY <1>1, <1>2, <1>3, <1>4 DEF SameDraws, Charges, Charge
  <1>7. SumFunctionOnSet(g, D) = SumFunctionOnSet(f, D)
    BY <1>5, <1>6, SumSame
  <1>. QED
    BY <1>1, <1>2, <1>3, <1>7 DEF SameDraws

\* A settlement adds its charge to the rows that are drawn.
LEMMA SettlementAdds ==
    ASSUME ConstantsAssumption, IsFiniteSet(Calls), TypeOK, NEW c \in Calls,
           usageRow[c].status = "pending", usageLog' = usageLog,
           usageRow' = [usageRow EXCEPT ![c].status = "applied"]
    PROVE  SumFunctionOnSet(Charges', Applied')
               = Charge(c) + SumFunctionOnSet(Charges, Applied)
  <1>1. PICK D : D = Applied
    OBVIOUS
  <1>2. PICK f : f = Charges
    OBVIOUS
  <1>3. Charges' = f
    BY <1>2 DEF Charges, Charge
  <1>4. D \in SUBSET Calls /\ c \notin D
    BY <1>1 DEF Applied
  <1>5. IsFiniteSet(D)
    BY <1>4, FS_Subset
  <1>6. \A d \in Calls : f[d] = Charge(d) /\ f[d] \in Int
    BY <1>2, ChargesNat
  <1>7. SumFunctionOnSet(f, D \cup {c}) = f[c] + SumFunctionOnSet(f, D)
    BY <1>4, <1>5, <1>6, SumAdd
  <1>8. Applied' = D \cup {c}
    BY <1>1 DEF Applied, TypeOK, UsageRows
  <1>. QED
    BY <1>1, <1>2, <1>3, <1>6, <1>7, <1>8

\* A correction adds its delta to the rows that are raised, or what it pays
\* back to those that are refunded; one that moves nothing adds nothing.
LEMMA CorrectionAdds ==
    ASSUME ConstantsAssumption, IsFiniteSet(Calls), TypeOK, NEW c \in Calls,
           ~ correction[c].moved, NEW x \in Corrections,
           correction' = [correction EXCEPT ![c] = x]
    PROVE  /\ SumFunctionOnSet(Deltas', Raised') = SumFunctionOnSet(Deltas, Raised)
                  + (IF x.moved /\ x.deltaMc > 0 THEN x.deltaMc ELSE 0)
           /\ RefundedByRows' = RefundedByRows
                  + (IF x.moved /\ x.deltaMc < 0 THEN RefundCents(x.deltaMc) ELSE 0)
  <1>1. PICK delta \in Int : delta = x.deltaMc
    BY DEF Corrections
  <1>2. PICK cents \in Int : cents = RefundCents(delta)
    BY DEF RefundCents, RoundDiv
  <1>3. correction'[c] = x /\ \A d \in Calls \ {c} : correction'[d] = correction[d]
    BY DEF TypeOK
  <1>4. PICK f : f = Deltas
    OBVIOUS
  <1>5. PICK g : g = Deltas'
    OBVIOUS
  <1>6. PICK h : h = Refunds
    OBVIOUS
  <1>7. PICK k : k = Refunds'
    OBVIOUS
  <1>8. PICK R : R = Raised
    OBVIOUS
  <1>9. PICK F : F = Refunded
    OBVIOUS
  <1>10. /\ \A d \in Calls : f[d] \in Int /\ h[d] \in Int
         /\ \A d \in Calls : f[d] = correction[d].deltaMc /\ h[d] = RefundCents(f[d])
    BY <1>4, <1>6, DeltasInt
  <1>11. /\ \A d \in Calls : g[d] = correction'[d].deltaMc
         /\ \A d \in Calls : k[d] = RefundCents(g[d])
    BY <1>5, <1>7 DEF Deltas, Refunds
  <1>12. /\ g[c] = delta /\ k[c] = cents
         /\ \A d \in Calls \ {c} : g[d] = f[d] /\ k[d] = h[d]
    BY <1>1, <1>2, <1>3, <1>10, <1>11
  <1>13. R \in SUBSET (Calls \ {c}) /\ F \in SUBSET (Calls \ {c})
    BY <1>8, <1>9 DEF Raised, Refunded
  <1>14. Calls \ {c} \in SUBSET Calls
    OBVIOUS
  <1>15. IsFiniteSet(Calls \ {c})
    BY <1>14, FS_Subset
  <1>16. IsFiniteSet(R) /\ IsFiniteSet(F)
    BY <1>13, <1>15, FS_Subset
  <1>17. /\ \A d \in R : f[d] \in Int /\ g[d] = f[d]
         /\ \A d \in F : h[d] \in Int /\ k[d] = h[d]
    BY <1>10, <1>12, <1>13
  <1>18. SumFunctionOnSet(g, R) = SumFunctionOnSet(f, R)
    BY <1>16, <1>17, SumSame
  <1>19. SumFunctionOnSet(k, F) = SumFunctionOnSet(h, F)
    BY <1>16, <1>17, SumSame
  <1>20. c \notin R /\ c \notin F /\ g[c] \in Int /\ k[c] \in Int
    BY <1>12, <1>13
  <1>21. SumFunctionOnSet(g, R \cup {c}) = delta + SumFunctionOnSet(f, R)
    BY <1>12, <1>16, <1>17, <1>20, SumGrows
  <1>22. SumFunctionOnSet(k, F \cup {c}) = cents + SumFunctionOnSet(h, F)
    BY <1>12, <1>16, <1>17, <1>20, SumGrows
  <1>23. SumFunctionOnSet(f, R) \in Int
    BY <1>16, <1>17, SumInt
  <1>24. SumFunctionOnSet(h, F) \in Int
    BY <1>16, <1>17, SumInt
  <1>25. \A d \in Calls : /\ d \in R <=> correction[d].moved /\ f[d] > 0
                          /\ d \in F <=> correction[d].moved /\ f[d] < 0
                          /\ d \in Raised' <=> correction'[d].moved /\ g[d] > 0
                          /\ d \in Refunded' <=> correction'[d].moved /\ g[d] < 0
    BY <1>4, <1>5, <1>8, <1>9 DEF Raised, Refunded
  <1>26. Raised' \in SUBSET Calls /\ Refunded' \in SUBSET Calls
    BY DEF Raised, Refunded
  <1>27. Raised' = IF x.moved /\ delta > 0 THEN R \cup {c} ELSE R
    BY <1>3, <1>12, <1>13, <1>25, <1>26
  <1>28. Refunded' = IF x.moved /\ delta < 0 THEN F \cup {c} ELSE F
    BY <1>3, <1>12, <1>13, <1>25, <1>26
  <1>29. SumFunctionOnSet(Deltas', Raised') = SumFunctionOnSet(f, R)
             + (IF x.moved /\ delta > 0 THEN delta ELSE 0)
    BY <1>5, <1>18, <1>21, <1>23, <1>27
  <1>30. SumFunctionOnSet(Refunds', Refunded') = SumFunctionOnSet(h, F)
             + (IF x.moved /\ delta < 0 THEN cents ELSE 0)
    BY <1>7, <1>19, <1>22, <1>24, <1>28
  <1>. QED
    BY <1>1, <1>2, <1>4, <1>6, <1>8, <1>9, <1>29, <1>30 DEF RefundedByRows

\* What each kind of booking does to the two totals.
LEMMA DebitBooked ==
    ASSUME TypeOK, NEW b, NEW mc, BookDebit(b, mc)
    PROVE  books'.charged = books.charged + mc /\ books'.credits = books.credits
  BY DEF BookDebit, TypeOK, Books

LEMMA PaymentBooked ==
    ASSUME TypeOK, NEW b, NEW cents, BookPayment(b, cents)
    PROVE  books'.charged = books.charged /\ books'.credits = books.credits + cents
  BY DEF BookPayment, TypeOK, Books

LEMMA RefillBooked ==
    ASSUME TypeOK, NEW b, BookRefill(b)
    PROVE  books'.charged = books.charged /\ books'.credits = books.credits + Allowance
  BY DEF BookRefill, TypeOK, Books

\* What a step may do to the rows and the totals: nothing ...
RowsStill ==
    /\ SameDraws /\ UNCHANGED <<correction, credited>>
    /\ gateGrants'.rows = gateGrants.rows
    /\ books'.charged = books.charged /\ books'.credits = books.credits

\* ... draw a charge ...
RowsDraw(c) ==
    /\ usageRow[c].status = "pending"
    /\ usageRow' = [usageRow EXCEPT ![c].status = "applied"]
    /\ UNCHANGED <<usageLog, correction, credited, gateGrants>>
    /\ books'.charged = books.charged + Charge(c) /\ books'.credits = books.credits

\* ... insert a correction ...
RowsCorrect(c) ==
    /\ ~ correction[c].made
    /\ UNCHANGED <<usageRow, usageLog, credited, gateGrants>>
    /\ \E x \in Corrections :
          /\ x.made /\ correction' = [correction EXCEPT ![c] = x]
          /\ books'.charged = books.charged
                 + (IF x.moved /\ x.deltaMc > 0 THEN x.deltaMc ELSE 0)
          /\ books'.credits = books.credits
                 + (IF x.moved /\ x.deltaMc < 0 THEN RefundCents(x.deltaMc) ELSE 0)

\* ... grant an allowance, by the gate or by an invoice, or credit a pack.
RowsGate ==
    /\ UNCHANGED <<usageRow, usageLog, correction, credited>>
    /\ gateGrants'.rows = gateGrants.rows + 1
    /\ books'.charged = books.charged /\ books'.credits = books.credits + Allowance

RowsInvoice(ref) ==
    /\ UNCHANGED <<usageRow, usageLog, correction, gateGrants>>
    /\ ref \notin credited /\ credited' = credited \cup {ref}
    /\ books'.charged = books.charged /\ books'.credits = books.credits + Allowance

RowsPack(ref) ==
    /\ UNCHANGED <<usageRow, usageLog, correction, gateGrants>>
    /\ ref \notin credited /\ credited' = credited \cup {ref}
    /\ books'.charged = books.charged /\ books'.credits = books.credits + PackCents

\* Every step does one of these.  First the settlement of a pending row.
LEMMA SettlementRows ==
    ASSUME TypeOK, NEW c \in Calls, usageRow[c].status = "pending",
           DecrementAndSettle(c), UNCHANGED <<usageLog, correction, credited, gateGrants>>
    PROVE  RowsStill \/ RowsDraw(c)
  <1>1. CASE balance.exists
    BY <1>1, DebitBooked DEF DecrementAndSettle, RowsDraw
  <1>2. CASE ~ balance.exists
    BY <1>2 DEF DecrementAndSettle, RowsStill, SameDraws, Applied
  <1>. QED
    BY <1>1, <1>2

\* The insertion of a correction.
LEMMA CorrectionRows ==
    ASSUME TypeOK, NEW r \in Reconcilers, NEW c \in Calls, ApplyCorrection(r, c)
    PROVE  RowsStill \/ RowsCorrect(c)
  <1>1. PICK delta \in Int : delta = reconciler[r].deltaMc
    BY DEF TypeOK, ReconcilerStates
  <1>2. UNCHANGED <<usageRow, usageLog, credited, gateGrants>>
    BY DEF ApplyCorrection
  <1>3. CASE ~ Uncorrected(c)
    BY <1>2, <1>3 DEF ApplyCorrection, RowsStill, SameDraws, Applied
  <1>4. CASE Uncorrected(c)
    <2>1. PICK x : x = [made |-> TRUE, moved |-> balance.exists, at |-> clock,
                        deltaMc |-> delta]
      OBVIOUS
    <2>2. x \in Corrections /\ x.made /\ x.moved = balance.exists /\ x.deltaMc = delta
      BY <2>1 DEF TypeOK, Balances, Corrections
    <2>3. correction' = [correction EXCEPT ![c] = x]
      BY <1>1, <1>4, <2>1 DEF ApplyCorrection
    <2>4. books.charged \in Nat /\ books.credits \in Nat
      BY DEF TypeOK, Books
    <2>5. /\ books'.charged = books.charged
                 + (IF x.moved /\ delta > 0 THEN delta ELSE 0)
          /\ books'.credits = books.credits
                 + (IF x.moved /\ delta < 0 THEN RefundCents(delta) ELSE 0)
      <3>1. CASE ~ balance.exists
        <4>1. books' = books
          BY <1>4, <3>1 DEF ApplyCorrection
        <4>. QED
          BY <2>2, <2>4, <3>1, <4>1
      <3>2. CASE balance.exists
        <4>1. MoveDelta(delta)
          BY <1>1, <1>4, <3>2 DEF ApplyCorrection
        <4>2. CASE delta > 0
          <5>1. BookDebit(balance, delta)
            BY <4>1, <4>2 DEF MoveDelta
          <5>. QED
            BY <2>2, <2>4, <3>2, <4>2, <5>1, DebitBooked
        <4>3. CASE delta <= 0
          <5>1. BookPayment(balance, RefundCents(delta))
            BY <4>1, <4>3 DEF MoveDelta
          <5>2. PICK cents \in Int : cents = RefundCents(delta)
            BY DEF RefundCents, RoundDiv
          <5>3. delta = 0 => cents = 0
            BY <5>2 DEF RefundCents, RoundDiv
          <5>4. books'.charged = books.charged /\ books'.credits = books.credits + cents
            BY <5>1, <5>2, PaymentBooked
          <5>. QED
            BY <2>2, <2>4, <3>2, <4>3, <5>2, <5>3, <5>4
        <4>. QED
          BY <4>2, <4>3
      <3>. QED
        BY <3>1, <3>2
    <2>6. ~ correction[c].made
      BY <1>4 DEF Uncorrected
    <2>. QED
      BY <1>2, <2>2, <2>3, <2>5, <2>6 DEF RowsCorrect
  <1>. QED
    BY <1>3, <1>4

\* And all the others.
LEMMA StepAccounts ==
    ASSUME ConstantsAssumption, TypeOK, ClaimInv, LogInv, [Next]_vars
    PROVE  \/ RowsStill \/ RowsGate
           \/ \E c \in Calls : RowsDraw(c) \/ RowsCorrect(c)
           \/ \E ref \in Invoices : RowsInvoice(ref)
           \/ \E ref \in Packs : RowsPack(ref)
  <1>. DEFINE Goal == \/ RowsStill \/ RowsGate
                      \/ \E c \in Calls : RowsDraw(c) \/ RowsCorrect(c)
                      \/ \E ref \in Invoices : RowsInvoice(ref)
                      \/ \E ref \in Packs : RowsPack(ref)
  <1>. USE DEF dbVars, procVars, histVars
  <1>1. ASSUME UNCHANGED <<usageRow, usageLog, correction, credited, gateGrants, books>>
        PROVE  Goal
    BY <1>1 DEF RowsStill, SameDraws, Applied
  <1>2. ASSUME NEW c \in Calls, NEW row, usageRow' = [usageRow EXCEPT ![c] = row],
               usageRow[c].status # "applied", row.status # "applied",
               UNCHANGED <<usageLog, correction, credited, gateGrants, books>>
        PROVE  Goal
    <2>1. \A d \in Calls : usageRow'[d].status = "applied" <=> usageRow[d].status = "applied"
      BY <1>2 DEF TypeOK
    <2>2. SameDraws
      BY <1>2, <2>1 DEF SameDraws, Applied
    <2>. QED
      BY <1>2, <2>2 DEF RowsStill
  <1>3. ASSUME NEW c \in Calls, usageRow[c].status = "pending",
               usageRow' = [usageRow EXCEPT ![c].status = "skipped"],
               UNCHANGED <<usageLog, correction, credited, gateGrants, books>>
        PROVE  Goal
    <2>1. usageRow'[c].status = "skipped" /\ \A d \in Calls \ {c} : usageRow'[d] = usageRow[d]
      BY <1>3 DEF TypeOK, UsageRows
    <2>2. \A d \in Calls : usageRow'[d].status = "applied" <=> usageRow[d].status = "applied"
      BY <1>3, <2>1
    <2>3. SameDraws
      BY <1>3, <2>2 DEF SameDraws, Applied
    <2>. QED
      BY <1>3, <2>3 DEF RowsStill
  <1>4. ASSUME NEW c \in Calls, InsertUsageRow(c), usageRow[c].status = "none",
               UNCHANGED <<usageLog, correction, credited, gateGrants, books>>
        PROVE  Goal
    <2>1. PICK row : row = [status |-> "pending", at |-> clock]
      OBVIOUS
    <2>2. row.status = "pending" /\ usageRow' = [usageRow EXCEPT ![c] = row]
      BY <1>4, <2>1 DEF InsertUsageRow
    <2>. QED
      BY <1>2, <1>4, <2>2
  <1>5. ASSUME NEW c \in Calls, CallStep(c) PROVE Goal
    <2>1. CASE GateReset(c)
      <3>1. CASE MayReset(c)
        BY <2>1, <3>1, RefillBooked DEF GateReset, RecordGrant, RowsGate
      <3>. QED
        BY <1>1, <2>1, <3>1 DEF GateReset
    <2>2. CASE GateInit(c)
      <3>1. CASE ~ balance.exists
        <4>1. books'.charged = books.charged /\ books'.credits = books.credits + Allowance
          BY <2>2, <3>1 DEF GateInit, TypeOK, Books
        <4>. QED
          BY <2>2, <3>1, <4>1 DEF GateInit, RecordGrant, RowsGate
      <3>. QED
        BY <1>1, <2>2, <3>1 DEF GateInit
    <2>3. CASE WriteUsage(c)
      <3>1. usageRow[c].status = "none"
        BY <2>3 DEF WriteUsage, LogInv
      <3>2. \A d \in Calls \ {c} : usageLog'[d] = usageLog[d]
        BY <2>3 DEF WriteUsage, TypeOK
      <3>3. SameDraws
        BY <2>3, <3>1, <3>2 DEF WriteUsage, SameDraws, Applied
      <3>. QED
        BY <2>3, <3>3 DEF WriteUsage, RowsStill
    <2>4. CASE Claim(c)
      BY <1>1, <1>4, <2>4 DEF Claim
    <2>5. CASE SkipZeroCharge(c) \/ Settle(c)
      <3>1. usageRow[c].status = "pending"
        BY <2>5 DEF SkipZeroCharge, Settle, ClaimInv, ClaimsExclusive, ClaimInFlight
      <3>2. CASE SkipZeroCharge(c)
        BY <1>3, <3>1, <3>2 DEF SkipZeroCharge
      <3>3. CASE Settle(c)
        BY <3>1, <3>3, SettlementRows DEF Settle
      <3>. QED
        BY <2>5, <3>2, <3>3
    <2>. QED
      BY <1>1, <1>5, <2>1, <2>2, <2>3, <2>4, <2>5 DEF CallStep, GateStart, GateHold,
         StartUngated, FailTokenless, ReleaseSkipped, Crash
  <1>6. ASSUME NEW s \in Sweepers, BackfillStep(s) \/ FailBackfill(s) PROVE Goal
    <2>1. ASSUME NEW c \in Calls, RetryPending(s, c) PROVE Goal
      BY <1>1, <2>1, SettlementRows DEF RetryPending
    <2>2. ASSUME NEW c \in Calls, ClaimOrphan(s, c) PROVE Goal
      BY <1>1, <1>4, <2>2 DEF ClaimOrphan
    <2>3. ASSUME NEW c \in Calls, SettleOrphan(s, c) PROVE Goal
      <3>1. usageRow[c].status = "pending"
        BY <2>3 DEF SettleOrphan, ClaimInv, ClaimsExclusive, ClaimInFlight
      <3>. QED
        BY <1>3, <2>3, <3>1, SettlementRows DEF SettleOrphan
    <2>. QED
      BY <1>1, <1>6, <2>1, <2>2, <2>3 DEF BackfillStep, FailBackfill, CrashBackfill,
         SkipHolds, SkipRow, SweepHolds, SelectBacklog, EndBackfill
  <1>7. ASSUME NEW r \in Reconcilers, ReconcileStep(r) \/ CrashReconcile(r) PROVE Goal
    <2>1. ASSUME NEW c \in Calls, ApplyCorrection(r, c) PROVE Goal
      BY <2>1, CorrectionRows
    <2>2. ASSUME UNCHANGED <<usageRow, correction, credited, gateGrants, books>>
          PROVE  Goal
      <3>1. \A c \in Calls : usageLog'[c].cost = usageLog[c].cost
        BY <1>7, ReconcileKeepsCosts
      <3>. QED
        BY <2>2, <3>1 DEF RowsStill, SameDraws, Applied
    <2>. QED
      BY <1>7, <2>1, <2>2 DEF ReconcileStep, CrashReconcile, PickRow, CheckBase,
         FetchGeneration, MarkReconciled
  <1>8. ASSUME NEW ref \in Invoices, FundInvoice(ref) PROVE Goal
    BY <1>8, RefillBooked DEF FundInvoice, Uncredited, RowsInvoice
  <1>9. ASSUME NEW ref \in Packs, FundPack(ref) PROVE Goal
    BY <1>9, PaymentBooked DEF FundPack, Uncredited, RowsPack
  <1>10. CASE SubscriptionChange \/ Tick \/ UNCHANGED vars
    BY <1>1, <1>10 DEF SubscriptionChange, Tick, vars
  <1>. QED
    BY <1>5, <1>6, <1>7, <1>8, <1>9, <1>10 DEF Next

\* RowsInv of the next state, from the totals there.
LEMMA RowsNext ==
    ASSUME books'.charged = ChargedByRows', books'.credits = GrantedByRows' + RefundedByRows',
           \A c \in Calls : correction'[c].moved => correction'[c].made,
           IsFiniteSet(credited')
    PROVE  RowsInv'
  BY DEF RowsInv

\* Where the corrections stay, so do their sums.
LEMMA SameCorrectionSums ==
    ASSUME correction' = correction
    PROVE  /\ SumFunctionOnSet(Deltas', Raised') = SumFunctionOnSet(Deltas, Raised)
           /\ RefundedByRows' = RefundedByRows
  <1>1. Deltas' = Deltas
    BY DEF Deltas
  <1>2. Raised' = Raised /\ Refunded' = Refunded /\ Refunds' = Refunds
    BY <1>1 DEF Raised, Refunded, Refunds
  <1>. QED
    BY <1>1, <1>2 DEF RefundedByRows

\* Grants are whole cents.
LEMMA GrantedInt ==
    ASSUME ConstantsAssumption, TypeOK, IsFiniteSet(credited)
    PROVE  /\ GrantedByRows \in Int
           /\ Cardinality(credited \cap Invoices) \in Nat
           /\ Cardinality(credited \cap Packs) \in Nat
  <1>1. PICK I \in Nat : I = Cardinality(credited \cap Invoices)
    <2>1. credited \cap Invoices \in SUBSET credited
      OBVIOUS
    <2>. QED
      BY <2>1, FS_Subset, FS_CardinalityType
  <1>2. PICK P \in Nat : P = Cardinality(credited \cap Packs)
    <2>1. credited \cap Packs \in SUBSET credited
      OBVIOUS
    <2>. QED
      BY <2>1, FS_Subset, FS_CardinalityType
  <1>3. gateGrants.rows + I \in Nat
    BY DEF TypeOK
  <1>4. Allowance * (gateGrants.rows + I) \in Nat
    BY <1>3, ProductNat DEF ConstantsAssumption
  <1>5. PackCents * P \in Nat
    BY ProductNat DEF ConstantsAssumption
  <1>. QED
    BY <1>1, <1>2, <1>4, <1>5 DEF GrantedByRows

\* Crediting a reference of one of two disjoint kinds counts it once.
LEMMA CreditedCounts ==
    ASSUME IsFiniteSet(credited), NEW ref, ref \notin credited,
           credited' = credited \cup {ref}, NEW S, NEW T, ref \in S, ref \notin T
    PROVE  /\ Cardinality(credited' \cap S) = Cardinality(credited \cap S) + 1
           /\ Cardinality(credited' \cap T) = Cardinality(credited \cap T)
           /\ IsFiniteSet(credited')
  <1>1. PICK A : A = credited \cap S
    OBVIOUS
  <1>2. A \in SUBSET credited /\ ref \notin A
    BY <1>1
  <1>3. IsFiniteSet(A)
    BY <1>2, FS_Subset
  <1>4. Cardinality(A \cup {ref}) = Cardinality(A) + 1
    BY <1>2, <1>3, FS_AddElement
  <1>5. credited' \cap S = A \cup {ref} /\ credited' \cap T = credited \cap T
    BY <1>1
  <1>. QED
    BY <1>1, <1>4, <1>5, FS_AddElement

\* One more allowance.
LEMMA OneMoreProduct ==
    ASSUME NEW a \in Nat, NEW n \in Nat
    PROVE  a * (n + 1) = a * n + a
  OBVIOUS

\* RowsInv is inductive beside the type, claim and log invariants.
LEMMA StepKeepsRows ==
    ASSUME ConstantsAssumption, IsFiniteSet(Calls), Invoices \cap Packs = {},
           TypeOK, ClaimInv, LogInv, RowsInv, [Next]_vars
    PROVE  RowsInv'
  <1>1. /\ books.charged = ChargedByRows
        /\ books.credits = GrantedByRows + RefundedByRows
        /\ \A c \in Calls : correction[c].moved => correction[c].made
        /\ IsFiniteSet(credited)
    BY DEF RowsInv
  <1>2. PICK D \in Int : D = SumFunctionOnSet(Charges, Applied)
    BY RowSumsInt
  <1>3. PICK R \in Int : R = SumFunctionOnSet(Deltas, Raised)
    BY RowSumsInt
  <1>4. PICK F \in Int : F = RefundedByRows
    BY RowSumsInt
  <1>5. PICK G \in Int : G = GrantedByRows
    BY <1>1, GrantedInt
  <1>6. books.charged = D + R /\ books.credits = G + F
    BY <1>1, <1>2, <1>3, <1>4, <1>5 DEF ChargedByRows
  <1>7. ASSUME UNCHANGED <<usageRow, usageLog>>
        PROVE  SumFunctionOnSet(Charges', Applied') = D
    BY <1>2, <1>7, SameDrawsSame DEF SameDraws, Applied
  <1>8. ASSUME correction' = correction
        PROVE  /\ SumFunctionOnSet(Deltas', Raised') = R /\ RefundedByRows' = F
               /\ \A c \in Calls : correction'[c].moved => correction'[c].made
    BY <1>1, <1>3, <1>4, <1>8, SameCorrectionSums
  <1>9. ASSUME credited' = credited, gateGrants'.rows = gateGrants.rows
        PROVE  GrantedByRows' = G /\ IsFiniteSet(credited')
    BY <1>1, <1>5, <1>9 DEF GrantedByRows
  <1>10. CASE RowsStill
    <2>1. SumFunctionOnSet(Charges', Applied') = D
      BY <1>2, <1>10, SameDrawsSame DEF RowsStill
    <2>2. books'.charged = ChargedByRows'
      BY <1>6, <1>8, <1>10, <2>1 DEF RowsStill, ChargedByRows
    <2>3. books'.credits = GrantedByRows' + RefundedByRows'
      BY <1>6, <1>8, <1>9, <1>10 DEF RowsStill
    <2>. QED
      BY <1>8, <1>9, <1>10, <2>2, <2>3, RowsNext DEF RowsStill
  <1>11. ASSUME NEW c \in Calls, RowsDraw(c) PROVE RowsInv'
    <2>1. PICK mc \in Int : mc = Charge(c)
      BY ChargeNat DEF TypeOK
    <2>2. SumFunctionOnSet(Charges', Applied') = mc + D
      BY <1>2, <1>11, <2>1, SettlementAdds DEF RowsDraw
    <2>3. books'.charged = (D + R) + mc
      BY <1>6, <1>11, <2>1 DEF RowsDraw
    <2>4. books'.charged = ChargedByRows'
      BY <1>8, <1>11, <2>2, <2>3 DEF RowsDraw, ChargedByRows
    <2>5. books'.credits = GrantedByRows' + RefundedByRows'
      BY <1>6, <1>8, <1>9, <1>11 DEF RowsDraw
    <2>. QED
      BY <1>8, <1>9, <1>11, <2>4, <2>5, RowsNext DEF RowsDraw
  <1>12. ASSUME NEW c \in Calls, RowsCorrect(c) PROVE RowsInv'
    <2>1. PICK x \in Corrections :
              /\ x.made /\ correction' = [correction EXCEPT ![c] = x]
              /\ books'.charged = books.charged
                     + (IF x.moved /\ x.deltaMc > 0 THEN x.deltaMc ELSE 0)
              /\ books'.credits = books.credits
                     + (IF x.moved /\ x.deltaMc < 0 THEN RefundCents(x.deltaMc) ELSE 0)
      BY <1>12 DEF RowsCorrect
    <2>2. ~ correction[c].moved
      BY <1>1, <1>12 DEF RowsCorrect
    <2>3. PICK up \in Int : up = IF x.moved /\ x.deltaMc > 0 THEN x.deltaMc ELSE 0
      BY DEF Corrections
    <2>4. PICK back \in Int :
              back = IF x.moved /\ x.deltaMc < 0 THEN RefundCents(x.deltaMc) ELSE 0
      <3>1. PICK d \in Int : d = x.deltaMc
        BY DEF Corrections
      <3>2. RefundCents(d) \in Int
        BY DEF RefundCents, RoundDiv
      <3>. QED
        BY <3>1, <3>2
    <2>5. SumFunctionOnSet(Deltas', Raised') = R + up /\ RefundedByRows' = F + back
      BY <1>3, <1>4, <2>1, <2>2, <2>3, <2>4, CorrectionAdds
    <2>6. SumFunctionOnSet(Charges', Applied') = D
      BY <1>7, <1>12 DEF RowsCorrect
    <2>7. books'.charged = (D + R) + up /\ books'.credits = (G + F) + back
      BY <1>6, <2>1, <2>3, <2>4
    <2>8. books'.charged = ChargedByRows'
      BY <2>5, <2>6, <2>7 DEF ChargedByRows
    <2>9. GrantedByRows' = G /\ IsFiniteSet(credited')
      BY <1>9, <1>12 DEF RowsCorrect
    <2>10. books'.credits = GrantedByRows' + RefundedByRows'
      BY <2>5, <2>7, <2>9
    <2>11. \A d \in Calls : correction'[d].moved => correction'[d].made
      BY <1>1, <2>1 DEF TypeOK
    <2>. QED
      BY <2>8, <2>9, <2>10, <2>11, RowsNext
  <1>13. PICK A \in Nat : A = Allowance
    BY DEF ConstantsAssumption
  <1>14. PICK Q \in Nat : Q = PackCents
    BY DEF ConstantsAssumption
  <1>15. PICK I \in Nat : I = Cardinality(credited \cap Invoices)
    BY <1>1, GrantedInt
  <1>16. PICK P \in Nat : P = Cardinality(credited \cap Packs)
    BY <1>1, GrantedInt
  <1>17. PICK n \in Nat : n = gateGrants.rows
    BY DEF TypeOK
  <1>18. PICK u \in Int : u = A * (n + I)
    BY ProductNat
  <1>19. PICK v \in Int : v = Q * P
    BY ProductNat
  <1>20. G = u + v
    BY <1>5, <1>13, <1>14, <1>15, <1>16, <1>17, <1>18, <1>19 DEF GrantedByRows
  <1>21. A * ((n + I) + 1) = u + A /\ Q * (P + 1) = v + Q
    BY <1>18, <1>19, OneMoreProduct
  <1>22. ASSUME UNCHANGED <<usageRow, usageLog, correction>>,
                books'.charged = books.charged,
                NEW more \in Int, books'.credits = books.credits + more,
                GrantedByRows' = G + more, IsFiniteSet(credited')
         PROVE  RowsInv'
    <2>1. books'.charged = ChargedByRows'
      BY <1>6, <1>7, <1>8, <1>22 DEF ChargedByRows
    <2>2. books'.credits = GrantedByRows' + RefundedByRows'
      BY <1>6, <1>8, <1>22
    <2>. QED
      BY <1>8, <1>22, <2>1, <2>2, RowsNext
  <1>23. CASE RowsGate
    <2>1. GrantedByRows' = A * ((n + 1) + I) + v
      BY <1>13, <1>14, <1>15, <1>16, <1>17, <1>19, <1>23 DEF GrantedByRows, RowsGate
    <2>2. (n + 1) + I = (n + I) + 1
      OBVIOUS
    <2>3. GrantedByRows' = G + A
      BY <1>20, <1>21, <2>1, <2>2
    <2>. QED
      BY <1>1, <1>13, <1>22, <1>23, <2>3 DEF RowsGate
  <1>24. ASSUME NEW ref \in Invoices, RowsInvoice(ref) PROVE RowsInv'
    <2>1. ref \notin Packs
      OBVIOUS
    <2>2. /\ Cardinality(credited' \cap Invoices) = I + 1
          /\ Cardinality(credited' \cap Packs) = P
          /\ IsFiniteSet(credited')
      BY <1>1, <1>15, <1>16, <1>24, <2>1, CreditedCounts DEF RowsInvoice
    <2>3. GrantedByRows' = A * (n + (I + 1)) + v
      BY <1>13, <1>14, <1>17, <1>19, <1>24, <2>2 DEF GrantedByRows, RowsInvoice
    <2>4. n + (I + 1) = (n + I) + 1
      OBVIOUS
    <2>5. GrantedByRows' = G + A
      BY <1>20, <1>21, <2>3, <2>4
    <2>. QED
      BY <1>13, <1>22, <1>24, <2>2, <2>5 DEF RowsInvoice
  <1>25. ASSUME NEW ref \in Packs, RowsPack(ref) PROVE RowsInv'
    <2>1. ref \notin Invoices
      OBVIOUS
    <2>2. /\ Cardinality(credited' \cap Packs) = P + 1
          /\ Cardinality(credited' \cap Invoices) = I
          /\ IsFiniteSet(credited')
      BY <1>1, <1>15, <1>16, <1>25, <2>1, CreditedCounts DEF RowsPack
    <2>3. GrantedByRows' = u + Q * (P + 1)
      BY <1>13, <1>14, <1>17, <1>18, <1>25, <2>2 DEF GrantedByRows, RowsPack
    <2>4. GrantedByRows' = G + Q
      BY <1>20, <1>21, <2>3
    <2>. QED
      BY <1>14, <1>22, <1>25, <2>2, <2>4 DEF RowsPack
  <1>. QED
    BY <1>10, <1>11, <1>12, <1>23, <1>24, <1>25, StepAccounts

\* The running totals are those of the ledger's own rows: what has been charged
\* is the charges of the rows marked applied and the corrections that moved the
\* balance, what has been credited is the gate's grants, the paid invoices, the
\* packs and the refunds.  No call is drawn without its row or drawn twice, and
\* no payment is credited twice.
THEOREM LedgerExplains ==
    ASSUME IsFiniteSet(Calls), Invoices \cap Packs = {}, SettleLag <= Grace
    PROVE  Spec => []LedgerExplainsBooks
  <1>1. Init => RowsInv
    <2>1. SUFFICES ASSUME Init PROVE RowsInv
      OBVIOUS
    <2>2. Applied = {} /\ Raised = {} /\ Refunded = {}
      BY <2>1 DEF Init, NoUsageRow, NoCorrection, Applied, Raised, Refunded
    <2>3. /\ SumFunctionOnSet(Charges, {}) = 0 /\ SumFunctionOnSet(Deltas, {}) = 0
          /\ SumFunctionOnSet(Refunds, {}) = 0
      BY SumEmpty
    <2>4. ChargedByRows = 0 /\ RefundedByRows = 0
      BY <2>2, <2>3 DEF ChargedByRows, RefundedByRows
    <2>5. credited = {} /\ gateGrants.rows = 0
      BY <2>1 DEF Init
    <2>6. /\ IsFiniteSet(credited) /\ Cardinality(credited \cap Invoices) = 0
          /\ Cardinality(credited \cap Packs) = 0
      BY <2>5, FS_EmptySet
    <2>7. Allowance * (0 + 0) = 0 /\ PackCents * 0 = 0
      BY ConstantsAssumption DEF ConstantsAssumption
    <2>8. GrantedByRows = 0
      BY <2>5, <2>6, <2>7 DEF GrantedByRows
    <2>. QED
      BY <2>1, <2>4, <2>6, <2>8 DEF RowsInv, Init, NoCorrection
  <1>2. TypeOK /\ ClaimInv /\ LogInv /\ RowsInv /\ [Next]_vars => RowsInv'
    BY StepKeepsRows, ConstantsAssumption
  <1>3. RowsInv => LedgerExplainsBooks
    BY DEF RowsInv, LedgerExplainsBooks, ChargedByRows, GrantedByRows, RefundedByRows
  <1>. QED
    BY <1>1, <1>2, <1>3, ClaimInvariant, LogInvariant, PTL DEF Spec
==============================================================================
