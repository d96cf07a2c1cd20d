---------------------------- MODULE CreditLedger ----------------------------
(***************************************************************************)
(* The prepaid-credit account of ONE user: the rows of credit_balances,    *)
(* credit_ledger, credit_holds and ai_usage_logs that belong to the user,  *)
(* and the processes that read and write them concurrently:                *)
(*   - AI calls: gate (canConsumeAI), run, trackAIUsage, consumeCredits;   *)
(*   - Sweepers: overlapping runs of the credit backfill cron;             *)
(*   - Reconcilers: overlapping runs of the cost-reconcile cron;           *)
(*   - funding by paid invoices and credit packs (credit-funding).         *)
(* Every query and lock in this code is keyed by the user, so accounts do  *)
(* not interact and one account is the whole system.                       *)
(*                                                                         *)
(* A database transaction that locks the balance row FOR UPDATE is one     *)
(* action; what happens between two statements that are not in one         *)
(* transaction (a gate's stages, claim and settle, correct and mark) is    *)
(* open to every interleaving, to crashes and to the clock.                *)
(***************************************************************************)
EXTENDS CreditCore, FiniteSetsExt

CONSTANTS
    Calls,            \* AI calls; a call is also its aiUsageLogs id and its hold
    Ungated,          \* the calls that are background charges: no gate, no hold
    Invoices, Packs,  \* stripeRefs: paid invoices, and credit-pack checkouts
    Sweepers,         \* runs of backfillCredits that may overlap
    Reconcilers,      \* runs of reconcileOpenRouterCosts that may overlap
    Paid,             \* TRUE: a paid tier; FALSE: the free tier
    Allowance,        \* TIER_MONTHLY_ALLOWANCE_CENTS of the tier
    PackCents,        \* price of a credit pack
    ReserveFloor,     \* RESERVE_FLOOR_CENTS
    HoldEstimates,    \* per-call reservations a caller may ask for, in cents
    MaxInFlight,      \* cap on live holds, or Null
    DailyCap,         \* per-day charge ceiling in cents, or Null
    Costs,            \* real costs a call may have, in micro-dollars
    CostSources,      \* subset of {"estimate", "openrouter"}
    MarkupBps,        \* MARKUP_BPS
    TolCents, TolBps, \* COST_RECONCILE_TOLERANCE_*
    MaxAttempts,      \* COST_RECONCILE_MAX_ATTEMPTS
    HoldTTL,          \* CREDIT_HOLD_TTL_SECONDS
    Grace,            \* GRACE_MS of the backfill cron
    ReconcileGrace,   \* GRACE_MS of the cost-reconcile cron
    Period,           \* the length of a billing window
    InvoiceLags,      \* how late an invoice may land in the window it pays for
    DayLength,        \* the length of a UTC day
    SettleLag,        \* longest time a live process stays between claim and settle
    Horizon,          \* bound: no new call, log, claim, balance row,
                      \* funding or crash after this time
    MaxClock          \* bound: the clock stops here

ASSUME ConstantsAssumption ==
    /\ Ungated \subseteq Calls
    /\ Paid \in BOOLEAN
    /\ Allowance \in Nat /\ PackCents \in Nat /\ ReserveFloor \in Nat
    /\ HoldEstimates \subseteq Nat /\ Costs \subseteq Nat
    /\ MaxInFlight \in Nat \cup {Null} /\ DailyCap \in Nat \cup {Null}
    /\ CostSources \subseteq {"estimate", "openrouter"}
    /\ MarkupBps \in Nat /\ TolCents \in Nat /\ TolBps \in Nat
    /\ MaxAttempts \in Nat /\ HoldTTL \in Nat /\ Grace \in Nat
    /\ ReconcileGrace \in Nat /\ Period \in Nat /\ InvoiceLags \subseteq 0..Period
    /\ DayLength \in Nat \ {0} /\ SettleLag \in Nat
    /\ Horizon \in Nat /\ MaxClock \in Nat

VARIABLES
    \* database rows
    balance,     \* the credit_balances row
    subLive,     \* a renewal-capable subscription row exists
    usageLog,    \* aiUsageLogs, with its reconcileStatus and reconcileAttempts
    usageRow,    \* credit_ledger rows with entryType 'usage'
    correction,  \* credit_ledger adjustment rows keyed by reconcileGenerationKey
    holds,       \* credit_holds
    credited,    \* stripeRefs of the grant and purchase rows
    \* processes
    call, sweeper, reconciler, clock,
    \* history: what the rows above have meant for the account so far
    books,       \* running totals, in cents (charged: in millicents)
    settles,     \* how often each call's charge was drawn from the balance
    uncovered,   \* some debit was not covered by a live hold of its call
    gateGrants   \* the gate's monthly_grant rows: how many, the last one's period start

dbVars   == <<balance, subLive, usageLog, usageRow, correction, holds, credited>>
procVars == <<call, sweeper, reconciler, clock>>
histVars == <<books, settles, uncovered, gateGrants>>
vars     == <<dbVars, procVars, histVars>>

(***************************************************************************)
(* Rows                                                                    *)
(***************************************************************************)
NoHold       == [placed |-> FALSE, est |-> 0, expiresAt |-> 0]
NoLog        == [written |-> FALSE, at |-> 0, cost |-> 0,
                 reconcile |-> "none", attempts |-> 0]
NoUsageRow   == [status |-> "none", at |-> 0]
NoCorrection == [made |-> FALSE, moved |-> FALSE, at |-> 0, deltaMc |-> 0]
NoBalance    == [exists |-> FALSE, monthly |-> 0, topup |-> 0, debt |-> 0,
                 pending |-> 0, periodEnd |-> Null]

\* A row inserted with its column defaults: all zero, no period.
EnsureRow(b) == [b EXCEPT !.exists = TRUE]

IdleSweeper    == [pc |-> "idle", now |-> 0, retry |-> {}, orphans |-> {},
                   claimed |-> {}]
IdleReconciler == [pc |-> "idle", rows |-> {}, attempts |-> 0, deltaMc |-> 0]

Charge(c) == ChargeMillicents(usageLog[c].cost, MarkupBps)

Init ==
    /\ balance = NoBalance
    /\ subLive \in IF Paid THEN BOOLEAN ELSE {FALSE}
    /\ usageLog = [c \in Calls |-> NoLog]
    /\ usageRow = [c \in Calls |-> NoUsageRow]
    /\ correction = [c \in Calls |-> NoCorrection]
    /\ holds = [c \in Calls |-> NoHold]
    /\ credited = {}
    /\ call = [c \in Calls |-> [pc |-> "idle", now |-> 0]]
    /\ sweeper = [s \in Sweepers |-> IdleSweeper]
    /\ reconciler = [r \in Reconcilers |-> IdleReconciler]
    /\ clock = 0
    /\ books = [credits |-> 0, applied |-> 0, paidDebt |-> 0, forgiven |-> 0,
                charged |-> 0]
    /\ settles = [c \in Calls |-> 0]
    /\ uncovered = FALSE
    /\ gateGrants = [rows |-> 0, last |-> Null]

Goto(c, pc) == call' = [call EXCEPT ![c] = [pc |-> pc, now |-> 0]]
Step(c, pc) == call' = [call EXCEPT ![c].pc = pc]

(***************************************************************************)
(* The gate (canConsumeAI)                                                 *)
(***************************************************************************)
WindowExpired(b, now) == b.periodEnd = Null \/ b.periodEnd < now

\* Mutant of Refill: the debt that has been netted stays.
RefillKeepingDebt(b, end) ==
    [b EXCEPT !.monthly = ComputeMonthlyRefill(b.monthly, b.debt, Allowance),
              !.periodEnd = end]

\* Add an allowance to the balance, netting debt, and roll the window.
Refill(b, end) ==
    [b EXCEPT !.monthly = ComputeMonthlyRefill(b.monthly, b.debt, Allowance),
              !.debt = 0, !.periodEnd = end]

\* What a refill does to the running totals.
BookRefill(b) ==
    LET netted == Lesser(b.debt, b.monthly + Allowance)
    IN  books' = [books EXCEPT !.credits = @ + Allowance,
                               !.paidDebt = @ + netted,
                               !.forgiven = @ + (b.debt - netted)]

RecordGrant(c) ==
    gateGrants' = [rows |-> gateGrants.rows + 1, last |-> call[c].now]

\* The request arrives: take the time, read the balance without a lock, and
\* decide whether a reset or a lazy init is worth a transaction.
GateStart(c) ==
    /\ call[c].pc = "idle" /\ c \notin Ungated /\ clock <= Horizon
    /\ \E pc \in {"reset", "init", "hold"} :
          /\ pc = "init" <=> ~ balance.exists
          /\ pc = "reset" <=> /\ balance.exists
                              /\ WindowExpired(balance, clock)
                              /\ Paid => ~ subLive
          /\ call' = [call EXCEPT ![c] = [pc |-> pc, now |-> clock]]
    /\ UNCHANGED <<dbVars, sweeper, reconciler, clock, histVars>>

\* Mutant of MayReset: the window is not checked again under the lock.
MayResetAnyWindow(c) == balance.exists /\ (Paid => ~ subLive)

\* The reset transaction: everything is checked again under the row lock.
\* (The row is then read again; it exists, so there is nothing to init.)
\* The webhook may commit a subscription between this check and the commit,
\* without the row lock: it does not touch what the transaction writes, so
\* that is a SubscriptionChange right after this step.
MayReset(c) ==
    /\ balance.exists
    /\ WindowExpired(balance, call[c].now)
    /\ Paid => ~ subLive

GateReset(c) ==
    /\ call[c].pc = "reset"
    /\ \/ /\ MayReset(c)
          /\ balance' = Refill(balance, call[c].now + Period)
          /\ BookRefill(balance)
          /\ RecordGrant(c)
       \/ /\ ~ MayReset(c)
          /\ UNCHANGED <<balance, books, gateGrants>>
    /\ Step(c, "hold")
    /\ UNCHANGED <<subLive, usageLog, usageRow, correction, holds, credited,
                   sweeper, reconciler, clock, settles, uncovered>>

\* Lazy init: insert the row with the allowance unless it exists by now.
GateInit(c) ==
    /\ call[c].pc = "init" /\ clock <= Horizon
    /\ \/ /\ ~ balance.exists
          /\ balance' = [EnsureRow(balance) EXCEPT !.monthly = Allowance,
                                     !.periodEnd = call[c].now + Period]
          /\ books' = [books EXCEPT !.credits = @ + Allowance]
          /\ RecordGrant(c)
       \/ /\ balance.exists
          /\ UNCHANGED <<balance, books, gateGrants>>
    /\ Step(c, "hold")
    /\ UNCHANGED <<subLive, usageLog, usageRow, correction, holds, credited,
                   sweeper, reconciler, clock, settles, uncovered>>

\* Holds that still reserve spend at a given instant, and their sum.
ActiveHolds(now) == {c \in Calls : holds[c].placed /\ holds[c].expiresAt > now}
Estimates        == [c \in Calls |-> holds[c].est]
Reserved(now)    == SumFunctionOnSet(Estimates, ActiveHolds(now))

\* Cents charged since the start of the day (rows of any status count).
StartOfDay(now) == now - (now % DayLength)
Charges == [c \in Calls |-> Charge(c)]
Deltas  == [c \in Calls |-> correction[c].deltaMc]
UsedSince(start)     == {c \in Calls : usageRow[c].status # "none"
                                       /\ usageRow[c].at >= start}
AdjustedSince(start) == {c \in Calls : correction[c].made /\ correction[c].at >= start}
DailyCharged(now) ==
    Greater(0, SumFunctionOnSet(Charges, UsedSince(StartOfDay(now)))
             + SumFunctionOnSet(Deltas, AdjustedSince(StartOfDay(now)))) \div 1000

\* The authoritative decision, under the balance row lock, at the request's
\* own (possibly old) time.
Admits(c, est) ==
    LET now == call[c].now
    IN  /\ EvaluateGate(balance, ReserveFloor, Reserved(now), est,
                        Cardinality(ActiveHolds(now)), MaxInFlight) = "ok"
        /\ EvaluateDailyCap(DailyCharged(now) + Reserved(now), est, DailyCap)

PlaceHold(c, est) ==
    holds' = [holds EXCEPT ![c] = [placed |-> TRUE, est |-> est,
                                   expiresAt |-> call[c].now + HoldTTL]]

GateHold(c) ==
    /\ call[c].pc = "hold"
    /\ \E est \in HoldEstimates :
          \/ Admits(c, est) /\ PlaceHold(c, est) /\ Goto(c, "running")
          \/ ~ Admits(c, est) /\ Goto(c, "denied") /\ UNCHANGED holds
    /\ UNCHANGED <<balance, subLive, usageLog, usageRow, correction, credited,
                   sweeper, reconciler, clock, histVars>>

(***************************************************************************)
(* The call: run, track usage, claim, settle                               *)
(***************************************************************************)
\* A background charge (machine storage) is tracked without gate and hold.
StartUngated(c) ==
    /\ call[c].pc = "idle" /\ c \in Ungated
    /\ Goto(c, "running")
    /\ UNCHANGED <<dbVars, sweeper, reconciler, clock, histVars>>

\* The call failed before any token: nothing to bill, the hold is released.
FailTokenless(c) ==
    /\ call[c].pc = "running"
    /\ holds' = [holds EXCEPT ![c] = NoHold]
    /\ Goto(c, "done")
    /\ UNCHANGED <<balance, subLive, usageLog, usageRow, correction, credited,
                   sweeper, reconciler, clock, histVars>>

\* The call ends (or is cut off after burning tokens): write the usage log.
\* A real returned cost is marked for cost reconciliation, an estimate is not.
WriteUsage(c) ==
    /\ call[c].pc = "running" /\ clock <= Horizon
    /\ \E cost \in Costs, source \in CostSources :
          usageLog' = [usageLog EXCEPT ![c] =
              [written |-> TRUE, at |-> clock, cost |-> cost, attempts |-> 0,
               reconcile |-> IF source = "openrouter" THEN "pending" ELSE "none"]]
    /\ Goto(c, "logged")
    /\ UNCHANGED <<balance, subLive, usageRow, correction, holds, credited,
                   sweeper, reconciler, clock, histVars>>

InsertUsageRow(c) ==
    usageRow' = [usageRow EXCEPT ![c] = [status |-> "pending", at |-> clock]]

\* The idempotent claim: one usage row per call; a conflict ends consumeCredits.
Claim(c) ==
    /\ call[c].pc = "logged"
    /\ \/ /\ usageRow[c].status = "none" /\ clock <= Horizon
          /\ InsertUsageRow(c)
          /\ Goto(c, "claimed")
       \/ /\ usageRow[c].status # "none"
          /\ Goto(c, "done")
          /\ UNCHANGED usageRow
    /\ UNCHANGED <<balance, subLive, usageLog, correction, holds, credited,
                   sweeper, reconciler, clock, histVars>>

\* A zero charge is settled as 'skipped'; its hold goes in a second statement.
SkipZeroCharge(c) ==
    /\ call[c].pc = "claimed" /\ Charge(c) = 0
    /\ usageRow' = [usageRow EXCEPT ![c].status = "skipped"]
    /\ Goto(c, "skipped")
    /\ UNCHANGED <<balance, subLive, usageLog, correction, holds, credited,
                   sweeper, reconciler, clock, histVars>>

ReleaseSkipped(c) ==
    /\ call[c].pc = "skipped"
    /\ holds' = [holds EXCEPT ![c] = NoHold]
    /\ Goto(c, "done")
    /\ UNCHANGED <<balance, subLive, usageLog, usageRow, correction, credited,
                   sweeper, reconciler, clock, histVars>>

\* Draw a charge from a balance: sub-cent carry, monthly, top-up, then debt.
SpendFor(b, chargeMc) ==
    AllocateSpend(b.monthly, b.topup, AccruePending(b.pending, chargeMc).wholeCents)

Debit(b, chargeMc) ==
    [b EXCEPT !.monthly = SpendFor(b, chargeMc).monthly,
              !.topup   = SpendFor(b, chargeMc).topup,
              !.pending = AccruePending(b.pending, chargeMc).newPending,
              !.debt    = @ + SpendFor(b, chargeMc).shortfall]

BookDebit(b, chargeMc) ==
    books' = [books EXCEPT !.applied = @ + SpendFor(b, chargeMc).applied,
                           !.charged = @ + chargeMc]

\* The call still has a live reservation that is worth its charge.
Covered(c) ==
    /\ c \in ActiveHolds(clock)
    /\ Charge(c) <= 1000 * holds[c].est

\* decrementAndSettle: without a balance row nothing happens at all.  The
\* ledger row's status is not looked at again here.
DecrementAndSettle(c) ==
    \/ /\ balance.exists
       /\ balance' = Debit(balance, Charge(c))
       /\ BookDebit(balance, Charge(c))
       /\ usageRow' = [usageRow EXCEPT ![c].status = "applied"]
       /\ settles' = [settles EXCEPT ![c] = @ + 1]
       /\ uncovered' = (uncovered \/ ~ Covered(c))
    \/ /\ ~ balance.exists
       /\ UNCHANGED <<balance, books, usageRow, settles, uncovered>>

\* The live consumer settles its own claim and releases its hold with it.
Settle(c) ==
    /\ call[c].pc = "claimed" /\ Charge(c) # 0
    /\ DecrementAndSettle(c)
    /\ holds' = IF balance.exists THEN [holds EXCEPT ![c] = NoHold] ELSE holds
    /\ Goto(c, "done")
    /\ UNCHANGED <<subLive, usageLog, correction, credited,
                   sweeper, reconciler, clock, gateGrants>>

\* The process dies, or the statement fails and the error is swallowed: the
\* rows written so far stay, nobody continues this call.
Crash(c) ==
    /\ call[c].pc \in {"logged", "claimed", "skipped"}
    /\ Goto(c, "dead")
    /\ UNCHANGED <<dbVars, sweeper, reconciler, clock, histVars>>

(***************************************************************************)
(* The backfill cron (backfillCredits)                                     *)
(***************************************************************************)
\* Mutant of Expired: holds of calls that left no usage log are not swept.
ExpiredAndLogged(c) ==
    holds[c].placed /\ usageLog[c].written /\ holds[c].expiresAt < clock

Expired(c) == holds[c].placed /\ holds[c].expiresAt < clock

\* Holds past their expiry are swept first; the run's time is taken here.
SweepHolds(s) ==
    /\ sweeper[s].pc = "idle"
    /\ holds' = [c \in Calls |-> IF Expired(c) THEN NoHold ELSE holds[c]]
    /\ sweeper' = [sweeper EXCEPT ![s].pc = "select", ![s].now = clock]
    /\ UNCHANGED <<balance, subLive, usageLog, usageRow, correction, credited,
                   call, reconciler, clock, histVars>>

\* Mutant of Cutoff: the grace is forgotten.
NoGrace(s) == sweeper[s].now

Cutoff(s) == sweeper[s].now - Grace

\* Mutant of RetryRows: the query looks back one more grace only.
RecentRetryRows(cutoff) ==
    {c \in Calls : /\ usageRow[c].status = "pending"
                   /\ usageRow[c].at \in cutoff - Grace .. cutoff - 1}

\* The two queries: pending rows, and costed usage logs without a ledger row
\* of any type, both older than the grace.
RetryRows(cutoff) ==
    {c \in Calls : usageRow[c].status = "pending" /\ usageRow[c].at < cutoff}

OrphanLogs(cutoff) ==
    {c \in Calls : /\ usageLog[c].written /\ usageLog[c].cost > 0
                   /\ usageLog[c].at < cutoff
                   /\ usageRow[c].status = "none" /\ ~ correction[c].made}

SelectBacklog(s) ==
    /\ sweeper[s].pc = "select"
    /\ LET retry   == RetryRows(Cutoff(s))
           orphans == OrphanLogs(Cutoff(s))
       IN  sweeper' = [sweeper EXCEPT ![s] =
               IF retry \cup orphans = {} THEN IdleSweeper
               ELSE [IdleSweeper EXCEPT !.pc = "work", !.retry = retry,
                                        !.orphans = orphans]]
    /\ UNCHANGED <<dbVars, call, reconciler, clock, histVars>>

\* settlePendingLedgerRow: the row is locked and must still be pending.
RetryPending(s, c) ==
    /\ sweeper[s].pc = "work" /\ c \in sweeper[s].retry
    /\ sweeper' = [sweeper EXCEPT ![s].retry = @ \ {c}]
    /\ \/ usageRow[c].status = "pending" /\ DecrementAndSettle(c)
       \/ /\ usageRow[c].status # "pending"
          /\ UNCHANGED <<balance, books, usageRow, settles, uncovered>>
    /\ UNCHANGED <<subLive, usageLog, correction, holds, credited,
                   call, reconciler, clock, gateGrants>>

\* consumeCredits for an orphan, without a hold: first the claim ...
ClaimOrphan(s, c) ==
    /\ sweeper[s].pc = "work" /\ sweeper[s].retry = {}
    /\ sweeper[s].claimed = {} /\ c \in sweeper[s].orphans
    /\ \/ /\ usageRow[c].status = "none"
          /\ InsertUsageRow(c)
          /\ sweeper' = [sweeper EXCEPT ![s].orphans = @ \ {c},
                                        ![s].claimed = {c}]
       \/ /\ usageRow[c].status # "none"
          /\ sweeper' = [sweeper EXCEPT ![s].orphans = @ \ {c}]
          /\ UNCHANGED usageRow
    /\ UNCHANGED <<balance, subLive, usageLog, correction, holds, credited,
                   call, reconciler, clock, histVars>>

\* ... then the decrement (a charge that rounds to 0 is only marked skipped).
SettleOrphan(s, c) ==
    /\ c \in sweeper[s].claimed
    /\ sweeper' = [sweeper EXCEPT ![s].claimed = {}]
    /\ \/ Charge(c) # 0 /\ DecrementAndSettle(c)
       \/ /\ Charge(c) = 0
          /\ usageRow' = [usageRow EXCEPT ![c].status = "skipped"]
          /\ UNCHANGED <<balance, books, settles, uncovered>>
    /\ UNCHANGED <<subLive, usageLog, correction, holds, credited,
                   call, reconciler, clock, gateGrants>>

EndBackfill(s) ==
    /\ sweeper[s] = [IdleSweeper EXCEPT !.pc = "work"]
    /\ sweeper' = [sweeper EXCEPT ![s] = IdleSweeper]
    /\ UNCHANGED <<dbVars, call, reconciler, clock, histVars>>

\* Faults.  The run dies, or a statement of it fails and the error is swallowed:
\* the run goes on without the hold sweep, or without that one row.  What is
\* left undone is found again by a later run (bound: no fault so late that the
\* clock stops before that run).
CrashBackfill(s) ==
    /\ sweeper[s].pc = "work" /\ clock + Grace < MaxClock
    /\ sweeper' = [sweeper EXCEPT ![s] = IdleSweeper]
    /\ UNCHANGED <<dbVars, call, reconciler, clock, histVars>>

SkipHolds(s) ==
    /\ sweeper[s].pc = "idle" /\ clock + Grace < MaxClock
    /\ sweeper' = [sweeper EXCEPT ![s].pc = "select", ![s].now = clock]
    /\ UNCHANGED <<dbVars, call, reconciler, clock, histVars>>

SkipRow(s, c) ==
    /\ sweeper[s].pc = "work" /\ clock + Grace < MaxClock
    /\ c \in sweeper[s].retry \cup sweeper[s].orphans \cup sweeper[s].claimed
    /\ sweeper' = [sweeper EXCEPT ![s].retry = @ \ {c}, ![s].orphans = @ \ {c},
                                  ![s].claimed = @ \ {c}]
    /\ UNCHANGED <<dbVars, call, reconciler, clock, histVars>>

FailBackfill(s) ==
    CrashBackfill(s) \/ SkipHolds(s) \/ \E c \in Calls : SkipRow(s, c)

(***************************************************************************)
(* The cost-reconcile cron (reconcileOpenRouterCosts), one row at a time   *)
(***************************************************************************)
\* A row is read when the batch is, and handled later.
PickRow(r, c) ==
    /\ reconciler[r].pc = "idle"
    /\ usageLog[c].reconcile = "pending"
    /\ usageLog[c].at < clock - ReconcileGrace
    /\ usageLog[c].attempts < MaxAttempts
    /\ reconciler' = [reconciler EXCEPT ![r] =
           [IdleReconciler EXCEPT !.pc = "check", !.rows = {c},
                                  !.attempts = usageLog[c].attempts]]
    /\ UNCHANGED <<dbVars, call, sweeper, clock, histVars>>

LastAttempt(r) == reconciler[r].attempts + 1 >= MaxAttempts

\* Not resolved this time: one more attempt, or give up on the last.
Defer(r, c) ==
    /\ usageLog' = IF LastAttempt(r)
                   THEN [usageLog EXCEPT ![c].reconcile = "unavailable"]
                   ELSE [usageLog EXCEPT ![c].attempts = @ + 1]
    /\ reconciler' = [reconciler EXCEPT ![r] = IdleReconciler]

\* Mutant of HasUsageRow: the usage log is taken for the ledger row.
HasUsageLog(c) == usageLog[c].written

\* A call is never corrected before its base charge has a ledger row.
HasUsageRow(c) == usageRow[c].status # "none"

CheckBase(r, c) ==
    /\ reconciler[r].pc = "check" /\ c \in reconciler[r].rows
    /\ \/ /\ HasUsageRow(c)
          /\ reconciler' = [reconciler EXCEPT ![r].pc = "fetch"]
          /\ UNCHANGED usageLog
       \/ ~ HasUsageRow(c) /\ Defer(r, c)
    /\ UNCHANGED <<balance, subLive, usageRow, correction, holds, credited,
                   call, sweeper, clock, histVars>>

\* Ask for the authoritative cost: not available, close enough, or a drift.
FetchGeneration(r, c) ==
    /\ reconciler[r].pc = "fetch" /\ c \in reconciler[r].rows
    /\ \/ Defer(r, c)
       \/ \E auth \in Costs :
             LET drift == ComputeCostDrift(usageLog[c].cost, auth, TolCents,
                                           TolBps, MarkupBps)
             IN  /\ reconciler' = [reconciler EXCEPT
                        ![r].pc = IF drift.shouldCorrect THEN "correct" ELSE "mark",
                        ![r].deltaMc = IF drift.shouldCorrect THEN drift.deltaMc
                                       ELSE 0]
                 /\ UNCHANGED usageLog
    /\ UNCHANGED <<balance, subLive, usageRow, correction, holds, credited,
                   call, sweeper, clock, histVars>>

\* An overcharge comes back like a payment: debt first, then top-up.
RefundCents(deltaMc) == RoundDiv(- deltaMc, 1000)

Refund(b, cents) ==
    LET paid == ApplyPaymentToDebt(b.debt, b.topup, cents)
    IN  [b EXCEPT !.debt = paid.debt, !.topup = paid.topup]

BookPayment(b, cents) ==
    books' = [books EXCEPT
        !.credits = @ + cents,
        !.paidDebt = @ + ApplyPaymentToDebt(b.debt, b.topup, cents).paidDebt]

\* What a signed correction does to a balance row that is there.
MoveDelta(deltaMc) ==
    \/ /\ deltaMc > 0
       /\ balance' = Debit(balance, deltaMc)
       /\ BookDebit(balance, deltaMc)
       /\ uncovered' = TRUE
    \/ /\ deltaMc <= 0
       /\ balance' = Refund(balance, RefundCents(deltaMc))
       /\ BookPayment(balance, RefundCents(deltaMc))
       /\ UNCHANGED uncovered

\* Mutant of Uncorrected: the correction is not keyed by the call.
MayCorrectAgain(c) == HasUsageRow(c)

Uncorrected(c) == ~ correction[c].made

\* applyCorrection: claim the adjustment row, then move the balance, in one
\* transaction; a row that is there already changes nothing.
ApplyCorrection(r, c) ==
    /\ reconciler[r].pc = "correct" /\ c \in reconciler[r].rows
    /\ reconciler' = [reconciler EXCEPT ![r].pc = "mark", ![r].deltaMc = 0]
    /\ LET delta == reconciler[r].deltaMc
       IN  \/ /\ Uncorrected(c)
              /\ correction' = [correction EXCEPT ![c] =
                     [made |-> TRUE, moved |-> balance.exists, at |-> clock,
                      deltaMc |-> delta]]
              /\ \/ balance.exists /\ MoveDelta(delta)
                 \/ ~ balance.exists /\ UNCHANGED <<balance, books, uncovered>>
           \/ /\ ~ Uncorrected(c)
              /\ UNCHANGED <<balance, correction, books, uncovered>>
    /\ UNCHANGED <<subLive, usageLog, usageRow, holds, credited,
                   call, sweeper, clock, settles, gateGrants>>

MarkReconciled(r, c) ==
    /\ reconciler[r].pc = "mark" /\ c \in reconciler[r].rows
    /\ usageLog' = [usageLog EXCEPT ![c].reconcile = "reconciled"]
    /\ reconciler' = [reconciler EXCEPT ![r] = IdleReconciler]
    /\ UNCHANGED <<balance, subLive, usageRow, correction, holds, credited,
                   call, sweeper, clock, histVars>>

CrashReconcile(r) ==
    /\ reconciler[r].pc # "idle" /\ clock + ReconcileGrace < MaxClock
    /\ reconciler' = [reconciler EXCEPT ![r] = IdleReconciler]
    /\ UNCHANGED <<dbVars, call, sweeper, clock, histVars>>

(***************************************************************************)
(* Funding (credit-funding) and the rest of the world                      *)
(***************************************************************************)
\* Mutant of Uncredited: the entry is not keyed by the stripeRef.
AnyRef(ref) == ref \in Invoices \cup Packs

Uncredited(ref) == ref \notin credited

\* invoice.paid: the grant row is keyed by the invoice, so a redelivery that
\* finds it does nothing; otherwise ensure the row, lock it and refill.
FundInvoice(ref) ==
    /\ Uncredited(ref) /\ clock <= Horizon
    /\ credited' = credited \cup {ref}
    /\ \E lag \in InvoiceLags :
          balance' = Refill(EnsureRow(balance), clock + Period - lag)
    /\ BookRefill(balance)
    /\ UNCHANGED <<subLive, usageLog, usageRow, correction, holds, procVars,
                   settles, uncovered, gateGrants>>

\* A credit pack: debt first, the rest to the top-up bucket.  A row created
\* here has no billing window.
FundPack(ref) ==
    /\ Uncredited(ref) /\ clock <= Horizon
    /\ credited' = credited \cup {ref}
    /\ balance' = Refund(EnsureRow(balance), PackCents)
    /\ BookPayment(balance, PackCents)
    /\ UNCHANGED <<subLive, usageLog, usageRow, correction, holds, procVars,
                   settles, uncovered, gateGrants>>

\* customer.subscription.*: a renewal-capable row appears or goes away.
SubscriptionChange ==
    /\ Paid
    /\ subLive' = ~ subLive
    /\ UNCHANGED <<balance, usageLog, usageRow, correction, holds, credited,
                   procVars, histVars>>

\* Time passes.  A live process does not sit between claim and settle longer
\* than SettleLag: statements and lock waits time out, and then it has failed.
Prompt(c) == clock < usageRow[c].at + SettleLag

Tick ==
    /\ clock < MaxClock
    /\ \A c \in Calls : call[c].pc = "claimed" => Prompt(c)
    /\ \A s \in Sweepers : \A c \in sweeper[s].claimed : Prompt(c)
    /\ clock' = clock + 1
    /\ UNCHANGED <<dbVars, call, sweeper, reconciler, histVars>>

CallStep(c) ==
    \/ GateStart(c) \/ GateReset(c) \/ GateInit(c) \/ GateHold(c)
    \/ StartUngated(c) \/ FailTokenless(c) \/ WriteUsage(c) \/ Claim(c)
    \/ SkipZeroCharge(c) \/ ReleaseSkipped(c) \/ Settle(c) \/ Crash(c)

BackfillStep(s) ==
    \/ SweepHolds(s) \/ SelectBacklog(s) \/ EndBackfill(s)
    \/ \E c \in Calls : RetryPending(s, c) \/ ClaimOrphan(s, c) \/ SettleOrphan(s, c)

ReconcileStep(r) ==
    \E c \in Calls : \/ PickRow(r, c) \/ CheckBase(r, c) \/ FetchGeneration(r, c)
                     \/ ApplyCorrection(r, c) \/ MarkReconciled(r, c)

Next ==
    \/ \E c \in Calls : CallStep(c)
    \/ \E s \in Sweepers : BackfillStep(s) \/ FailBackfill(s)
    \/ \E r \in Reconcilers : ReconcileStep(r) \/ CrashReconcile(r)
    \/ \E ref \in Invoices : FundInvoice(ref)
    \/ \E ref \in Packs : FundPack(ref)
    \/ SubscriptionChange
    \/ Tick

Spec == Init /\ [][Next]_vars

(***************************************************************************)
(* Properties                                                              *)
(***************************************************************************)
Balances == [exists: BOOLEAN, monthly: Nat, topup: Nat, debt: Nat,
             pending: 0..999, periodEnd: Nat \cup {Null}]
UsageLogs == [written: BOOLEAN, at: Nat, cost: Nat, attempts: Nat,
              reconcile: {"none", "pending", "reconciled", "unavailable"}]
UsageRows == [status: {"none", "pending", "applied", "skipped"}, at: Nat]
Corrections == [made: BOOLEAN, moved: BOOLEAN, at: Nat, deltaMc: Int]
Holds == [placed: BOOLEAN, est: Nat, expiresAt: Nat]
CallPcs == {"idle", "reset", "init", "hold", "denied", "running", "logged",
            "claimed", "skipped", "done", "dead"}
CallStates == [pc: CallPcs, now: Nat]
SweeperStates == [pc: {"idle", "select", "work"}, now: Nat, retry: SUBSET Calls,
                  orphans: SUBSET Calls, claimed: SUBSET Calls]
ReconcilerStates == [pc: {"idle", "check", "fetch", "correct", "mark"},
                     rows: SUBSET Calls, attempts: Nat, deltaMc: Int]
Books == [credits: Nat, applied: Nat, paidDebt: Nat, forgiven: Nat, charged: Nat]

\* Every variable keeps its shape, and every amount the schema's CHECK
\* constraints bound is in its range (buckets, debt >= 0; 0 <= pending < 1000).
TypeOK ==
    /\ balance \in Balances
    /\ subLive \in BOOLEAN
    /\ usageLog \in [Calls -> UsageLogs]
    /\ usageRow \in [Calls -> UsageRows]
    /\ correction \in [Calls -> Corrections]
    /\ holds \in [Calls -> Holds]
    /\ credited \subseteq Invoices \cup Packs
    /\ call \in [Calls -> CallStates]
    /\ sweeper \in [Sweepers -> SweeperStates]
    /\ reconciler \in [Reconcilers -> ReconcilerStates]
    /\ clock \in Nat
    /\ books \in Books
    /\ settles \in [Calls -> Nat]
    /\ uncovered \in BOOLEAN
    /\ gateGrants \in [rows: Nat, last: Nat \cup {Null}]

\* Books balance: the buckets hold exactly what was credited, less what spend
\* drew from them and what went to pay off debt; and every millicent charged
\* was drawn, is owed, was paid off, was forgiven at a renewal, or is carried.
\* Lost updates, a charge dropped at a rounding, and a debt netted twice by a
\* refill racing a purchase all break it (credit-consume, credit-gate,
\* credit-funding, cost-reconcile).
BucketsBalance ==
    balance.monthly + balance.topup
        = books.credits - books.applied - books.paidDebt

ChargesBalance ==
    1000 * (books.applied + balance.debt + books.paidDebt + books.forgiven)
        + balance.pending = books.charged

BooksBalance == BucketsBalance /\ ChargesBalance

\* What the ledger's rows stand for: charges drawn, costs corrected upwards,
\* and costs refunded, with what a refund is worth.
Applied  == {c \in Calls : usageRow[c].status = "applied"}
Raised   == {c \in Calls : correction[c].moved /\ Deltas[c] > 0}
Refunded == {c \in Calls : correction[c].moved /\ Deltas[c] < 0}
Refunds  == [c \in Calls |-> RefundCents(Deltas[c])]

\* The totals are those of the ledger's own rows: charges of the rows marked
\* applied and of moved corrections; allowances, packs and refunds.  A call
\* drawn twice, or marked applied without a draw, breaks it, and so does a
\* payment credited twice (the two unique indexes of credit_ledger).
LedgerExplainsBooks ==
    /\ books.charged = SumFunctionOnSet(Charges, Applied)
                      + SumFunctionOnSet(Deltas, Raised)
    /\ books.credits =
          Allowance * (gateGrants.rows + Cardinality(credited \cap Invoices))
        + PackCents * Cardinality(credited \cap Packs)
        + SumFunctionOnSet(Refunds, Refunded)

\* Each AI call is billed at most once, and exactly once when its row says so,
\* whatever the live consumer, the retry sweep and the orphan sweep do.
BilledOnce ==
    \A c \in Calls : settles[c] = IF usageRow[c].status = "applied" THEN 1 ELSE 0

\* One process at a time is between the claim and the settlement of a call,
\* its row is pending until it settles, and no sweep takes the row over while
\* it is at it.  (With BilledOnce this is inductive if SettleLag <= Grace.)
ClaimInFlight(c) ==
    usageRow[c].status = "pending" /\ clock <= usageRow[c].at + SettleLag

ClaimsExclusive ==
    /\ \A c \in Calls : call[c].pc = "claimed" =>
           ClaimInFlight(c) /\ \A s \in Sweepers : c \notin sweeper[s].claimed
    /\ \A s \in Sweepers : \A c \in sweeper[s].claimed :
           /\ ClaimInFlight(c)
           /\ \A t \in Sweepers \ {s} : c \notin sweeper[t].claimed
    /\ \A s \in Sweepers : \A c \in sweeper[s].retry :
           usageRow[c].status # "none" /\ usageRow[c].at + Grace < clock
    /\ \A s \in Sweepers : sweeper[s].now <= clock

\* While every debit has been covered by the live hold of its own call, the
\* account stays solvent: it is out of debt and still holds, beyond everything
\* spent, what the live holds of unsettled calls have reserved.  This is what
\* the row lock and the holds are for: calls admitted concurrently cannot
\* together overshoot the balance.
HeldSpendIsFunded ==
    ~ uncovered =>
        /\ balance.debt = 0
        /\ balance.monthly + balance.topup
             >= SumFunctionOnSet(Estimates, ActiveHolds(clock) \ Applied)

\* The free tier's cap on concurrent calls is never exceeded by live holds,
\* however many gates decide at once and however old their clocks are.
InFlightCapHolds ==
    MaxInFlight # Null => Cardinality(ActiveHolds(clock)) <= MaxInFlight

\* While every claim and every debit has been covered by the live hold of its
\* call, and no cost has been corrected, a day's charges together with what is
\* reserved for calls that are still to be charged stay within the daily cap.
\* (A correction is a charge nobody reserved, or a refund that a gate whose time
\* is of the day before may count against that day alone.)
DailyCapHolds ==
    /\ DailyCap # Null /\ ~ uncovered
    /\ \A c \in Calls : ~ correction[c].made
    /\ \A c \in Calls : usageRow[c].status = "pending" => Covered(c)
    => DailyCharged(clock)
          + SumFunctionOnSet(Estimates, {c \in ActiveHolds(clock) :
                                            usageRow[c].status = "none"})
        <= DailyCap

\* Two grants made by a free account's gate (lazy init, periodic reset) are more
\* than a period apart: racing gates with old clocks never grant one window
\* twice.
GateGrantsApart ==
    [][gateGrants'.rows # gateGrants.rows =>
          gateGrants.last = Null \/ gateGrants'.last > gateGrants.last + Period]_vars

\* A correction never exists without its base charge: an adjustment row alone
\* would hide the call from the orphan sweep and leave it unbilled.
OrphansStayVisible ==
    \A c \in Calls : correction[c].made => usageRow[c].status # "none"

\* The ledger is append-only: a usage row never goes back to an earlier
\* status, and a correction or a credited payment is never undone.
LedgerAppendOnly ==
    [][/\ credited \subseteq credited'
       /\ \A c \in Calls :
            /\ correction[c].made => correction'[c] = correction[c]
            /\ usageRow[c].status \in {"applied", "skipped"} =>
                   usageRow'[c].status = usageRow[c].status]_vars

\* What packages/db/src/schema/credits.ts:12-13 says of debt: "FORGIVEN (zeroed)
\* at the next renewal so it never reduces next period's allowance".
RenewalForgivesDebt ==
    [][credited' \cap Invoices # credited \cap Invoices =>
          balance'.monthly >= balance.monthly + Allowance]_vars

\* What credit-gate.ts:443-445 says: "The gate still does NOT refill paid tiers ...
\* so there is no double-grant risk".  For a user whose subscription is live
\* throughout, allowances are credited at most once per invoice (the first of
\* them perhaps in advance).
NoDoubleGrant ==
    (Paid /\ []subLive) =>
        [](books.credits <= Allowance * Greater(1, Cardinality(credited \cap Invoices))
                            + PackCents * Cardinality(credited \cap Packs))

(***************************************************************************)
(* What the rows mean to the owner of the account (CreditAccount)          *)
(***************************************************************************)
NetMillicents(b) == 1000 * (b.monthly + b.topup - b.debt) - b.pending

Account == INSTANCE CreditAccount WITH
    Prices    <- {ChargeMillicents(cost, MarkupBps) : cost \in Costs},
    net       <- NetMillicents(balance),
    price     <- [c \in Calls |-> IF usageLog[c].written THEN Charge(c) ELSE -1],
    billed    <- Applied,
    corrected <- {c \in Calls : correction[c].made}

\* The account does what CreditAccount promises: calls, sweeps, corrections and
\* payments that interleave and crash still bill each call its price once,
\* correct it once, and credit each payment once and in full.
ImplementsAccount == Account!Spec

\* Debt appears only when both buckets are drained, and goes before a bucket
\* is filled: no account owes and owns at the same time.
DebtOnlyWhenDrained ==
    balance.debt > 0 => balance.monthly = 0 /\ balance.topup = 0

(***************************************************************************)
(* Fairness: the backfill runs again and again, the clock goes on, and a   *)
(* process between claim and settle finishes or fails (statement and lock  *)
(* timeouts).  Nothing else is assumed: calls may hang or die anywhere.    *)
(***************************************************************************)
Fairness ==
    /\ WF_vars(Tick)
    /\ \A s \in Sweepers : WF_vars(BackfillStep(s))
    /\ \A c \in Calls : WF_vars(SkipZeroCharge(c) \/ Settle(c) \/ Crash(c))

FairSpec == Spec /\ Fairness

\* Every call with a usage log and a balance to draw from is billed in the
\* end, whichever of its processes died where.
EventuallyBilled ==
    \A c \in Calls :
        usageLog[c].written /\ usageLog[c].cost > 0 /\ balance.exists
            ~> usageRow[c].status \in {"applied", "skipped"}

\* No reservation is for ever: every hold is released or swept.
HoldsReleased == \A c \in Calls : holds[c].placed ~> ~ holds[c].placed

\* What cost-reconcile.ts:241 says of a call that is never resolved: it drops to
\* 'unavailable'.  A row out of attempts is not left 'pending', for no run
\* selects it again.
NoStuckReconcile ==
    \A c \in Calls :
        usageLog[c].reconcile = "pending" => usageLog[c].attempts < MaxAttempts
=============================================================================
