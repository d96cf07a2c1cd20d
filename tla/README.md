# PageSpace: TLA+ models, checks and proofs

PageSpace is a collaborative workspace with AI agents: a Next.js application
(`apps/web`), background workers (`apps/processor`), a realtime server, a
control plane for hosted tenants, and shared libraries (`packages/lib`,
`packages/db`). This directory models its core logic in TLA+, checks the models
with TLC on small instances, and proves the most important results with TLAPS
for instances of every size.

Four subsystems are modelled, chosen where several processes meet in a database and
in nothing else, so that correctness rests on row locks, unique indexes, advisory
locks and the order of statements: exactly what unit tests with a mocked database
do not exercise.

- **Prepaid AI credits**, from the gate that admits a call to the Stripe webhook that
  funds the account (`CreditLedger`, `StripeWebhook`).
- **AI streams**: what becomes of a reply when its process dies (`StreamReap`), and
  how sends and Stops on several instances agree on who generates
  (`StreamTakeover`).
- **The audit trail**: two hash-chained logs and their delivery to a SIEM
  (`AuditTrail`).
- **Storage accounting**: files, charges, the reaper and the reconciles
  (`StorageUsage`).

## 1. The system's parts

| Part | Where | State | Operations | What is hard | What makes it correct |
|---|---|---|---|---|---|
| Credit decisions | `packages/lib/src/billing/credit-core.ts` | none | charge, carry, spend, refill, payment, gate, daily cap, drift | rounding, netting at the boundaries | no cent appears or disappears |
| Credit gate | `billing/credit-gate.ts` | `credit_balances`, `credit_holds`, grant rows | pre-check, periodic reset, lazy init, decide and reserve | concurrent requests with old clocks, stale pre-checks | reserved spend is funded, caps hold, one grant a period |
| Usage and settlement | `monitoring/ai-monitoring.ts`, `billing/credit-consume.ts` | `ai_usage_logs`, usage rows of `credit_ledger` | write log, claim, settle, skip, release | death between any two statements | each call is billed once, and in the end |
| Backfill cron | `billing/credit-backfill.ts` | none of its own | sweep holds, retry pending rows, bill orphan logs | races with live consumers and with itself | same |
| Cost reconcile cron | `billing/cost-reconcile.ts` | `reconcileStatus`, `reconcileAttempts`, adjustment rows | defer, fetch, correct, mark | overlapping runs, correction before the base charge | one correction per call, none without its charge |
| Funding | `billing/credit-funding.ts` | grant and purchase rows | refill by invoice, credit pack | redelivery, concurrent invoices | each payment is credited once, in full |
| Stripe webhook | `apps/web/src/app/api/stripe/webhook/` | `stripe_events` markers | claim, inspect, take over, handle, clean up, mark | at-least-once delivery, failed statements, deaths | no event is lost, none is handled twice at once |
| Subscription tiers | `billing/subscription-tier-*.ts` | `users.subscriptionTier`, `subscriptions` | sync on webhook, repair by cron | events out of order | the tier follows the subscriptions |
| Stripe customers | `apps/web/src/lib/stripe-customer.ts` | `users.stripeCustomerId` | get or create | concurrent creation | one customer per user |
| AI streams | `apps/web/src/lib/ai/core/` | `ai_stream_sessions`, frame log, `messages`, in-process registry, advisory lock | start, take over, beat, checkpoint, save, stop, mark, watch, judge, claim, recover, settle | several instances, paused owners, deaths between two writes | one generation per conversation; a live stream keeps its row, a dead one is recovered whole; a Stop is honest |
| OAuth tokens | `packages/lib/src/auth/oauth/`, `apps/web/src/lib/repositories/oauth-repository.ts` | codes, refresh families | exchange, rotate, revoke | concurrent refresh, replay after rotation | one live token per family |
| Audit chain | `packages/lib/src/audit/`, `packages/lib/src/monitoring/`, `apps/processor/src/` | two logs, ingest queue, delivery cursors, receipts | log, enqueue, chain, poll, check, deliver, commit | concurrent chainers, partial delivery, lost locks, clocks against lock order | no fork, no cursor past an undelivered row, no alarm without a cause |
| Uploads and quota | `packages/lib/src/services/storage-*.ts`, `apps/web/src/lib/storage/` | `files` rows, `storageUsedBytes`, advisory lock | complete, charge, delete, reap, credit, reconcile | a counter beside the rows, in other transactions | the counter is what the rows say, and comes back to it |
| Page content | `packages/lib/src/services/page-content-*.ts` | content files, locks | write, read, reclaim | reclaim racing a write | referenced content exists |
| Environments, sandboxes | `packages/lib/src/services/{agent-workspaces,drive-envs,app-hosting,sandbox}` | leases, external machines | provision, reconcile, bill storage | external failure | every machine is billed and reclaimed |
| Control plane | `apps/control-plane/src` | tenants | provision, upgrade, suspend | failure between two containers | tenants end in a known state |
| Limits and idempotency | `packages/lib/src/security/` | Postgres buckets, in-memory fallback | check, record | database down | limits hold per window |
| Live updates, clients | `credit-emit.ts`, `apps/realtime`, `apps/desktop`, `packages/cli`, `packages/sdk` | none that others rely on | notify, display | - | - |

How they interact. An AI request asks the **gate** for a hold, runs, writes a
**usage log**, **claims** a ledger row and **settles** it, which releases the
hold. Everything between two of these steps may be lost with the process; the
**backfill** cron finds what was left: expired holds, claimed rows that were never
settled, logs that were never claimed. The **cost reconcile** cron later asks the
provider for the authoritative price of a billed call and moves the difference.
Stripe tells the **webhook** about payments; the webhook hands them to
**funding**. All of them meet in one row per user, `credit_balances`, and in the
unique indexes of `credit_ledger`.

A **send** takes its conversation over under an advisory lock: it stops what is
generating there, in its own process through the registry, elsewhere by a mark on the
row that the owner's **watcher** reads, and inserts its row. The **generation** beats,
checkpoints and logs frames until it saves the reply; when it falls silent a
**reaper** (a takeover, a Stop or a reader of the active streams) claims the row,
recovers the reply from the longest record there is, and settles the row. Streams and
credits meet only in the call that a generation is.

Every action of a user leaves an **activity**, chained by the process that logs it,
and many a **security event**, queued and chained by a worker. The **delivery**
worker polls both, checks the links, sends, and moves its cursors. **Uploads**
insert a `files` row per content and charge its first uploader; the **reaper** deletes
rows nobody links to and credits them; the **reconciles** compare the two.

`PROJECT.json` lists the parts ("components"), the places where the code is hard
to test ("hazards", each with its line and the properties that cover it), and the
source lines that every definition stands for ("map").

## 2. The modules

| Module | What it is |
|---|---|
| `CreditCore` | the pure functions of `credit-core.ts`, in integer cents, millicents and micro-dollars |
| `CreditLedger` | one user's account and every process that touches it: gate, call, settlement, both crons, funding |
| `CreditAccount` | the abstract specification: one net amount; each call billed once, each payment credited once |
| `StripeWebhook` | markers, deliveries, failed statements and deaths of the webhook endpoint |
| `StreamReap` | one reply: its generation, its four records (memory, frame log, snapshot, message), and the reapers |
| `StreamTakeover` | one conversation: sends, Stops, registries, marks, watchers, pending intents, the lock |
| `AuditTrail` | both logs, their chains, the ingest queue, the chainers and the delivery runs |
| `StorageUsage` | files, charges, reaps and reconciles of all users |
| `MC...` | instances for TLC: symmetry sets, functions over model values |
| `SumTheorems` | proof: sums over finite sets (`SumFunctionOnSet`), which the ledger's and the storage's proofs cite |
| `CreditLedgerMoney` | proof: type correctness, conservation of money, debt only when drained |
| `CreditLedgerProofs` | proof: billed once, exclusive claims, append-only ledger, corrections have a base, one grant a period, the refinement of `CreditAccount`, both caps, funded holds, books explained by rows |
| `StreamReapProofs` | proof: types, one reaper, only silent rows are reaped, the owner has the last word, what is settled is saved, a healthy row is lost only to a late claim, what was durable at the claim is recovered |
| `StripeWebhookProofs` | proof: types, claims are a lease apart |
| `StreamTakeoverProofs` | proof: types, a terminal row is a stopped stream, one generation, honest Stops |
| `AuditTrailProofs` | proof: types, chains without forks, cursors that skip nothing, alarms with a cause, oldest first |
| `StorageUsageProofs` | proof: types, counters that are never negative, one reconcile at a time, accurate counters |

Operators whose comment begins with "Mutant of" are plausible bugs of the
operator they precede (a dropped guard, an off-by-one, a missing key). Nothing in
the specifications uses them: they show, one per property, that the property
would notice.

### CreditLedger

One account is the whole system: every query and every lock is keyed by the user.
The variables are the rows (`balance`, `subLive`, `usageLog`, `usageRow`,
`correction`, `holds`, `credited`), the processes (`call`, `sweeper`,
`reconciler`, with the program counters and the locals they carry across
statements), the `clock`, and history (`books`, `settles`, `uncovered`,
`gateGrants`) that records what happened without influencing it.

*Grain.* A transaction that takes the balance row `FOR UPDATE` is one action.
Statements that are not in one transaction are separate actions with everything
else in between: the gate's unlocked pre-check, its reset, its lazy init and its
decision; the usage log, the claim, the settlement; the zero-charge mark and the
release after it; a cron's selection and each of its rows; the base-charge check,
the fetch, the correction and the mark. The gate keeps the time it took at the
start (`call[c].now`), however late its transactions run.

*What an action is.* `GateStart`, `GateReset`, `GateInit`, `GateHold` are the four
stages of `canConsumeAI`. `WriteUsage`, `Claim`, `SkipZeroCharge`,
`ReleaseSkipped`, `Settle` follow `trackAIUsage` and `consumeCredits`;
`StartUngated` is a background charge without gate and hold (machine storage).
`DecrementAndSettle` is shared, as in the code, by the live consumer, the retry of
a pending row and the billing of an orphan. `Crash` leaves a call wherever it is.
`SweepHolds`, `SelectBacklog`, `RetryPending`, `ClaimOrphan`, `SettleOrphan`,
`EndBackfill` are `backfillCredits`, and `CrashBackfill`, `SkipHolds`, `SkipRow`
its `catch` blocks and its death. `PickRow`, `CheckBase`, `FetchGeneration`,
`ApplyCorrection`, `MarkReconciled`, `CrashReconcile` are
`reconcileOpenRouterCosts`. `FundInvoice` and `FundPack` are `applyStripeFunding`;
a redelivery finds the `stripeRef` in `credited` and changes nothing.
`SubscriptionChange` is what `handleSubscriptionChange` means to the gate.

*Simplifications, and why they are sound.*
- Passes and batches of the crons are successive runs. The two queries of a
  backfill pass are one action: a row that moves between them is found by neither
  or by both, and each is looked at again when it is handled.
- A reconcile run handles one row. It reads the attempt count when it picks it, as
  the batch does, and any other run may act in between.
- Inside the deciding transaction of the gate, the writers that do not take the
  balance row (a claim, the hold sweep, the release of a skipped call) can commit
  between two reads. A call counted both as a claim and as a hold is over-counted,
  which only makes the gate stricter.
- The reset's re-check of the subscription is not serialised with the webhook
  (`credit-gate.ts:291-292` says so). The webhook's write and the reset's commute, so
  that window is a `SubscriptionChange` right after `GateReset`.
- A call that fails before any token leaves a zero-cost log, which no query
  selects; it is left out. So are providers exempt from metering, deployments with
  billing off (with their daily ceiling), reconcile rows whose metadata lost its
  generation ids (they are marked skipped and never touched), and the purge of old
  usage logs.

### StripeWebhook

Each statement of the route on `stripeEvents` is one action, because they share no
transaction: insert, select, the guarded takeover, the delete of
`withFundingRetry`, the mark. What an event's handler does is one effect, which a
failing handler may or may not have committed. `Fault` is a failed statement or a
death, and `MaxFaults` says how many there are in all, so that a run can ask what
one fault can do and what two can.

### StreamReap

Variables: the session row (`row`), the durable frame log (`log`), the `messages` row
(`message`), the generating process (`owner`: program counter, frames in memory,
registry and lifecycle flags, the terminal write on its way), the materializations
(`reaper`, with what each has read), the `clock`, and the history `kept`. A reply is how
many frames of it a record holds. Every database statement is an action, because
none of them share a transaction: `Heartbeat`, `Checkpoint`, `Flush`,
`ExecuteEndSave`, `Refine`, `Rescue`, `LandFinish` for the owner, and `Judge`, `Claim`,
`Recover`, `Materialize`, `CheckRelease`, `Release`, `Settle` or `GiveUp` for a reaper.
`Stop` is the in-process abort, which finishes the stream before the reply is saved.
A healthy owner beats once in every unit of time; `MaxStalls` counts the units in
which it does not (a blocked event loop, a database that refuses the beat). `Local`
are the reapers in the owner's own process, where the registry of writers protects
the log.

Not modelled: an owner whose session row could not be inserted (nobody can find it),
replay to subscribers, retries of the model call, compaction.

`Stop` is enabled until `onFinish` begins: its first statement takes the entry out of the
registry (`page-chat-turn.ts:1968`), and whether the run was stopped is computed there
once. So it is not enabled in `settle`, which comes after.

Two history values tell the properties what the code does not keep: a judged reaper
remembers when it read the row (`claimedAt`, before it becomes the token), and a
claimant how long the longest durable record was at its claim (`owed`). No guard looks
at them. Nothing bounds the time between a sweep's read and its claim, and that matters:
the claim's `WHERE` repeats the staleness but not the cap, so a claim that comes late
enough takes a row that has become silent at the cap meanwhile, of which
`stream-liveness.ts` says that it proves nothing. `HealthyKeepsRow` says how late that is.

### StreamTakeover

Variables: the sends (`gen`: program counter, what the process keeps of the
takeover, the registry entry and its tombstone, the abort signal, the terminal write
on its way), their rows (`row`), the advisory `lock`, pending-abort intents
(`intent`), the watchers (`watching`, `seen`: one tick at a time per instance) and the
Stops (`stop`). `Register` to `Attach` follow `startChatGeneration`: lock or give
up, select, abort, wipe, mark, await, insert, consume an intent, place, attach.
`StopNamed` to `AwaitConversation` follow `abortStreamAnywhere`. A wait may time out
and a lock may be refused at any moment; `cold` marks a row for which nothing beats,
and how that is judged is `StreamReap`. `blind` records that a send was told of
something it could not see to (a failed statement, a lost lock session, a stream
still live when its wait ended): the code generates anyway, by intent, and
`OneGeneration` is about the others.

Not modelled: the sixty-minute eviction of registry entries and the lifetime of
tombstones; the commit race of a pending intent that `stream-lifecycle.ts` documents
(an intent that becomes visible after the send has looked): `StopIsHonest` is about the
streams that had a row when Stop was pressed.

### AuditTrail

Variables: the entries with their rows (`entry`), the two logs in chain order
(`log`), the chainers and their lock, the delivery `cursor`s, the `run`s with
their `lock`, what the SIEM has (`got`), what has a receipt (`attested`), the
`alarm`s. Entries are numbers, their order is that of their random ids; a hash is the
entry it belongs to. `Stamp` is apart from `LogActivity` and `Enqueue`, because the
code takes the timestamp before it waits for a lock or the queue. A delivery run is
one action per statement or request; `DeliverPart` is an attempt of which the
SIEM received a prefix and acknowledged a prefix of that. Nobody tampers in the model.

Not modelled: anchors and their publication, seeding and backfill of cursors and the
deferral that goes with it, genesis refusal, break-glass routing, recorded error
texts, an activity whose insert fails. The delivery worker, unlike the chainer,
returns a connection to its pool whose unlock has failed, so its lock can stay
taken until the connection is recycled; runs then do nothing, which is a run that
does not start.

### StorageUsage

Variables: the `files` rows with the pages that link to them (`file`), the uploads
(`upload`), the counters (`used`), the reaps (`reaper`), the reconciles
(`recon`) and their advisory `lock`. `Complete` is the transaction that inserts or
links; `Charge` is the separate statement after it. A reap finds, deletes under row
locks, and credits each row in a statement of its own. The cron reads counter and
rows of all users in one statement (`CronScan`), the administrator's reconcile in
three (`AdminRead`, `AdminRows`, `AdminLast`), and both add the difference. The
cooldown is a flag on the row: while an upload is between row and charge, or a
reconcile between its reads, no cooldown ends.

Not modelled: quota checks and slots (slots are rows, counted, with no counter that
could drift), blobs, presigned uploads, a reconcile whose lock session breaks.

## 3. What the runs check

All passing runs finish within five minutes with two workers.

| Run | Question | Properties |
|---|---|---|
| `gate_race` | three gated calls of a free account, two days, two windows | `HeldSpendIsFunded`, `InFlightCapHolds`, `DailyCapHolds`, `GateGrantsApart` |
| `overlapping_sweeps` | a gated and a background call, two backfill runs that overlap, fail and die | `TypeOK`, `BilledOnce` |
| `liveness` | processes die anywhere, and reconcile runs interfere; does the backfill repair everything? | `EventuallyBilled`, `HoldsReleased` |
| `account_refinement` | a paid account: subscription changes, an invoice, a pack, a backfill, two overlapping reconciles | `DebtOnlyWhenDrained`, `BooksBalance`, `OrphansStayVisible`, `LedgerExplainsBooks`, `ImplementsAccount` |
| `webhook` | three delivery slots, one fault anywhere | `TypeOK`, `ClaimsApart`, `EventuallyApplied` |
| `stream_reap` | one generation that may pause, fail, be stopped or die at any step, two reapers, one of them in its process | `TypeOK`, `OneReaper`, `OwnerHasLastWord`, `SettledMeansSaved`, `OnlySilentReaped`, `HealthyKeepsRow`, `RecoveryKeepsLongest`, `DeadIsRecovered` |
| `stream_takeover` | two members of a shared conversation send on two instances, one presses Stop, one fault | `TypeOK`, `OneGeneration`, `TerminalMeansStopped`, `StopIsHonest`, `MarkReaches`, `SendNeverBlocks` |
| `audit_chain` | an activity, two security events, two chainers, two delivery runs, one fault | `TypeOK`, `ChainLinear`, `CursorAttested`, `AlarmsHaveCause`, `OldestFirst`, `EventuallyDelivered` |
| `storage_usage` | two users, two contents, three uploads, a reap of both contents and one of the shared one, the cron, an administrator, one fault | `TypeOK`, `Accurate`, `EventuallyAccurate` |

The properties, briefly:
- `HeldSpendIsFunded`: as long as every debit was covered by its call's live hold,
  the account is out of debt and holds what the live holds of unsettled calls
  reserve. `DailyCapHolds` says it of the daily cap, and `InFlightCapHolds`, without
  the precondition, of the cap on concurrent calls. The precondition is needed: an
  estimate may be too low and a hold may expire under a running call, and then the code
  accrues debt by design. `DailyCapHolds` also asks that no call has been corrected: a
  correction upwards is a charge that nobody reserved, and a gate whose time is of the day
  before nets a refund with the charges of both days, where the others count it against
  the new day alone.
- `BooksBalance` and `LedgerExplainsBooks`: what is in the buckets is what was
  credited less what was drawn and paid off; what was charged was drawn, is owed,
  was paid off, was forgiven or is carried; and both are the sums of the ledger's
  own rows.
- `BilledOnce`: a call is drawn once if and only if its row says applied.
- `GateGrantsApart`: two grants by the gate are more than a period apart.
- `OrphansStayVisible`: no correction without its base charge.
- `ImplementsAccount`: the whole of it refines `CreditAccount` under
  `net = 1000 * (monthly + topup - debt) - pending`.
- `ClaimsApart`: without faults, two deliveries that process the same event
  claimed it at least a lease apart.
- `EventuallyApplied`: a funding event is applied in the end, although one statement
  fails or one delivery dies. With two faults, or for a subscription event, the code can
  lose it (see below).
- `OneReaper`, `OnlySilentReaped`: at most one reaper passes the fence, and a row that it
  settles has been silent for longer than `Stale` at that moment, however long ago the
  reaper read and claimed it. `HealthyKeepsRow`: until the
  backstop at twice the cap, an owner that has missed fewer beats than make it stale loses
  its row to no sweep that looked at it after its heartbeat ended at the cap, and to one
  that looked before only if the claim comes later than `Stale` after the cap. That case
  does happen, in the model and in the code.
- `OwnerHasLastWord`, `SettledMeansSaved`: no reaper replaces what the owner saved; a row
  that went terminal without a stop or a failed save has its reply.
  `RecoveryKeepsLongest`: what a reap writes is as long as the longest durable record there
  was at its claim, whoever was stopped, stalled or dead and whatever other reaps deleted.
  It says nothing of frames logged after the claim: an owner that stalls, is reaped, comes
  back, logs more and dies before it saves leaves the short text, because a
  terminal message is not written again. `DeadIsRecovered`: a dead process's row is settled
  with a terminal message.
- `OneGeneration`: two sends that had the lock and saw what they needed to see do not
  generate at once. `TerminalMeansStopped`: a row out of `streaming`, invisible to
  every client and every Stop, has no generation behind it. `StopIsHonest`: after
  `aborted` or `not_found` nothing of the caller's runs that ran when Stop was pressed.
  `MarkReaches`: a marked generation is stopped. `SendNeverBlocks`: a send gets past a
  lock holder that hangs.
- `ChainLinear`: no fork. `CursorAttested`: a cursor passes a row only with a receipt, and
  receipts only cover what arrived. `OldestFirst`: a batch leaves nothing older
  behind. `AlarmsHaveCause`: an alarm means a lost lock or rows out of order.
  `EventuallyDelivered`: what was accepted in order reaches the SIEM.
- `Accurate`: counter and rows agree up to what is on its way, for every user whom none
  of four races has met (a failed charge or credit; a reap of a row before its charge;
  a reap of a row that changed hands since it was found; a reconcile that read a
  half-done reap). `EventuallyAccurate`: after any of them the counter comes back.

*Bounds.* One to three calls suffice for the races, which are between two
processes and a third that makes the state stale; two sweepers and two reconcilers
overlap. `Horizon` stops new calls, logs, claims, funding and the like, so that what
remains is repair, and `MaxClock` stops time; both are far enough apart for a grace,
a lease or a hold to run out and a cron to come by. Allowances of a few cents,
holds of one or two, costs that round to nothing, to a fraction and to several cents
reach every branch of the arithmetic. In `stream_reap` the clock runs to the backstop
(`2 * Cap`) and past it, so that the cap-ambiguous silence, its end, a claim and the
claim's expiry all happen, and so does the late claim of a healthy row; one frame
suffices for a record to be empty, whole or behind. With `Stale = 1` a healthy owner of that
run misses no beat before it counts as stale; `HealthyKeepsRow` also held with `Stale = 2`,
`Cap = 4` and a missed beat (reapers only, not kept as a run), and the
theorem is for every `Stale`.
Two sends on two instances and one Stop make every race of `StreamTakeover` that is
between two of them and a watcher. In `audit_chain` batches of one make every
poll a backlogged one; the same invariants also held with two activities and two
events (10.8 million states, not kept as a run). In `storage_usage` the two users
share a content and one of them has a second one, so that a row changes hands and a
user's total is a sum. In `liveness`, `Horizon = 0`: all calls
begin at once, and die anywhere in the following repair phase.

*Fairness* (`FairSpec`). The clock goes on. The backfill runs again and again; that is
what `docker/cron/crontab` does (`reconcile-credits`, 84-88). Nothing is assumed of the
cost reconcile, whose route the crontab does not list: in `liveness` a reconcile run may
step in anywhere, with two attempts per row, or never. A process between claim and settle finishes or fails,
because statements and lock waits time out (`packages/db/src/db.ts:28-33`: 15 s and
5 s, against a grace of five minutes). No call is assumed to proceed: it may hang or
die everywhere else. For the webhook: a delivery being handled goes on or dies, and
Stripe redelivers until it gets a 2xx. A dead
stream is recovered if the clock goes on and reapers come by (the lists of active
streams are polled by clients); reapers themselves may die. In `StreamTakeover` only
the statements of the sends in `Prompt` return and the watchers tick (an interval in
every process that generates): generations need never end, and other sends may hang.
In `AuditTrail` both workers are scheduled and go on with what they began; writers
need not write. `StorageUsage` has one weak fairness condition over everything that
repairs, the weakest that excludes standing still. Deadlock is checked in `liveness`,
`overlapping_sweeps` and `webhook`, where crons and deliveries can always act; it is
off where everything may be over.

### What the code does that its comments deny

Three runs expect a violation:

| Run | What it shows |
|---|---|
| `late_settle` | A process suspended between claim and settle for longer than the backfill's grace bills the call a second time: `decrementAndSettle` does not look at the row's status again. The header of `credit-consume.ts` says at most once. `CallsBilledOnce` proves that this is the only way. |
| `ghost_placeholder` | A Stop turns the session row terminal at once, before the reply is saved. If the process dies in between, no reaper selects the row, and its message stays a `streaming` placeholder, where `stream-lifecycle.ts:672` says the content is already saved. |
| `false_tamper` | Rows are stamped before they wait for the chain's lock or queue, and delivery checks links in timestamp order: two honest rows that overtake each other raise CHAIN TAMPER and stop delivery. A row that arrives behind the cursor is skipped without a word. |

Further configurations are kept beside the runs; TLC finds each violated, with the
module in brackets:
- `stuck_reconcile.cfg` (`MCCreditLedger`, `NoStuckReconcile`): overlapping reconcile runs
  exhaust the attempt counter, tested on a stale read, while the row stays `pending`; the
  selection then never picks it again, where `cost-reconcile.ts:241` says it drops to
  `unavailable`. That such a row is resolved in the end is therefore no property of a run:
  the code does not have it when runs overlap, and nothing schedules them.
- `renewal_debt.cfg` (`MCCreditLedger`): `credits.ts:12-13` says debt is forgiven at the
  renewal and never reduces the allowance; `computeMonthlyRefill` nets it.
- `double_grant.cfg` (`MCCreditLedger`): the lazy init grants the allowance to a paid
  user with a live subscription, and the first invoice grants it again, where
  `credit-gate.ts:442` says there is no double-grant risk.
- `webhook_cleanup_fault.cfg` (`MCStripeWebhook`): funding fails and the deletion of
  the marker fails too: the event is marked processed and its redelivery acknowledged.
- `masked_stop.cfg` (`MCStreamTakeover`): a Stop stops one stream in its process and
  then fails to mark another instance's: it answers `aborted`
  (`abort-stream-anywhere.ts:129`), although `stream-abort-decisions.ts:176` says a live
  stream is not masked by the siblings that did stop.

Two more ways to lose an event follow from `StripeWebhook` with other constants.
With `MaxFaults = 2` and `CleanupMayFail = FALSE`: a delivery that has deleted its
marker marks the event as failed by its id, and hits the marker another delivery has
inserted since; if that one dies, the event counts as processed. With an event outside
`Funding` and `MaxFaults = 1`: a subscription event that fails once is marked
processed, and only the tier reconcile cron repairs its effect.

And four of `StorageUsage`, all repaired by the next reconcile, which is what
`Accurate` excepts and `EventuallyAccurate` shows: the clamp at zero means that a
correction does not commute with a credit, as `storage-limits.ts:421-424` has it (a
failed charge, then a scan, a reap with its credit, and the correction, end too
high); a row reaped before its charge leaves the charge behind; a reaper that found a
row before it changed hands credits the former owner, although
`reap-orphaned-files.ts:43` says that two concurrent reaps cannot credit twice; and a
reconcile between delete and credit counts the row twice, which
`storage-repository.ts:53-65` accepts.

## 4. What is proved

For every set of calls, sweepers, reconcilers and payments, every amount and every
timing that satisfies `ConstantsAssumption`; for every set of reapers
(`StreamAssumption`), of events and deliveries (`WebhookAssumption`), of sends, Stops,
instances and users (`TakeoverAssumption`), of users, contents, uploads, reaps and
reconciles (`UsageAssumption`), of entries, chainers and delivery runs
(`AuditAssumption`); and for every number of faults:

| Theorem | States | Beyond the assumption of its module it needs |
|---|---|---|
| `TypeCorrect` | `Spec => []TypeOK` | |
| `MoneyConserved` | `Spec => []BooksBalance` | |
| `DebtImpliesDrained` | `Spec => []DebtOnlyWhenDrained` | |
| `CallsBilledOnce` | `Spec => []BilledOnce` | `SettleLag <= Grace` |
| `ClaimsAreExclusive` | `Spec => []ClaimsExclusive` | `SettleLag <= Grace` |
| `LedgerNeverRewritten` | `Spec => LedgerAppendOnly` | `SettleLag <= Grace` |
| `CorrectionsHaveBase` | `Spec => []OrphansStayVisible` | |
| `OneGrantAPeriod` | `Spec => GateGrantsApart` | `Invoices = {}` |
| `LedgerImplementsAccount` | `Spec => ImplementsAccount` | `SettleLag <= Grace` |
| `InFlightCapKept` | `Spec => []InFlightCapHolds` | finitely many calls |
| `HeldSpendFunded` | `Spec => []HeldSpendIsFunded` | the same, `SettleLag <= Grace` |
| `DailyCapKept` | `Spec => []DailyCapHolds` | the same, `SettleLag <= Grace` |
| `LedgerExplains` | `Spec => []LedgerExplainsBooks` | the same, `SettleLag <= Grace`, `Invoices \cap Packs = {}` |
| `StreamReapProofs!TypeCorrect` | `Spec => []TypeOK` | |
| `OneReaperHolds` | `Spec => []OneReaper` | |
| `SilentWhenReaped` | `Spec => OnlySilentReaped` | |
| `LastWordIsOwners` | `Spec => []OwnerHasLastWord` | |
| `SettledIsSaved` | `Spec => []SettledMeansSaved` | |
| `HealthyRowKept` | `Spec => HealthyKeepsRow` | |
| `LongestRecovered` | `Spec => RecoveryKeepsLongest` | |
| `StripeWebhookProofs!TypeCorrect` | `Spec => []TypeOK` | |
| `ClaimsALeaseApart` | `Spec => []ClaimsApart` | |
| `StreamTakeoverProofs!TypeCorrect` | `Spec => []TypeOK` | |
| `TerminalIsStopped` | `Spec => []TerminalMeansStopped` | |
| `OneGenerates` | `Spec => []OneGeneration` | |
| `StopsAreHonest` | `Spec => []StopIsHonest` | |
| `AuditTrailProofs!TypeCorrect` | `Spec => []TypeOK` | |
| `ChainNeverForks` | `Spec => []ChainLinear` | |
| `CursorNeverSkips` | `Spec => []CursorAttested` | |
| `AlarmsExplained` | `Spec => []AlarmsHaveCause` | |
| `OldestGoFirst` | `Spec => []OldestFirst` | |
| `StorageUsageProofs!TypeCorrect` | `Spec => []TypeOK` | |
| `CountersAccurate` | `Spec => []Accurate` | finitely many reaps |

*The hypotheses.* `SettleLag <= Grace` is what statement and lock timeouts give a live
process (15 s and 5 s in `packages/db/src/db.ts:28-33`, against a grace of five minutes),
and `late_settle` shows that without it the code fails. Calls and reaps are sets of
processes, of which a history has finitely many; the sums over them need that to have a
value. An invoice and a checkout have different ids at Stripe, hence different `stripeRef`s.

*Types.* `TypeOK` is inductive. It says more than shapes: buckets and debt are
natural numbers and the carry is below a cent, so the arithmetic lemmas about
`AllocateSpend`, `AccruePending`, `ComputeMonthlyRefill` and `ApplyPaymentToDebt`
carry the proof, and one lemma per group of actions does the rest.

*Money.* `BooksBalance` alone is not inductive: a refill that forgives debt
balances only if an account in debt has empty buckets, and a first row must be
empty. `MoneyInv` adds `DebtOnlyWhenDrained` and that a missing row is all zero.
Then each operation on the balance (`Debit`, `Refund`, `Refill`) keeps the two
equations, by one lemma each, and the other actions leave balance and books alone.

*Billing.* The invariant is `ClaimInv == BilledOnce /\ ClaimsExclusive`.
`BilledOnce` alone is not inductive, because the settlement does not look at the
row: what protects it is time. A row selected for retry is older than `Grace`, a
live claim is younger than `SettleLag`, so with `SettleLag <= Grace` no row is both.
The run `late_settle` shows that the assumption is needed.

*Grants.* Between two grants of the gate lies a full window, because a grant moves
`periodEnd` to its own time plus `Period` and the re-check under the lock compares
with the request's own time. An invoice may set an earlier end, hence the
assumption.

*Reapers.* `OneReaper` follows from `ClaimInv`: tokens grow with time, two claimants
never hold the same token, and a claim is more than `Stale` younger than the beat it
was taken against. The invariant needs the claim's own WHERE clause: a new claim waits
for the old one to expire, so its token is younger than every other. A heartbeat
after the claim breaks the fence by its value alone, which gives `OnlySilentReaped`.

*The owner's word.* `SavedInv` says where the owner can be when it has saved, that a
stream finished without a stop has saved or failed to, and that a reaper past
`Materialize` has left a terminal message. `Materialize` writes only over a message that is
not terminal, and `SaveReply` writes over everything: that is what makes it inductive.

*Webhook.* `ApartInv` adds to `ClaimsApart` that a delivery handles one event and that,
while nothing has failed, the marker of an event that is being handled is there and as
young as the youngest claim. Without the second part a takeover could compare its time
with a marker that an older delivery left, and claim within the lease of a newer one.

*Takeover.* The whole argument rests on one fact, that `Ended` is for ever: a send that
was aborted, cut off by an intent, finished or killed never generates again. `GenInv`
ties the registry to it: whoever has a tombstone, no entry or a status write on its way has
ended. `RowsInv` then says that only an ended send has a terminal or a cold row, and
that whoever a takeover has hit or found dead has ended, which is why it may wipe those
rows (`TerminalIsStopped`). `LiveInv` is about the sends that are live, hold the lock
and were told of nothing: between lock and placeholder the lock is theirs; from the insert on
they have a row; and a later one that is before its insert still has every earlier one among the
rows it selected, then among those it waits for (`Chases`). So it does not get to its
insert while one of those is live (`OneGenerates`). `StopInv` follows a Stop in the
same way: each stream that it was pressed for has ended, or has a row that the Stop's own
statements find, and then the Stop waits for it, or says that it does not know
(`StopsAreHonest`).

*Storage.* `TypeOK` holds because the lock brackets a reconcile: whoever has
read and not corrected holds it, so the next one starts only when it is free. Sizes of sets of
contents are natural numbers because there are finitely many contents.

A user's counter and rows agree up to the charges and credits on their way (`Accurate`)
because every step moves both sides alike. Three facts make that inductive
(`BooksInv`). An upload between row and charge owns a fresh row, and no second one is to
charge the same user for the same content, or the user is a suspect: so a charge takes
exactly its own content off what is on its way. Only counters of suspects are corrected
by more than zero. And an administrator's reconcile of a settled user, unless a reap met it,
still reads what is there: the cooldown keeps uploads away, the lock other reconciles.

*Sums.* The models add up with `SumFunctionOnSet` of the community modules, a fold that
chooses the elements one by one, and induction over sets is out of reach. `SumTheorems` goes
round it: the strict-subset order on a finite set is well founded, so a claim that failed
for some subset would fail for a smallest one, and holds for that one without the element
that the fold takes next. So the sum of a set is that of the set without any of its elements, plus that element; the rest
(a changed value, a part of a set, a set split in two, an element that moves) follows from it.

*Refinement.* A step of the ledger maps to the step of `CreditAccount` that its name says,
or to a stutter: a usage log to a run, a settlement to a bill, a correction to a correction,
a grant, an invoice or a pack to a credit, all else to nothing. That the
arithmetic of the buckets moves the net amount by exactly the charge is `MoneyInv`'s
lemmas again. That no call is billed a second time is `ClaimInv`, which is why the
theorem needs `SettleLag <= Grace`: after a late settlement the abstract account has no
step to match. `LogInv` says that a call with a row has a log, so that a bill has its price.

*Caps and funds.* All three argue about one transaction: the gate counts the live holds,
decides and inserts. It counts them at the request's own time, which may be old, so what
it must never do is overlook one. `ClocksBehind` says that no request is ahead of the clock; a hold
live now was live at any earlier time, so an old request sees a superset
(`InFlightCapKept`). For `HeldSpendFunded` the decision leaves at least the new estimate
above what all the live holds of uncharged calls reserve; a covered debit takes no more than its own
hold, which leaves the sum with it; a refund or refill only adds. The day makes the third one
harder: a request of the day before sums an earlier start, hence more, so its decision is
stricter too (`LaterChargesLess`). `DailyInv` weakens the antecedent by claims without charge, which the
code marks skipped in a later statement.

*The books and the rows.* `RowsInv` says that the running totals are the sums of the rows
and that only a correction that is made has moved the balance. A settlement adds one
element to `Applied`, which by `ClaimInv` it was not in; a correction one to `Raised` or
`Refunded`; a payment one to `credited`, where its `stripeRef` was not.

*A healthy row.* `HealthyInv`: an owner whose heartbeat is on has a beat no older than its
stalls and one unit, and when the heartbeat has ended at the cap its last beat is no older than
the cap less its stalls. So it is judged dead only before the cap, and only when it has used
up the stalls it may have (`LooksDead`). From then on it beats in every unit, or it is not healthy
any more; up to the cap each beat refuses the claim, and the last one, at the cap, refuses it for another
`Stale`. With the code's window of six beats (`stream-lifecycle.ts:116`) a sweep would have
to take seven heartbeat intervals, more than two minutes, from its read to its claim.

*What is recovered.* `DurableInv`: until there is a terminal message, the longest record there ever was is
in the log or the snapshot of a row that can still be claimed, and what was durable at a claim is in
what the claimant has read and can still read. A finish drops the log only of a saved reply, a
reaper deletes it only behind a terminal message, and all other writes make it longer.

*Chains and batches.* The models pick rows from finite sets in an order: by time and then by
id. A sequence of the set in that order exists because ranks do: the number of rows before a row is
different for every row, so the ranks of n rows are exactly 0 to n-1 (`RankOnto`, by counting).
From there, `WriteInv` says that a row is in its log once, that each links to the one before it, and that
the chainer that holds the lock has a batch of rows still queued and the true head, so what
it appends continues the chain (`ChainNeverForks`). `SendInv` is about runs, which
may have lost their lock without knowing it. What a run has in hand was in a log,
and whatever is owed and older is in hand too, or attested (`Covers`), so that a cursor moved over the
acknowledged prefix of its batch passes nothing (`CursorNeverSkips`), lock or no lock. With
the lock, and a log in order, what is in hand is the one stretch that follows the cursor
(`Stretch`), and a stretch of a linear chain links: no alarm (`AlarmsExplained`). `Filled`
and `Watermark` say of the two polls, each cut at its own limit, that what
was seen and older is in the batch or received (`OldestGoFirst`).

What stays with TLC: all liveness (`EventuallyBilled`, `HoldsReleased`,
`EventuallyApplied`, `DeadIsRecovered`, `MarkReaches`,
`SendNeverBlocks`, `EventuallyDelivered`, `EventuallyAccurate`), because fairness and
`ENABLED` are out of the prover's reach. Every invariant and action property of the passing
runs is the subject of a theorem.

## 5. Not modelled

The plan's streams, audit trail and storage are done. What is left out, and why:
- OAuth rotation: its properties are those of a security protocol.
- Stripe customers and the subscription tiers' repair cron; page content versions: small
  protocols of their own, without a part in the four subsystems.
- Rate limits: one atomic upsert per check, and nothing reads their state.
- Environments, sandboxes, the control plane: sequences of external commands whose
  outcome lies outside this code.
- The realtime server, the clients, user interfaces, notifications, formatting: no
  state that others rely on.
