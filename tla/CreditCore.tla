----------------------------- MODULE CreditCore -----------------------------
(***************************************************************************)
(* The pure decision layer of prepaid AI credits                           *)
(* (packages/lib/src/billing/credit-core.ts): functions from values to     *)
(* values, no state.  Money is whole cents; a call's charge is in          *)
(* millicents, so that sub-cent calls accumulate instead of rounding to 0. *)
(* Dollars are counted in micro-dollars here, because TLA+ has integers    *)
(* and no floats; Math.round is modelled by RoundDiv (half rounds up).     *)
(***************************************************************************)
EXTENDS Integers

\* A nullable number that is absent: no period end, no cap.
Null == -1

Lesser(a, b)  == IF a <= b THEN a ELSE b
Greater(a, b) == IF a >= b THEN a ELSE b

\* Math.round(n / d) for n \in Nat.
RoundDiv(n, d) == (2 * n + d) \div (2 * d)

\* Real cost in cents, as stored in realCostCents: Math.round(dollars * 100).
RealCostCents(micro) == RoundDiv(Greater(0, micro), 10000)

\* The customer charge for a real cost, in millicents, markup applied.
ChargeMillicents(micro, markupBps) ==
    IF micro <= 0 THEN 0 ELSE RoundDiv(micro * markupBps, 100000)

\* Mutant of AccruePending: the carried cents stay in the remainder as well.
AccrueWithoutCarry(pending, chargeMc) ==
    LET total == Greater(0, pending) + Greater(0, chargeMc)
    IN  [wholeCents |-> total \div 1000, newPending |-> total]

\* Fold a charge into the sub-cent remainder.
AccruePending(pending, chargeMc) ==
    LET total == Greater(0, pending) + Greater(0, chargeMc)
    IN  [wholeCents |-> total \div 1000, newPending |-> total % 1000]

\* Draw an amount monthly first, then top-up; the rest is the shortfall.
AllocateSpend(monthly, topup, amount) ==
    LET spentMonthly == Lesser(monthly, Greater(0, amount))
        spentTopup   == Lesser(topup, Greater(0, amount) - spentMonthly)
    IN  [monthly   |-> monthly - spentMonthly,
         topup     |-> topup - spentTopup,
         applied   |-> spentMonthly + spentTopup,
         shortfall |-> Greater(0, amount) - spentMonthly - spentTopup]

\* Mutant of EvaluateDailyCap: the call's own estimate is left out.
CapWithoutEstimate(dailyCharged, est, cap) ==
    cap # Null => Greater(0, dailyCharged) <= cap

\* The per-day backstop: TRUE when the call may go on.
EvaluateDailyCap(dailyCharged, est, cap) ==
    cap # Null => Greater(0, dailyCharged) + Greater(0, est) <= cap

\* Mutant of Spendable: the call's own estimate is left out.
SpendableBeforeCall(bal, reserved, est) ==
    bal.monthly + bal.topup - Greater(0, bal.debt) - reserved

\* What a balance row leaves to spend once holds and this call are set aside.
Spendable(bal, reserved, est) ==
    bal.monthly + bal.topup - Greater(0, bal.debt) - reserved - est

\* Mutant of AtInFlightCap: off by one.
OverInFlightCap(inFlight, maxInFlight) ==
    maxInFlight # Null /\ inFlight > maxInFlight

AtInFlightCap(inFlight, maxInFlight) ==
    maxInFlight # Null /\ inFlight >= maxInFlight

\* The prepaid hard-cap decision (billing enabled).
EvaluateGate(bal, floor, reserved, est, inFlight, maxInFlight) ==
    IF ~ bal.exists THEN "needs_init"
    ELSE IF AtInFlightCap(inFlight, maxInFlight) THEN "too_many_in_flight"
    ELSE IF Spendable(bal, reserved, est) > floor
         THEN "ok"
         ELSE "out_of_credits"

\* Mutant of ComputeMonthlyRefill: debt is forgiven before the allowance comes.
RefillForgivingDebt(monthly, debt, allowance) == Greater(0, monthly) + allowance

\* Rollover for a new period: debt is netted against carry plus allowance and
\* what it exceeds them by is forgiven; the result is the new monthly bucket.
ComputeMonthlyRefill(monthly, debt, allowance) ==
    Greater(0, monthly - Greater(0, debt) + allowance)

\* Mutants of ApplyPaymentToDebt: the payment pays off debt and is credited in
\* full as well; it is credited and pays off nothing.
PaymentUsedTwice(debt, topup, payment) ==
    LET paid == Lesser(debt, payment)
    IN  [debt |-> debt - paid, topup |-> topup + payment, paidDebt |-> paid]

PaymentPastDebt(debt, topup, payment) ==
    [debt |-> debt, topup |-> topup + payment, paidDebt |-> 0]

\* A payment clears debt first; the remainder becomes top-up.
ApplyPaymentToDebt(debt, topup, payment) ==
    LET paid == Lesser(debt, payment)
    IN  [debt |-> debt - paid, topup |-> topup + (payment - paid),
         paidDebt |-> paid]

\* The signed correction for a call billed at one cost and authoritatively
\* priced at another; no correction inside the tolerance.
ComputeCostDrift(billedMicro, authMicro, tolCents, tolBps, markupBps) ==
    LET billed == RealCostCents(billedMicro)
        delta  == RealCostCents(authMicro) - billed
        size   == IF delta < 0 THEN - delta ELSE delta
        tol    == Greater(tolCents, RoundDiv(billed * tolBps, 10000))
        charge == ChargeMillicents(size * 10000, markupBps)
    IN  [shouldCorrect |-> size > tol,
         deltaMc |-> IF delta < 0 THEN - charge ELSE charge]
=============================================================================
