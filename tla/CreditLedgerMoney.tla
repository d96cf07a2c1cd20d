------------------------- MODULE CreditLedgerMoney -------------------------
(***************************************************************************)
(* Type correctness of CreditLedger, for every value of its constants,     *)
(* with the facts about charges, debits, refunds and refills it rests on;  *)
(* and the money: no cent is lost or made, and no account owes and owns at *)
(* the same time.  For the money every step is shown to move the balance   *)
(* row in one of four ways (Moved), and each of the four to keep MoneyInv. *)
(***************************************************************************)
EXTENDS CreditLedger, SumTheorems, TLAPS

(***************************************************************************)
(* The arithmetic of charges, debits, refunds and refills                  *)
(***************************************************************************)
\* A product of naturals is a natural (kept apart: it is not linear).
LEMMA ProductNat ==
    ASSUME NEW m \in Nat, NEW n \in Nat
    PROVE  m * n \in Nat
  OBVIOUS

\* A charge is a whole, non-negative number of millicents (chargeMillicents).
LEMMA ChargeMillicentsNat ==
    ASSUME NEW micro \in Nat, NEW bps \in Nat
    PROVE  ChargeMillicents(micro, bps) \in Nat
  <1>1. micro * bps \in Nat
    BY ProductNat
  <1>2. ASSUME NEW n \in Nat PROVE RoundDiv(n, 100000) \in Nat
    BY DEF RoundDiv
  <1>. QED
    BY <1>1, <1>2 DEF ChargeMillicents

\* A call's charge is a natural number of millicents.
LEMMA ChargeNat ==
    ASSUME ConstantsAssumption, usageLog \in [Calls -> UsageLogs], NEW c \in Calls
    PROVE  Charge(c) \in Nat
  <1>1. usageLog[c].cost \in Nat
    BY DEF UsageLogs
  <1>. QED
    BY <1>1, ChargeMillicentsNat DEF Charge, ConstantsAssumption

\* Lesser by cases, for arguments whose type is known.
LEMMA LesserFacts ==
    ASSUME NEW x \in Int, NEW y \in Int
    PROVE  /\ Lesser(x, y) \in Int
           /\ x <= y => Lesser(x, y) = x
           /\ x > y => Lesser(x, y) = y
  BY DEF Lesser

\* Greater by cases, for arguments whose type is known.
LEMMA GreaterFacts ==
    ASSUME NEW x \in Int, NEW y \in Int
    PROVE  /\ Greater(x, y) \in Int
           /\ x >= y => Greater(x, y) = x
           /\ x < y => Greater(x, y) = y
  BY DEF Greater

\* Sub-cent remainders never lose a millicent (accruePending).
LEMMA AccruePendingFacts ==
    ASSUME NEW p \in Nat, NEW mc \in Nat
    PROVE  LET acc == AccruePending(p, mc)
           IN  /\ acc.wholeCents \in Nat /\ acc.newPending \in 0..999
               /\ 1000 * acc.wholeCents + acc.newPending = p + mc
  <1>1. Greater(0, p) = p /\ Greater(0, mc) = mc
    BY DEF Greater
  <1>2. /\ AccruePending(p, mc).wholeCents = (p + mc) \div 1000
        /\ AccruePending(p, mc).newPending = (p + mc) % 1000
    BY <1>1 DEF AccruePending
  <1>3. ASSUME NEW n \in Nat
        PROVE  /\ n \div 1000 \in Nat /\ n % 1000 \in 0..999
               /\ 1000 * (n \div 1000) + (n % 1000) = n
    OBVIOUS
  <1>. QED
    BY <1>2, <1>3

\* An amount is drawn from the buckets in full or leaves a shortfall, and it
\* leaves one only when both buckets are empty (allocateSpend).
LEMMA AllocateSpendFacts ==
    ASSUME NEW m \in Nat, NEW t \in Nat, NEW w \in Nat
    PROVE  LET a == AllocateSpend(m, t, w)
           IN  /\ a.monthly \in Nat /\ a.topup \in Nat
               /\ a.applied \in Nat /\ a.shortfall \in Nat
               /\ a.monthly + a.topup = m + t - a.applied
               /\ a.applied + a.shortfall = w
               /\ a.shortfall > 0 => a.monthly = 0 /\ a.topup = 0
               /\ m = 0 /\ t = 0 => a.monthly = 0 /\ a.topup = 0
  <1>. DEFINE fromMonthly == Lesser(m, w)
              left        == w - fromMonthly
              fromTopup   == Lesser(t, left)
  <1>1. /\ fromMonthly \in Int
        /\ m <= w => fromMonthly = m
        /\ m > w => fromMonthly = w
    BY LesserFacts
  <1>. HIDE DEF fromMonthly
  <1>2. left \in Int
    BY <1>1
  <1>. HIDE DEF left
  <1>3. /\ fromTopup \in Int
        /\ t <= left => fromTopup = t
        /\ t > left => fromTopup = left
    BY <1>2, LesserFacts
  <1>. HIDE DEF fromTopup
  <1>4. Greater(0, w) = w
    BY DEF Greater
  <1>5. AllocateSpend(m, t, w)
          = [monthly |-> m - fromMonthly, topup |-> t - fromTopup,
             applied |-> fromMonthly + fromTopup,
             shortfall |-> w - fromMonthly - fromTopup]
    BY <1>4 DEF AllocateSpend, fromMonthly, fromTopup, left
  <1>6. /\ m - fromMonthly \in Nat /\ t - fromTopup \in Nat
        /\ fromMonthly + fromTopup \in Nat
        /\ w - fromMonthly - fromTopup \in Nat
        /\ (m - fromMonthly) + (t - fromTopup) = m + t - (fromMonthly + fromTopup)
        /\ (fromMonthly + fromTopup) + (w - fromMonthly - fromTopup) = w
        /\ w - fromMonthly - fromTopup > 0 =>
               m - fromMonthly = 0 /\ t - fromTopup = 0
        /\ m = 0 /\ t = 0 => m - fromMonthly = 0 /\ t - fromTopup = 0
    BY <1>1, <1>3 DEF left
  <1>. QED
    BY <1>5, <1>6

\* Debt only beside empty buckets.
DebtIsDrained(b) == b.debt > 0 => b.monthly = 0 /\ b.topup = 0

\* A debit keeps the row's ranges, takes from the buckets what it applies, and
\* loses no millicent between buckets, debt and sub-cent remainder
\* (decrementAndSettle).
LEMMA DebitFacts ==
    ASSUME NEW b \in Balances, NEW mc \in Nat
    PROVE  /\ Debit(b, mc) \in Balances
           /\ SpendFor(b, mc).applied \in Nat
           /\ Debit(b, mc).monthly + Debit(b, mc).topup
                = b.monthly + b.topup - SpendFor(b, mc).applied
           /\ 1000 * (SpendFor(b, mc).applied + Debit(b, mc).debt)
                + Debit(b, mc).pending
                = 1000 * b.debt + b.pending + mc
           /\ DebtIsDrained(b) => DebtIsDrained(Debit(b, mc))
           /\ Debit(b, mc).exists = b.exists
  <1>. DEFINE m == b.monthly
              t == b.topup
              d == b.debt
              p == b.pending
              whole == AccruePending(p, mc).wholeCents
              rest  == AccruePending(p, mc).newPending
              aM == AllocateSpend(m, t, whole).monthly
              aT == AllocateSpend(m, t, whole).topup
              aA == AllocateSpend(m, t, whole).applied
              aS == AllocateSpend(m, t, whole).shortfall
  <1>1. m \in Nat /\ t \in Nat /\ d \in Nat /\ p \in Nat
    BY DEF Balances
  <1>2. /\ SpendFor(b, mc) = AllocateSpend(m, t, whole)
        /\ Debit(b, mc) = [b EXCEPT !.monthly = aM, !.topup = aT,
                                    !.pending = rest, !.debt = d + aS]
    BY DEF Debit, SpendFor
  <1>. HIDE DEF m, t, d, p
  <1>3. whole \in Nat
    BY <1>1, AccruePendingFacts
  <1>4. rest \in 0..999
    BY <1>1, AccruePendingFacts
  <1>5. 1000 * whole + rest = p + mc
    BY <1>1, AccruePendingFacts
  <1>. HIDE DEF whole, rest
  <1>6. aM \in Nat /\ aT \in Nat /\ aA \in Nat /\ aS \in Nat
    BY <1>1, <1>3, AllocateSpendFacts
  <1>7. aM + aT = m + t - aA /\ aA + aS = whole
    BY <1>1, <1>3, AllocateSpendFacts
  <1>8. /\ aS > 0 => aM = 0 /\ aT = 0
        /\ m = 0 /\ t = 0 => aM = 0 /\ aT = 0
    BY <1>1, <1>3, AllocateSpendFacts
  <1>9. SpendFor(b, mc).applied = aA
    BY <1>2
  <1>. HIDE DEF aM, aT, aA, aS
  <1>. DEFINE d2 == d + aS
  <1>10. d2 \in Nat
    BY <1>1, <1>6
  <1>. HIDE DEF d2
  <1>11. /\ Debit(b, mc) \in Balances
         /\ Debit(b, mc).monthly = aM
         /\ Debit(b, mc).topup = aT
         /\ Debit(b, mc).pending = rest
         /\ Debit(b, mc).debt = d2
         /\ Debit(b, mc).exists = b.exists
    <2>1. Debit(b, mc) = [exists |-> b.exists, monthly |-> aM, topup |-> aT,
                          debt |-> d2, pending |-> rest, periodEnd |-> b.periodEnd]
      BY <1>2, ZenonT(60) DEF Balances, d2
    <2>2. b.exists \in BOOLEAN /\ b.periodEnd \in Nat \cup {Null}
      BY DEF Balances
    <2>. QED
      BY <1>4, <1>6, <1>10, <2>1, <2>2 DEF Balances
  <1>12. 1000 * (aA + (d + aS)) + rest = 1000 * d + p + mc
    BY <1>1, <1>4, <1>5, <1>6, <1>7, <1>3
  <1>13. DebtIsDrained(b) => DebtIsDrained(Debit(b, mc))
    <2>1. (d > 0 => m = 0 /\ t = 0) => (d + aS > 0 => aM = 0 /\ aT = 0)
      BY <1>1, <1>6, <1>8
    <2>. QED
      BY <2>1, <1>11 DEF DebtIsDrained, d, m, t, d2
  <1>. QED
    BY <1>6, <1>7, <1>9, <1>11, <1>12, <1>13 DEF m, t, d, p, d2

\* A payment clears debt before it fills the top-up bucket, and all of it goes
\* to the one or to the other (applyPaymentToDebt).
LEMMA RefundFacts ==
    ASSUME NEW b \in Balances, NEW cents \in Nat
    PROVE  LET paid == ApplyPaymentToDebt(b.debt, b.topup, cents).paidDebt
           IN  /\ Refund(b, cents) \in Balances
               /\ paid \in Nat
               /\ Refund(b, cents).monthly = b.monthly
               /\ Refund(b, cents).topup = b.topup + (cents - paid)
               /\ Refund(b, cents).debt = b.debt - paid
               /\ Refund(b, cents).pending = b.pending
               /\ DebtIsDrained(b) => DebtIsDrained(Refund(b, cents))
               /\ Refund(b, cents).exists = b.exists
  <1>. DEFINE t == b.topup
              d == b.debt
              paid == Lesser(d, cents)
  <1>1. b.monthly \in Nat /\ t \in Nat /\ d \in Nat /\ b.pending \in 0..999
    BY DEF Balances
  <1>2. ApplyPaymentToDebt(d, t, cents)
          = [debt |-> d - paid, topup |-> t + (cents - paid), paidDebt |-> paid]
    BY DEF ApplyPaymentToDebt
  <1>3. Refund(b, cents) = [b EXCEPT !.debt = d - paid, !.topup = t + (cents - paid)]
    BY <1>2 DEF Refund
  <1>4. ApplyPaymentToDebt(d, t, cents).paidDebt = paid
    BY <1>2
  <1>. HIDE DEF t, d
  <1>5. /\ paid \in Int
        /\ d <= cents => paid = d
        /\ d > cents => paid = cents
    <2>1. d \in Int /\ cents \in Int
      BY <1>1
    <2>. QED
      BY <2>1, LesserFacts, Zenon
  <1>. HIDE DEF paid
  <1>6. paid \in Nat /\ d - paid \in Nat /\ t + (cents - paid) \in Nat
    BY <1>1, <1>5
  <1>. DEFINE d2 == d - paid
              t2 == t + (cents - paid)
  <1>7. (d > 0 => b.monthly = 0 /\ t = 0) => (d2 > 0 => b.monthly = 0 /\ t2 = 0)
    BY <1>1, <1>5
  <1>8. d2 \in Nat /\ t2 \in Nat
    BY <1>6
  <1>9. Refund(b, cents) = [b EXCEPT !.debt = d2, !.topup = t2]
    BY <1>3
  <1>. HIDE DEF d2, t2
  <1>10. /\ Refund(b, cents) \in Balances
         /\ Refund(b, cents).monthly = b.monthly
         /\ Refund(b, cents).topup = t2
         /\ Refund(b, cents).pending = b.pending
         /\ Refund(b, cents).debt = d2
         /\ Refund(b, cents).exists = b.exists
    <2>1. Refund(b, cents) = [exists |-> b.exists, monthly |-> b.monthly, topup |-> t2,
                              debt |-> d2, pending |-> b.pending,
                              periodEnd |-> b.periodEnd]
      BY <1>9, ZenonT(60) DEF Balances
    <2>2. b.exists \in BOOLEAN /\ b.periodEnd \in Nat \cup {Null}
      BY DEF Balances
    <2>. QED
      BY <1>1, <1>8, <2>1, <2>2 DEF Balances
  <1>11. DebtIsDrained(b) => DebtIsDrained(Refund(b, cents))
    BY <1>7, <1>10 DEF DebtIsDrained, d, t
  <1>. QED
    BY <1>4, <1>6, <1>10, <1>11 DEF d, t, d2, t2

\* A refill adds the allowance net of debt and forgives the rest of the debt
\* (computeMonthlyRefill).
LEMMA RefillFacts ==
    ASSUME ConstantsAssumption, NEW b \in Balances, NEW end \in Nat
    PROVE  LET netted == Lesser(b.debt, b.monthly + Allowance)
           IN  /\ Refill(b, end) \in Balances
               /\ netted \in Nat /\ b.debt - netted \in Nat
               /\ Refill(b, end).monthly = (b.monthly + Allowance) - netted
               /\ b.debt - netted > 0 => Refill(b, end).monthly = 0
               /\ Refill(b, end).topup = b.topup
               /\ Refill(b, end).debt = 0
               /\ Refill(b, end).pending = b.pending
               /\ Refill(b, end).exists = b.exists
  <1>. DEFINE m == b.monthly
              d == b.debt
              sum == m + Allowance
              rest == (m - d) + Allowance
              netted == Lesser(d, sum)
              refilled == Greater(0, rest)
  <1>1. m \in Nat /\ d \in Nat /\ Allowance \in Nat
    BY DEF Balances, ConstantsAssumption
  <1>2. Refill(b, end) = [b EXCEPT
              !.monthly = Greater(0, (m - Greater(0, d)) + Allowance),
              !.debt = 0, !.periodEnd = end]
    BY DEF Refill, ComputeMonthlyRefill
  <1>. HIDE DEF m, d
  <1>3. Greater(0, d) = d
    BY <1>1 DEF Greater
  <1>4. Refill(b, end) = [b EXCEPT !.monthly = refilled, !.debt = 0, !.periodEnd = end]
    BY <1>2, <1>3
  <1>5. sum \in Int /\ rest \in Int /\ rest = sum - d
    BY <1>1
  <1>. HIDE DEF sum, rest
  <1>6. /\ netted \in Int
        /\ d <= sum => netted = d
        /\ d > sum => netted = sum
    BY <1>1, <1>5, LesserFacts
  <1>7. /\ refilled \in Int
        /\ 0 >= rest => refilled = 0
        /\ 0 < rest => refilled = rest
    <2>1. 0 \in Int
      OBVIOUS
    <2>. QED
      BY <2>1, <1>5, GreaterFacts, Zenon
  <1>. HIDE DEF netted, refilled
  <1>8. /\ refilled \in Nat /\ netted \in Nat /\ d - netted \in Nat
        /\ refilled = sum - netted
        /\ d - netted > 0 => refilled = 0
    BY <1>1, <1>5, <1>6, <1>7 DEF sum
  <1>9. /\ Refill(b, end) \in Balances
        /\ Refill(b, end).monthly = refilled
        /\ Refill(b, end).topup = b.topup
        /\ Refill(b, end).debt = 0
        /\ Refill(b, end).pending = b.pending
        /\ Refill(b, end).exists = b.exists
    <2>1. Refill(b, end) = [exists |-> b.exists, monthly |-> refilled,
                            topup |-> b.topup, debt |-> 0, pending |-> b.pending,
                            periodEnd |-> end]
      BY <1>4, ZenonT(60) DEF Balances
    <2>2. b.exists \in BOOLEAN /\ b.topup \in Nat /\ b.pending \in 0..999
      BY DEF Balances
    <2>. QED
      BY <1>8, <2>1, <2>2 DEF Balances
  <1>10. netted = Lesser(b.debt, b.monthly + Allowance)
    BY DEF netted, sum, d, m
  <1>11. refilled = (b.monthly + Allowance) - netted
    BY <1>8 DEF sum, m
  <1>. QED
    BY <1>8, <1>9, <1>10, <1>11 DEF d

(***************************************************************************)
(* Type correctness                                                        *)
(***************************************************************************)
\* Going to a control point keeps the calls well-formed.
LEMMA GotoType ==
    ASSUME call \in [Calls -> CallStates], NEW c \in Calls, NEW pc \in CallPcs,
           Goto(c, pc)
    PROVE  call' \in [Calls -> CallStates]
  BY DEF Goto, CallStates

\* Moving on with the same request time does, too.
LEMMA StepType ==
    ASSUME call \in [Calls -> CallStates], NEW c \in Calls, NEW pc \in CallPcs,
           Step(c, pc)
    PROVE  call' \in [Calls -> CallStates]
  BY DEF Step, CallStates

\* Releasing a hold keeps the holds well-formed.
LEMMA ReleaseType ==
    ASSUME holds \in [Calls -> Holds], NEW c \in Calls,
           holds' = [holds EXCEPT ![c] = NoHold]
    PROVE  holds' \in [Calls -> Holds]
  BY DEF NoHold, Holds

\* The running totals are natural numbers.
LEMMA BooksNat ==
    ASSUME books \in Books
    PROVE  /\ books.credits \in Nat /\ books.applied \in Nat
           /\ books.paidDebt \in Nat /\ books.forgiven \in Nat
           /\ books.charged \in Nat
  BY DEF Books

\* The refill that a gate or an invoice does keeps the balance row and the
\* running totals well-formed.
LEMMA RefillTypes ==
    ASSUME ConstantsAssumption, NEW b \in Balances, NEW end \in Nat,
           books \in Books, BookRefill(b)
    PROVE  Refill(b, end) \in Balances /\ books' \in Books
  <1>. DEFINE netted == Lesser(b.debt, b.monthly + Allowance)
              left   == b.debt - netted
  <1>1. Refill(b, end) \in Balances /\ netted \in Nat /\ left \in Nat
    BY RefillFacts
  <1>2. books' = [books EXCEPT !.credits = @ + Allowance, !.paidDebt = @ + netted,
                               !.forgiven = @ + left]
    BY DEF BookRefill
  <1>. HIDE DEF netted, left
  <1>3. books' = [credits |-> books.credits + Allowance, applied |-> books.applied,
                  paidDebt |-> books.paidDebt + netted,
                  forgiven |-> books.forgiven + left, charged |-> books.charged]
    BY <1>2 DEF Books
  <1>. QED
    BY <1>1, <1>3, BooksNat DEF ConstantsAssumption, Books

\* A debit keeps the row and the totals well-formed.
LEMMA DebitTypes ==
    ASSUME balance \in Balances, books \in Books, NEW mc \in Nat,
           balance' = Debit(balance, mc), BookDebit(balance, mc)
    PROVE  balance' \in Balances /\ books' \in Books
  <1>. DEFINE applied == SpendFor(balance, mc).applied
  <1>1. balance' \in Balances /\ applied \in Nat
    BY DebitFacts
  <1>2. books' = [books EXCEPT !.applied = @ + applied, !.charged = @ + mc]
    BY DEF BookDebit
  <1>. HIDE DEF applied
  <1>3. books' = [credits |-> books.credits, applied |-> books.applied + applied,
                  paidDebt |-> books.paidDebt, forgiven |-> books.forgiven,
                  charged |-> books.charged + mc]
    BY <1>2 DEF Books
  <1>. QED
    BY <1>1, <1>3, BooksNat DEF Books

\* A payment keeps the row and the totals well-formed.
LEMMA PaymentTypes ==
    ASSUME NEW b \in Balances, books \in Books, NEW cents \in Nat,
           BookPayment(b, cents)
    PROVE  Refund(b, cents) \in Balances /\ books' \in Books
  <1>. DEFINE paid == ApplyPaymentToDebt(b.debt, b.topup, cents).paidDebt
  <1>1. Refund(b, cents) \in Balances /\ paid \in Nat
    BY RefundFacts
  <1>2. books' = [books EXCEPT !.credits = @ + cents, !.paidDebt = @ + paid]
    BY DEF BookPayment
  <1>. HIDE DEF paid
  <1>3. books' = [credits |-> books.credits + cents, applied |-> books.applied,
                  paidDebt |-> books.paidDebt + paid, forgiven |-> books.forgiven,
                  charged |-> books.charged]
    BY <1>2 DEF Books
  <1>. QED
    BY <1>1, <1>3, BooksNat DEF Books

\* decrementAndSettle keeps every row it writes well-formed.
LEMMA DecrementTypes ==
    ASSUME ConstantsAssumption, TypeOK, NEW c \in Calls, DecrementAndSettle(c)
    PROVE  /\ balance' \in Balances /\ books' \in Books
           /\ usageRow' \in [Calls -> UsageRows]
           /\ settles' \in [Calls -> Nat] /\ uncovered' \in BOOLEAN
  <1>1. CASE balance.exists
    <2>1. Charge(c) \in Nat
      BY ChargeNat DEF TypeOK
    <2>2. balance' \in Balances /\ books' \in Books
      BY <1>1, <2>1, DebitTypes DEF DecrementAndSettle, TypeOK
    <2>3. usageRow' \in [Calls -> UsageRows]
      BY <1>1 DEF DecrementAndSettle, TypeOK, UsageRows
    <2>4. settles' \in [Calls -> Nat]
      BY <1>1 DEF DecrementAndSettle, TypeOK
    <2>5. uncovered' \in BOOLEAN
      BY <1>1 DEF DecrementAndSettle, TypeOK, Covered
    <2>. QED
      BY <2>2, <2>3, <2>4, <2>5
  <1>2. CASE ~ balance.exists
    BY <1>2 DEF DecrementAndSettle, TypeOK
  <1>. QED
    BY <1>1, <1>2

\* The signed drift of two costs is an integer (computeCostDrift).
LEMMA CostDriftType ==
    ASSUME ConstantsAssumption, NEW billedMicro \in Nat, NEW authMicro \in Nat
    PROVE  ComputeCostDrift(billedMicro, authMicro, TolCents, TolBps, MarkupBps).deltaMc
             \in Int
  <1>. DEFINE billed == RealCostCents(billedMicro)
              delta  == RealCostCents(authMicro) - billed
              size   == IF delta < 0 THEN - delta ELSE delta
              charge == ChargeMillicents(size * 10000, MarkupBps)
  <1>1. ASSUME NEW micro \in Nat PROVE RealCostCents(micro) \in Nat
    BY DEF RealCostCents, RoundDiv, Greater
  <1>2. delta \in Int
    BY <1>1
  <1>. HIDE DEF delta
  <1>3. size * 10000 \in Nat
    BY <1>2
  <1>. DEFINE micro == size * 10000
  <1>4. micro \in Nat /\ MarkupBps \in Nat
    BY <1>3 DEF ConstantsAssumption
  <1>. HIDE DEF micro
  <1>5. ChargeMillicents(micro, MarkupBps) \in Nat
    BY <1>4, ChargeMillicentsNat
  <1>6. charge \in Nat
    BY <1>5 DEF micro
  <1>. HIDE DEF charge
  <1>7. ComputeCostDrift(billedMicro, authMicro, TolCents, TolBps, MarkupBps).deltaMc
          = IF delta < 0 THEN - charge ELSE charge
    BY DEF ComputeCostDrift, delta, charge
  <1>. QED
    BY <1>6, <1>7

\* A refund is a whole, non-negative number of cents.
LEMMA RefundCentsNat ==
    ASSUME NEW deltaMc \in Int, deltaMc <= 0
    PROVE  RefundCents(deltaMc) \in Nat
  BY DEF RefundCents, RoundDiv

\* Inserting the row changes none of its amounts.
LEMMA EnsureRowType ==
    ASSUME NEW b \in Balances
    PROVE  /\ EnsureRow(b) \in Balances
           /\ EnsureRow(b).exists
           /\ EnsureRow(b).monthly = b.monthly
           /\ EnsureRow(b).topup = b.topup
           /\ EnsureRow(b).debt = b.debt
           /\ EnsureRow(b).pending = b.pending
  BY ZenonT(60) DEF EnsureRow, Balances

\* The gate's steps keep TypeOK.
LEMMA GateTypes ==
    ASSUME ConstantsAssumption, TypeOK, NEW c \in Calls,
           GateStart(c) \/ GateReset(c) \/ GateInit(c) \/ GateHold(c)
    PROVE  TypeOK'
  <1>1. CASE GateStart(c)
    <2>1. call' \in [Calls -> CallStates]
      BY <1>1 DEF TypeOK, GateStart, CallStates, CallPcs
    <2>. QED
      BY <1>1, <2>1 DEF TypeOK, GateStart, dbVars, histVars
  <1>2. CASE GateReset(c)
    <2>1. call' \in [Calls -> CallStates]
      BY <1>2, StepType DEF TypeOK, GateReset, CallPcs
    <2>2. CASE MayReset(c)
      <3>1. call[c].now \in Nat /\ call[c].now + Period \in Nat
        BY DEF TypeOK, CallStates, ConstantsAssumption
      <3>2. balance' \in Balances /\ books' \in Books
        BY <1>2, <2>2, <3>1, RefillTypes DEF TypeOK, GateReset
      <3>3. gateGrants' \in [rows: Nat, last: Nat \cup {Null}]
        BY <1>2, <2>2, <3>1 DEF TypeOK, GateReset, RecordGrant
      <3>. QED
        BY <1>2, <2>1, <3>2, <3>3 DEF TypeOK, GateReset
    <2>3. CASE ~ MayReset(c)
      BY <1>2, <2>1, <2>3 DEF TypeOK, GateReset
    <2>. QED
      BY <2>2, <2>3
  <1>3. CASE GateInit(c)
    <2>1. call' \in [Calls -> CallStates]
      BY <1>3, StepType DEF TypeOK, GateInit, CallPcs
    <2>2. CASE ~ balance.exists
      <3>1. call[c].now \in Nat /\ call[c].now + Period \in Nat /\ Allowance \in Nat
        BY DEF TypeOK, CallStates, ConstantsAssumption
      <3>2. balance' \in Balances
        <4>. DEFINE end == call[c].now + Period
        <4>1. balance' = [EnsureRow(balance) EXCEPT !.monthly = Allowance, !.periodEnd = end]
          BY <1>3, <2>2 DEF GateInit
        <4>2. end \in Nat /\ balance \in Balances
          BY <3>1 DEF TypeOK
        <4>. HIDE DEF end
        <4>3. balance' = [exists |-> TRUE, monthly |-> Allowance,
                          topup |-> balance.topup, debt |-> balance.debt,
                          pending |-> balance.pending, periodEnd |-> end]
          BY <4>1, <4>2, ZenonT(60) DEF EnsureRow, Balances
        <4>4. /\ balance.topup \in Nat /\ balance.debt \in Nat
              /\ balance.pending \in 0..999
          BY <4>2 DEF Balances
        <4>. QED
          BY <3>1, <4>2, <4>3, <4>4 DEF Balances
      <3>3. books' \in Books
        BY <1>3, <2>2, <3>1 DEF TypeOK, GateInit, Books
      <3>4. gateGrants' \in [rows: Nat, last: Nat \cup {Null}]
        BY <1>3, <2>2, <3>1 DEF TypeOK, GateInit, RecordGrant
      <3>. QED
        BY <1>3, <2>1, <3>2, <3>3, <3>4 DEF TypeOK, GateInit
    <2>3. CASE balance.exists
      BY <1>3, <2>1, <2>3 DEF TypeOK, GateInit
    <2>. QED
      BY <2>2, <2>3
  <1>4. CASE GateHold(c)
    <2>1. PICK est \in HoldEstimates :
              \/ Admits(c, est) /\ PlaceHold(c, est) /\ Goto(c, "running")
              \/ ~ Admits(c, est) /\ Goto(c, "denied") /\ UNCHANGED holds
      BY <1>4 DEF GateHold
    <2>2. call' \in [Calls -> CallStates]
      BY <2>1, GotoType DEF TypeOK, CallPcs
    <2>3. call[c].now + HoldTTL \in Nat /\ est \in Nat
      BY DEF TypeOK, CallStates, ConstantsAssumption
    <2>4. holds' \in [Calls -> Holds]
      <3>. DEFINE end == call[c].now + HoldTTL
      <3>1. [placed |-> TRUE, est |-> est, expiresAt |-> end] \in Holds
        BY <2>3 DEF Holds
      <3>. QED
        BY <2>1, <3>1, ZenonT(60) DEF TypeOK, PlaceHold
    <2>. QED
      BY <1>4, <2>2, <2>4 DEF TypeOK, GateHold, histVars
  <1>. QED
    BY <1>1, <1>2, <1>3, <1>4

\* So do the steps of a call ...
LEMMA CallTypes ==
    ASSUME ConstantsAssumption, TypeOK, NEW c \in Calls, CallStep(c)
    PROVE  TypeOK'
  <1>1. CASE StartUngated(c)
    <2>1. call' \in [Calls -> CallStates]
      BY <1>1, GotoType DEF TypeOK, StartUngated, CallPcs
    <2>. QED
      BY <1>1, <2>1 DEF TypeOK, StartUngated, dbVars, histVars
  <1>2. CASE FailTokenless(c)
    <2>1. call' \in [Calls -> CallStates]
      BY <1>2, GotoType DEF TypeOK, FailTokenless, CallPcs
    <2>2. holds' \in [Calls -> Holds]
      BY <1>2, ReleaseType DEF TypeOK, FailTokenless
    <2>. QED
      BY <1>2, <2>1, <2>2 DEF TypeOK, FailTokenless, histVars
  <1>3. CASE WriteUsage(c)
    <2>1. call' \in [Calls -> CallStates]
      BY <1>3, GotoType DEF TypeOK, WriteUsage, CallPcs
    <2>2. usageLog' \in [Calls -> UsageLogs]
      BY <1>3 DEF TypeOK, WriteUsage, UsageLogs, ConstantsAssumption
    <2>. QED
      BY <1>3, <2>1, <2>2 DEF TypeOK, WriteUsage, histVars
  <1>4. CASE Claim(c)
    <2>1. call' \in [Calls -> CallStates]
      BY <1>4, GotoType DEF TypeOK, Claim, CallPcs
    <2>2. usageRow' \in [Calls -> UsageRows]
      BY <1>4 DEF TypeOK, Claim, InsertUsageRow, UsageRows
    <2>. QED
      BY <1>4, <2>1, <2>2 DEF TypeOK, Claim, histVars
  <1>5. CASE SkipZeroCharge(c)
    <2>1. call' \in [Calls -> CallStates]
      BY <1>5, GotoType DEF TypeOK, SkipZeroCharge, CallPcs
    <2>2. usageRow' \in [Calls -> UsageRows]
      BY <1>5 DEF TypeOK, SkipZeroCharge, UsageRows
    <2>. QED
      BY <1>5, <2>1, <2>2 DEF TypeOK, SkipZeroCharge, histVars
  <1>6. CASE ReleaseSkipped(c)
    <2>1. call' \in [Calls -> CallStates]
      BY <1>6, GotoType DEF TypeOK, ReleaseSkipped, CallPcs
    <2>2. holds' \in [Calls -> Holds]
      BY <1>6, ReleaseType DEF TypeOK, ReleaseSkipped
    <2>. QED
      BY <1>6, <2>1, <2>2 DEF TypeOK, ReleaseSkipped, histVars
  <1>7. CASE Settle(c)
    <2>1. call' \in [Calls -> CallStates]
      BY <1>7, GotoType DEF TypeOK, Settle, CallPcs
    <2>2. holds' \in [Calls -> Holds]
      BY <1>7, ReleaseType DEF TypeOK, Settle
    <2>3. /\ balance' \in Balances /\ books' \in Books
          /\ usageRow' \in [Calls -> UsageRows]
          /\ settles' \in [Calls -> Nat] /\ uncovered' \in BOOLEAN
      BY <1>7, DecrementTypes DEF Settle
    <2>. QED
      BY <1>7, <2>1, <2>2, <2>3 DEF TypeOK, Settle
  <1>8. CASE Crash(c)
    <2>1. call' \in [Calls -> CallStates]
      BY <1>8, GotoType DEF TypeOK, Crash, CallPcs
    <2>. QED
      BY <1>8, <2>1 DEF TypeOK, Crash, dbVars, histVars
  <1>. QED
    BY <1>1, <1>2, <1>3, <1>4, <1>5, <1>6, <1>7, <1>8, GateTypes DEF CallStep

\* One run's new state, if it is well-formed, keeps them all so.
LEMMA SweeperType ==
    ASSUME sweeper \in [Sweepers -> SweeperStates], NEW s \in Sweepers,
           NEW st \in SweeperStates, sweeper' = [sweeper EXCEPT ![s] = st]
    PROVE  sweeper' \in [Sweepers -> SweeperStates]
  OBVIOUS

\* The fields of a run of the backfill.
LEMMA SweeperSets ==
    ASSUME sweeper \in [Sweepers -> SweeperStates]
    PROVE  \A s \in Sweepers : /\ sweeper[s].claimed \subseteq Calls
                               /\ sweeper[s].retry \subseteq Calls
                               /\ sweeper[s].orphans \subseteq Calls
                               /\ sweeper[s].now \in Nat
  BY DEF SweeperStates

\* What a step may do to the state of one run of the backfill.
LEMMA SweeperExcept ==
    ASSUME NEW w \in SweeperStates, NEW now \in Nat,
           NEW set \in SUBSET Calls, NEW claimed \in SUBSET Calls
    PROVE  /\ [w EXCEPT !.pc = "select", !.now = now] \in SweeperStates
           /\ [w EXCEPT !.retry = set] \in SweeperStates
           /\ [w EXCEPT !.orphans = set] \in SweeperStates
           /\ [w EXCEPT !.orphans = set, !.claimed = claimed] \in SweeperStates
           /\ [w EXCEPT !.claimed = claimed] \in SweeperStates
           /\ \A orphans \in SUBSET Calls :
                  [w EXCEPT !.retry = set, !.orphans = orphans, !.claimed = claimed]
                      \in SweeperStates
  BY DEF SweeperStates

\* ... of a run of the backfill cron ...
LEMMA BackfillTypes ==
    ASSUME ConstantsAssumption, TypeOK, NEW s \in Sweepers,
           BackfillStep(s) \/ FailBackfill(s)
    PROVE  TypeOK'
  <1>1. CASE SweepHolds(s) \/ SkipHolds(s)
    <2>1. holds' \in [Calls -> Holds]
      <3>1. CASE SweepHolds(s)
        <4>1. \A c \in Calls : holds'[c] \in Holds
          BY <3>1 DEF TypeOK, SweepHolds, NoHold, Holds
        <4>. QED
          BY <3>1, <4>1 DEF SweepHolds
      <3>2. CASE SkipHolds(s)
        BY <3>2 DEF TypeOK, SkipHolds, dbVars
      <3>. QED
        BY <1>1, <3>1, <3>2
    <2>2. sweeper' \in [Sweepers -> SweeperStates]
      <3>. DEFINE w == sweeper[s]
      <3>1. w \in SweeperStates /\ clock \in Nat
        BY DEF TypeOK
      <3>2. sweeper' = [sweeper EXCEPT ![s] = [w EXCEPT !.pc = "select", !.now = clock]]
        BY <1>1 DEF SweepHolds, SkipHolds, TypeOK
      <3>. HIDE DEF w
      <3>3. [w EXCEPT !.pc = "select", !.now = clock] \in SweeperStates
        BY <3>1, SweeperExcept
      <3>. QED
        BY <3>2, <3>3, SweeperType DEF TypeOK
    <2>. QED
      BY <1>1, <2>1, <2>2 DEF TypeOK, SweepHolds, SkipHolds, dbVars, histVars
  <1>2. CASE SelectBacklog(s)
    <2>1. PICK retry \in SUBSET Calls, orphans \in SUBSET Calls :
              sweeper' = [sweeper EXCEPT ![s] =
                  IF retry \cup orphans = {} THEN IdleSweeper
                  ELSE [IdleSweeper EXCEPT !.pc = "work", !.retry = retry,
                                           !.orphans = orphans]]
      <3>. DEFINE old == RetryRows(Cutoff(s))
                  lost == OrphanLogs(Cutoff(s))
      <3>1. old \in SUBSET Calls /\ lost \in SUBSET Calls
        BY DEF RetryRows, OrphanLogs
      <3>2. sweeper' = [sweeper EXCEPT ![s] =
                  IF old \cup lost = {} THEN IdleSweeper
                  ELSE [IdleSweeper EXCEPT !.pc = "work", !.retry = old,
                                           !.orphans = lost]]
        BY <1>2 DEF SelectBacklog
      <3>. HIDE DEF old, lost
      <3>. QED
        BY <3>1, <3>2
    <2>2. sweeper' \in [Sweepers -> SweeperStates]
      BY <2>1 DEF TypeOK, SweeperStates, IdleSweeper
    <2>. QED
      BY <1>2, <2>2 DEF TypeOK, SelectBacklog, dbVars, histVars
  <1>3. ASSUME NEW c \in Calls, RetryPending(s, c) PROVE TypeOK'
    <2>1. sweeper' \in [Sweepers -> SweeperStates]
      <3>. DEFINE w == sweeper[s]
                  set == w.retry \ {c}
      <3>1. w \in SweeperStates
        BY DEF TypeOK
      <3>2. set \in SUBSET Calls
        BY <3>1 DEF SweeperStates
      <3>3. sweeper' = [sweeper EXCEPT ![s] = [w EXCEPT !.retry = set]]
        BY <1>3 DEF RetryPending, TypeOK
      <3>. HIDE DEF w, set
      <3>4. [w EXCEPT !.retry = set] \in SweeperStates
        BY <3>1, <3>2, SweeperExcept
      <3>. QED
        BY <3>3, <3>4, SweeperType DEF TypeOK
    <2>2. /\ balance' \in Balances /\ books' \in Books
          /\ usageRow' \in [Calls -> UsageRows]
          /\ settles' \in [Calls -> Nat] /\ uncovered' \in BOOLEAN
      BY <1>3, DecrementTypes DEF RetryPending, TypeOK
    <2>. QED
      BY <1>3, <2>1, <2>2 DEF TypeOK, RetryPending
  <1>4. ASSUME NEW c \in Calls, ClaimOrphan(s, c) PROVE TypeOK'
    <2>1. sweeper' \in [Sweepers -> SweeperStates]
      <3>. DEFINE w == sweeper[s]
                  set == w.orphans \ {c}
                  claimed == {c}
      <3>1. w \in SweeperStates
        BY DEF TypeOK
      <3>2. set \in SUBSET Calls /\ claimed \in SUBSET Calls
        BY <3>1 DEF SweeperStates
      <3>3. \/ sweeper' = [sweeper EXCEPT ![s] =
                               [w EXCEPT !.orphans = set, !.claimed = claimed]]
            \/ sweeper' = [sweeper EXCEPT ![s] = [w EXCEPT !.orphans = set]]
        BY <1>4 DEF ClaimOrphan, TypeOK
      <3>. HIDE DEF w, set, claimed
      <3>4. /\ [w EXCEPT !.orphans = set, !.claimed = claimed] \in SweeperStates
            /\ [w EXCEPT !.orphans = set] \in SweeperStates
        BY <3>1, <3>2, SweeperExcept
      <3>. QED
        BY <3>3, <3>4, SweeperType DEF TypeOK
    <2>2. usageRow' \in [Calls -> UsageRows]
      BY <1>4 DEF TypeOK, ClaimOrphan, InsertUsageRow, UsageRows
    <2>. QED
      BY <1>4, <2>1, <2>2 DEF TypeOK, ClaimOrphan, histVars
  <1>5. ASSUME NEW c \in Calls, SettleOrphan(s, c) PROVE TypeOK'
    <2>1. sweeper' \in [Sweepers -> SweeperStates]
      <3>. DEFINE w == sweeper[s]
      <3>1. w \in SweeperStates /\ {} \in SUBSET Calls
        BY DEF TypeOK
      <3>2. sweeper' = [sweeper EXCEPT ![s] = [w EXCEPT !.claimed = {}]]
        BY <1>5 DEF SettleOrphan, TypeOK
      <3>. HIDE DEF w
      <3>3. [w EXCEPT !.claimed = {}] \in SweeperStates
        BY <3>1 DEF SweeperStates
      <3>. QED
        BY <3>2, <3>3, SweeperType DEF TypeOK
    <2>2. CASE Charge(c) # 0 /\ DecrementAndSettle(c)
      <3>1. /\ balance' \in Balances /\ books' \in Books
            /\ usageRow' \in [Calls -> UsageRows]
            /\ settles' \in [Calls -> Nat] /\ uncovered' \in BOOLEAN
        BY <2>2, DecrementTypes
      <3>. QED
        BY <1>5, <2>1, <3>1 DEF TypeOK, SettleOrphan
    <2>3. CASE /\ usageRow' = [usageRow EXCEPT ![c].status = "skipped"]
               /\ UNCHANGED <<balance, books, settles, uncovered>>
      <3>1. usageRow' \in [Calls -> UsageRows]
        BY <2>3 DEF TypeOK, UsageRows
      <3>. QED
        BY <1>5, <2>1, <2>3, <3>1 DEF TypeOK, SettleOrphan
    <2>. QED
      BY <1>5, <2>2, <2>3 DEF SettleOrphan
  <1>6. CASE EndBackfill(s) \/ CrashBackfill(s)
    <2>1. sweeper' \in [Sweepers -> SweeperStates]
      BY <1>6, SMTT(30) DEF TypeOK, EndBackfill, CrashBackfill, SweeperStates, IdleSweeper
    <2>. QED
      BY <1>6, <2>1 DEF TypeOK, EndBackfill, CrashBackfill, dbVars, histVars
  <1>7. ASSUME NEW c \in Calls, SkipRow(s, c) PROVE TypeOK'
    <2>1. sweeper' \in [Sweepers -> SweeperStates]
      <3>. DEFINE w == sweeper[s]
                  retry == w.retry \ {c}
                  orphans == w.orphans \ {c}
                  claimed == w.claimed \ {c}
      <3>1. w \in SweeperStates /\ 0 \in Nat
        BY DEF TypeOK
      <3>2. /\ retry \in SUBSET Calls /\ orphans \in SUBSET Calls
            /\ claimed \in SUBSET Calls
        BY <3>1 DEF SweeperStates
      <3>3. sweeper' = [sweeper EXCEPT ![s] =
                  [w EXCEPT !.retry = retry, !.orphans = orphans, !.claimed = claimed]]
        BY <1>7 DEF SkipRow, TypeOK
      <3>. HIDE DEF w, retry, orphans, claimed
      <3>4. [w EXCEPT !.retry = retry, !.orphans = orphans, !.claimed = claimed]
                \in SweeperStates
        BY <3>1, <3>2, SweeperExcept
      <3>. QED
        BY <3>3, <3>4, SweeperType DEF TypeOK
    <2>. QED
      BY <1>7, <2>1 DEF TypeOK, SkipRow, dbVars, histVars
  <1>. QED
    BY <1>1, <1>2, <1>3, <1>4, <1>5, <1>6, <1>7 DEF BackfillStep, FailBackfill

\* One run's new state, if it is well-formed, keeps them all so.
LEMMA ReconcilerType ==
    ASSUME reconciler \in [Reconcilers -> ReconcilerStates], NEW r \in Reconcilers,
           NEW st \in ReconcilerStates, reconciler' = [reconciler EXCEPT ![r] = st]
    PROVE  reconciler' \in [Reconcilers -> ReconcilerStates]
  OBVIOUS

\* What a step may do to the state of one run of the cost reconciliation.
LEMMA ReconcilerExcept ==
    ASSUME NEW w \in ReconcilerStates, NEW delta \in Int,
           NEW pc \in {"fetch", "correct", "mark"}
    PROVE  /\ [w EXCEPT !.pc = pc] \in ReconcilerStates
           /\ [w EXCEPT !.pc = pc, !.deltaMc = delta] \in ReconcilerStates
  BY DEF ReconcilerStates

\* Deferring a row keeps the log and the run well-formed.
LEMMA DeferTypes ==
    ASSUME TypeOK, NEW r \in Reconcilers, NEW c \in Calls, Defer(r, c)
    PROVE  /\ usageLog' \in [Calls -> UsageLogs]
           /\ reconciler' \in [Reconcilers -> ReconcilerStates]
  <1>1. usageLog' \in [Calls -> UsageLogs]
    <2>1. CASE LastAttempt(r)
      BY <2>1 DEF Defer, TypeOK, UsageLogs
    <2>2. CASE ~ LastAttempt(r)
      <3>. DEFINE n == usageLog[c].attempts + 1
      <3>1. usageLog' = [usageLog EXCEPT ![c].attempts = n]
        BY <2>2 DEF Defer
      <3>2. n \in Nat
        BY DEF TypeOK, UsageLogs
      <3>. HIDE DEF n
      <3>. QED
        BY <3>1, <3>2 DEF TypeOK, UsageLogs
    <2>. QED
      BY <2>1, <2>2
  <1>2. reconciler' \in [Reconcilers -> ReconcilerStates]
    BY DEF Defer, TypeOK, ReconcilerStates, IdleReconciler
  <1>. QED
    BY <1>1, <1>2

\* Moving the balance by a correction keeps it well-formed.
LEMMA MoveDeltaTypes ==
    ASSUME TypeOK, NEW delta \in Int, MoveDelta(delta)
    PROVE  balance' \in Balances /\ books' \in Books /\ uncovered' \in BOOLEAN
  <1>1. CASE delta > 0
    <2>1. delta \in Nat
      BY <1>1
    <2>2. /\ balance' = Debit(balance, delta) /\ BookDebit(balance, delta)
          /\ uncovered' = TRUE
      BY <1>1 DEF MoveDelta
    <2>3. balance' \in Balances /\ books' \in Books
      BY <2>1, <2>2, DebitTypes DEF TypeOK
    <2>. QED
      BY <2>2, <2>3
  <1>2. CASE delta <= 0
    <2>. DEFINE cents == RefundCents(delta)
    <2>1. cents \in Nat
      BY <1>2, RefundCentsNat
    <2>2. balance' = Refund(balance, cents) /\ BookPayment(balance, cents)
      BY <1>2 DEF MoveDelta
    <2>. HIDE DEF cents
    <2>3. balance' \in Balances /\ books' \in Books
      BY <2>1, <2>2, PaymentTypes DEF TypeOK
    <2>. QED
      BY <1>2, <2>3 DEF MoveDelta, TypeOK
  <1>. QED
    BY <1>1, <1>2

\* ... of a run of the cost-reconcile cron ...
LEMMA ReconcileTypes ==
    ASSUME ConstantsAssumption, TypeOK, NEW r \in Reconcilers,
           ReconcileStep(r) \/ CrashReconcile(r)
    PROVE  TypeOK'
  <1>1. ASSUME NEW c \in Calls, PickRow(r, c) PROVE TypeOK'
    <2>1. reconciler' \in [Reconcilers -> ReconcilerStates]
      <3>. DEFINE n == usageLog[c].attempts
                  st == [IdleReconciler EXCEPT !.pc = "check", !.rows = {c},
                                               !.attempts = n]
      <3>1. reconciler' = [reconciler EXCEPT ![r] = st]
        BY <1>1 DEF PickRow
      <3>2. n \in Nat
        BY DEF TypeOK, UsageLogs
      <3>. HIDE DEF n
      <3>3. st \in ReconcilerStates
        <4>1. IdleReconciler \in ReconcilerStates
          BY DEF IdleReconciler, ReconcilerStates
        <4>2. {c} \in SUBSET Calls
          OBVIOUS
        <4>. QED
          BY <3>2, <4>1, <4>2 DEF ReconcilerStates
      <3>. HIDE DEF st
      <3>. QED
        BY <3>1, <3>3, ReconcilerType DEF TypeOK
    <2>. QED
      BY <1>1, <2>1 DEF TypeOK, PickRow, dbVars, histVars
  <1>2. ASSUME NEW c \in Calls, CheckBase(r, c) PROVE TypeOK'
    <2>1. CASE Defer(r, c)
      BY <1>2, <2>1, DeferTypes DEF TypeOK, CheckBase, histVars
    <2>2. CASE ~ Defer(r, c)
      <3>1. reconciler' \in [Reconcilers -> ReconcilerStates]
        <4>. DEFINE w == reconciler[r]
        <4>1. w \in ReconcilerStates
          BY DEF TypeOK
        <4>2. reconciler' = [reconciler EXCEPT ![r] = [w EXCEPT !.pc = "fetch"]]
          BY <1>2, <2>2 DEF CheckBase
        <4>. HIDE DEF w
        <4>3. [w EXCEPT !.pc = "fetch"] \in ReconcilerStates
          BY <4>1 DEF ReconcilerStates
        <4>. QED
          BY <4>2, <4>3, ReconcilerType DEF TypeOK
      <3>. QED
        BY <1>2, <2>2, <3>1 DEF TypeOK, CheckBase, histVars
    <2>. QED
      BY <2>1, <2>2
  <1>3. ASSUME NEW c \in Calls, FetchGeneration(r, c) PROVE TypeOK'
    <2>1. CASE Defer(r, c)
      BY <1>3, <2>1, DeferTypes DEF TypeOK, FetchGeneration, histVars
    <2>2. CASE ~ Defer(r, c)
      <3>1. PICK auth \in Costs :
                LET drift == ComputeCostDrift(usageLog[c].cost, auth, TolCents,
                                              TolBps, MarkupBps)
                IN  /\ reconciler' = [reconciler EXCEPT
                           ![r].pc = IF drift.shouldCorrect THEN "correct" ELSE "mark",
                           ![r].deltaMc = IF drift.shouldCorrect THEN drift.deltaMc
                                          ELSE 0]
                    /\ UNCHANGED usageLog
        BY <1>3, <2>2 DEF FetchGeneration
      <3>. DEFINE drift == ComputeCostDrift(usageLog[c].cost, auth, TolCents,
                                            TolBps, MarkupBps)
                  pc == IF drift.shouldCorrect THEN "correct" ELSE "mark"
                  delta == IF drift.shouldCorrect THEN drift.deltaMc ELSE 0
      <3>2. usageLog[c].cost \in Nat /\ auth \in Nat
        BY DEF TypeOK, UsageLogs, ConstantsAssumption
      <3>3. drift.deltaMc \in Int
        BY <3>2, CostDriftType
      <3>4. reconciler' = [reconciler EXCEPT ![r].pc = pc, ![r].deltaMc = delta]
        BY <3>1
      <3>. HIDE DEF drift
      <3>5. pc \in {"correct", "mark"} /\ delta \in Int
        BY <3>3
      <3>. HIDE DEF pc, delta
      <3>6. reconciler' \in [Reconcilers -> ReconcilerStates]
        <4>. DEFINE w == reconciler[r]
        <4>1. w \in ReconcilerStates
          BY DEF TypeOK
        <4>2. reconciler' = [reconciler EXCEPT ![r] =
                                 [w EXCEPT !.pc = pc, !.deltaMc = delta]]
          BY <3>4 DEF TypeOK
        <4>. HIDE DEF w
        <4>3. [w EXCEPT !.pc = pc, !.deltaMc = delta] \in ReconcilerStates
          BY <3>5, <4>1, ReconcilerExcept
        <4>. QED
          BY <4>2, <4>3, ReconcilerType DEF TypeOK
      <3>. QED
        BY <1>3, <3>1, <3>6 DEF TypeOK, FetchGeneration, histVars
    <2>. QED
      BY <2>1, <2>2
  <1>4. ASSUME NEW c \in Calls, ApplyCorrection(r, c) PROVE TypeOK'
    <2>. DEFINE delta == reconciler[r].deltaMc
    <2>1. delta \in Int
      BY DEF TypeOK, ReconcilerStates
    <2>2. reconciler' \in [Reconcilers -> ReconcilerStates]
      <3>. DEFINE w == reconciler[r]
      <3>1. w \in ReconcilerStates
        BY DEF TypeOK
      <3>2. reconciler' = [reconciler EXCEPT ![r] =
                               [w EXCEPT !.pc = "mark", !.deltaMc = 0]]
        BY <1>4 DEF ApplyCorrection, TypeOK
      <3>. HIDE DEF w
      <3>3. [w EXCEPT !.pc = "mark", !.deltaMc = 0] \in ReconcilerStates
        <4>. DEFINE zero == 0
        <4>1. zero \in Int
          OBVIOUS
        <4>. HIDE DEF zero
        <4>2. [w EXCEPT !.pc = "mark", !.deltaMc = zero] \in ReconcilerStates
          BY <3>1, <4>1, ReconcilerExcept
        <4>. QED
          BY <4>2 DEF zero
      <3>. QED
        BY <3>2, <3>3, ReconcilerType DEF TypeOK
    <2>3. correction' \in [Calls -> Corrections]
      <3>. DEFINE moved == balance.exists
                  row == [made |-> TRUE, moved |-> moved, at |-> clock,
                          deltaMc |-> delta]
      <3>1. moved \in BOOLEAN /\ clock \in Nat
        BY DEF TypeOK, Balances
      <3>2. correction' = correction \/ correction' = [correction EXCEPT ![c] = row]
        BY <1>4 DEF ApplyCorrection
      <3>. HIDE DEF moved, delta
      <3>3. row \in Corrections
        BY <2>1, <3>1 DEF Corrections
      <3>. HIDE DEF row
      <3>. QED
        BY <3>2, <3>3 DEF TypeOK
    <2>4. CASE MoveDelta(delta)
      <3>1. balance' \in Balances /\ books' \in Books /\ uncovered' \in BOOLEAN
        BY <2>1, <2>4, MoveDeltaTypes
      <3>. QED
        BY <1>4, <2>2, <2>3, <3>1 DEF TypeOK, ApplyCorrection
    <2>5. CASE UNCHANGED <<balance, books, uncovered>>
      BY <1>4, <2>2, <2>3, <2>5 DEF TypeOK, ApplyCorrection
    <2>. QED
      BY <1>4, <2>4, <2>5 DEF ApplyCorrection
  <1>5. ASSUME NEW c \in Calls, MarkReconciled(r, c) PROVE TypeOK'
    <2>1. usageLog' \in [Calls -> UsageLogs]
      BY <1>5 DEF TypeOK, MarkReconciled, UsageLogs
    <2>2. reconciler' \in [Reconcilers -> ReconcilerStates]
      BY <1>5 DEF TypeOK, MarkReconciled, ReconcilerStates, IdleReconciler
    <2>. QED
      BY <1>5, <2>1, <2>2 DEF TypeOK, MarkReconciled, histVars
  <1>6. CASE CrashReconcile(r)
    <2>1. reconciler' \in [Reconcilers -> ReconcilerStates]
      BY <1>6 DEF TypeOK, CrashReconcile, ReconcilerStates, IdleReconciler
    <2>. QED
      BY <1>6, <2>1 DEF TypeOK, CrashReconcile, dbVars, histVars
  <1>. QED
    BY <1>1, <1>2, <1>3, <1>4, <1>5, <1>6 DEF ReconcileStep

\* ... and the two kinds of funding.
LEMMA InvoiceTypes ==
    ASSUME ConstantsAssumption, TypeOK, NEW ref \in Invoices, FundInvoice(ref)
    PROVE  TypeOK'
  <1>1. PICK lag \in InvoiceLags :
            balance' = Refill(EnsureRow(balance), clock + Period - lag)
    BY DEF FundInvoice
  <1>. DEFINE end == clock + Period - lag
              b   == EnsureRow(balance)
  <1>2. end \in Nat /\ b \in Balances
    BY EnsureRowType DEF TypeOK, ConstantsAssumption
  <1>3. BookRefill(b)
    BY EnsureRowType DEF FundInvoice, BookRefill, TypeOK
  <1>. HIDE DEF end, b
  <1>4. balance' \in Balances /\ books' \in Books
    BY <1>1, <1>2, <1>3, RefillTypes DEF TypeOK, end, b
  <1>. QED
    BY <1>4 DEF TypeOK, FundInvoice, procVars

\* The other kind of funding: credit packs.
LEMMA PackTypes ==
    ASSUME ConstantsAssumption, TypeOK, NEW ref \in Packs, FundPack(ref)
    PROVE  TypeOK'
  <1>1. EnsureRow(balance) \in Balances /\ PackCents \in Nat
    BY EnsureRowType DEF TypeOK, ConstantsAssumption
  <1>2. BookPayment(EnsureRow(balance), PackCents)
    BY EnsureRowType DEF FundPack, BookPayment, TypeOK
  <1>3. balance' \in Balances /\ books' \in Books
    BY <1>1, <1>2, PaymentTypes DEF TypeOK, FundPack
  <1>. QED
    BY <1>3 DEF TypeOK, FundPack, procVars

\* The initial state is well-formed.
LEMMA InitTypes ==
    ASSUME Init
    PROVE  TypeOK
  <1>1. balance \in Balances /\ books \in Books
    BY DEF Init, NoBalance, Balances, Books
  <1>2. usageLog \in [Calls -> UsageLogs] /\ usageRow \in [Calls -> UsageRows]
    BY DEF Init, NoLog, NoUsageRow, UsageLogs, UsageRows
  <1>3. correction \in [Calls -> Corrections] /\ holds \in [Calls -> Holds]
    BY DEF Init, NoCorrection, NoHold, Corrections, Holds
  <1>4. call \in [Calls -> CallStates]
    BY DEF Init, CallStates, CallPcs
  <1>5. /\ sweeper \in [Sweepers -> SweeperStates]
        /\ reconciler \in [Reconcilers -> ReconcilerStates]
    BY DEF Init, IdleSweeper, IdleReconciler, SweeperStates, ReconcilerStates
  <1>. QED
    BY <1>1, <1>2, <1>3, <1>4, <1>5 DEF Init, TypeOK

\* Every step keeps TypeOK.
LEMMA StepTypes ==
    ASSUME ConstantsAssumption, TypeOK, [Next]_vars
    PROVE  TypeOK'
  <1>1. ASSUME NEW c \in Calls, CallStep(c) PROVE TypeOK'
    BY <1>1, CallTypes
  <1>2. ASSUME NEW s \in Sweepers, BackfillStep(s) \/ FailBackfill(s) PROVE TypeOK'
    BY <1>2, BackfillTypes
  <1>3. ASSUME NEW r \in Reconcilers, ReconcileStep(r) \/ CrashReconcile(r)
        PROVE  TypeOK'
    BY <1>3, ReconcileTypes
  <1>4. ASSUME NEW ref \in Invoices, FundInvoice(ref) PROVE TypeOK'
    BY <1>4, InvoiceTypes
  <1>5. ASSUME NEW ref \in Packs, FundPack(ref) PROVE TypeOK'
    BY <1>5, PackTypes
  <1>6. CASE SubscriptionChange
    BY <1>6 DEF TypeOK, SubscriptionChange, procVars, histVars
  <1>7. CASE Tick
    BY <1>7 DEF TypeOK, Tick, dbVars, histVars
  <1>8. CASE UNCHANGED vars
    BY <1>8 DEF TypeOK, vars, dbVars, procVars, histVars
  <1>. QED
    BY <1>1, <1>2, <1>3, <1>4, <1>5, <1>6, <1>7, <1>8 DEF Next

\* Every variable keeps its shape, and the amounts of the balance row stay in
\* the ranges that the CHECK constraints of credit_balances demand: no debit,
\* refill, refund or purchase ever violates one and fails.
THEOREM TypeCorrect == Spec => []TypeOK
  <1>1. Init => TypeOK
    BY InitTypes
  <1>2. TypeOK /\ [Next]_vars => TypeOK'
    BY StepTypes, ConstantsAssumption
  <1>. QED
    BY <1>1, <1>2, PTL DEF Spec

(***************************************************************************)
(* The books balance                                                       *)
(***************************************************************************)
\* Every step that touches the balance row is one of four moves.
LazyGrant ==
    /\ ~ balance.exists
    /\ \E end \in Nat : balance' = [EnsureRow(balance) EXCEPT !.monthly = Allowance,
                                                             !.periodEnd = end]
    /\ books' = [books EXCEPT !.credits = @ + Allowance]

Renewal ==
    \E end \in Nat :
        balance' = Refill(EnsureRow(balance), end) /\ BookRefill(balance)

Charged ==
    /\ balance.exists
    /\ \E mc \in Nat : balance' = Debit(balance, mc) /\ BookDebit(balance, mc)

PaidIn ==
    \E cents \in Nat :
        balance' = Refund(EnsureRow(balance), cents) /\ BookPayment(balance, cents)

Moved == LazyGrant \/ Renewal \/ Charged \/ PaidIn \/ UNCHANGED <<balance, books>>

\* Ensuring a row that is there changes nothing.
LEMMA EnsureExisting ==
    ASSUME NEW b \in Balances, b.exists
    PROVE  EnsureRow(b) = b
  <1>1. b.exists = TRUE
    BY DEF Balances
  <1>2. b = [exists |-> b.exists, monthly |-> b.monthly, topup |-> b.topup,
             debt |-> b.debt, pending |-> b.pending, periodEnd |-> b.periodEnd]
    BY DEF Balances
  <1>3. EnsureRow(b) = [exists |-> TRUE, monthly |-> b.monthly, topup |-> b.topup,
                        debt |-> b.debt, pending |-> b.pending,
                        periodEnd |-> b.periodEnd]
    BY ZenonT(60) DEF EnsureRow, Balances
  <1>. QED
    BY <1>1, <1>2, <1>3

\* decrementAndSettle charges the row or leaves it.
LEMMA DecrementMoves ==
    ASSUME ConstantsAssumption, TypeOK, NEW c \in Calls, DecrementAndSettle(c)
    PROVE  Moved
  <1>1. Charge(c) \in Nat
    BY ChargeNat DEF TypeOK
  <1>. QED
    BY <1>1 DEF DecrementAndSettle, Moved, Charged

\* A correction charges the row or pays into it.
LEMMA CorrectionMoves ==
    ASSUME TypeOK, balance.exists, NEW delta \in Int, MoveDelta(delta)
    PROVE  Moved
  <1>1. CASE delta > 0
    <2>1. delta \in Nat
      BY <1>1
    <2>. QED
      BY <1>1, <2>1 DEF MoveDelta, Moved, Charged
  <1>2. CASE delta <= 0
    <2>1. RefundCents(delta) \in Nat
      BY <1>2, RefundCentsNat
    <2>2. EnsureRow(balance) = balance
      BY EnsureExisting DEF TypeOK
    <2>. QED
      BY <1>2, <2>1, <2>2 DEF MoveDelta, Moved, PaidIn
  <1>. QED
    BY <1>1, <1>2

\* Every step is one of the four moves or leaves the row alone.
LEMMA StepMoves ==
    ASSUME ConstantsAssumption, TypeOK, [Next]_vars
    PROVE  Moved
  <1>. USE DEF dbVars, procVars, histVars
  <1>1. ASSUME NEW c \in Calls, CallStep(c) PROVE Moved
    <2>1. call[c].now + Period \in Nat
      BY DEF TypeOK, CallStates, ConstantsAssumption
    <2>2. CASE GateReset(c)
      <3>1. CASE MayReset(c)
        <4>1. EnsureRow(balance) = balance
          BY <3>1, EnsureExisting DEF TypeOK, MayReset
        <4>. QED
          BY <2>1, <2>2, <3>1, <4>1 DEF GateReset, Moved, Renewal
      <3>. QED
        BY <2>2, <3>1 DEF GateReset, Moved
    <2>3. CASE GateInit(c)
      BY <2>1, <2>3 DEF GateInit, Moved, LazyGrant
    <2>4. CASE Settle(c)
      BY <2>4, DecrementMoves DEF Settle
    <2>5. CASE \/ GateStart(c) \/ GateHold(c) \/ StartUngated(c) \/ FailTokenless(c)
               \/ WriteUsage(c) \/ Claim(c) \/ SkipZeroCharge(c)
               \/ ReleaseSkipped(c) \/ Crash(c)
      BY <2>5 DEF GateStart, GateHold, StartUngated, FailTokenless, WriteUsage,
                  Claim, SkipZeroCharge, ReleaseSkipped, Crash, Moved
    <2>. QED
      BY <1>1, <2>2, <2>3, <2>4, <2>5 DEF CallStep
  <1>2. ASSUME NEW s \in Sweepers, BackfillStep(s) \/ FailBackfill(s) PROVE Moved
    <2>1. ASSUME NEW c \in Calls, RetryPending(s, c) \/ SettleOrphan(s, c) PROVE Moved
      BY <2>1, DecrementMoves DEF RetryPending, SettleOrphan, Moved
    <2>2. ASSUME NEW c \in Calls, ClaimOrphan(s, c) PROVE Moved
      BY <2>2 DEF ClaimOrphan, Moved
    <2>3. CASE SweepHolds(s) \/ SelectBacklog(s) \/ EndBackfill(s) \/ FailBackfill(s)
      BY <2>3 DEF SweepHolds, SelectBacklog, EndBackfill, FailBackfill, CrashBackfill,
                  SkipHolds, SkipRow, Moved
    <2>. QED
      BY <1>2, <2>1, <2>2, <2>3 DEF BackfillStep
  <1>3. ASSUME NEW r \in Reconcilers, ReconcileStep(r) \/ CrashReconcile(r)
        PROVE  Moved
    <2>1. ASSUME NEW c \in Calls, ApplyCorrection(r, c) PROVE Moved
      <3>1. reconciler[r].deltaMc \in Int
        BY DEF TypeOK, ReconcilerStates
      <3>. QED
        BY <2>1, <3>1, CorrectionMoves DEF ApplyCorrection, Moved
    <2>2. ASSUME NEW c \in Calls, \/ PickRow(r, c) \/ CheckBase(r, c)
                                  \/ FetchGeneration(r, c) \/ MarkReconciled(r, c)
          PROVE  Moved
      BY <2>2 DEF PickRow, CheckBase, FetchGeneration, MarkReconciled, Moved
    <2>. QED
      BY <1>3, <2>1, <2>2 DEF ReconcileStep, CrashReconcile, Moved
  <1>4. ASSUME NEW ref \in Invoices, FundInvoice(ref) PROVE Moved
    <2>1. \A lag \in InvoiceLags : clock + Period - lag \in Nat
      BY DEF TypeOK, ConstantsAssumption
    <2>. QED
      BY <1>4, <2>1 DEF FundInvoice, Moved, Renewal
  <1>5. ASSUME NEW ref \in Packs, FundPack(ref) PROVE Moved
    BY <1>5 DEF FundPack, Moved, PaidIn, ConstantsAssumption
  <1>6. CASE SubscriptionChange \/ Tick \/ UNCHANGED vars
    BY <1>6 DEF SubscriptionChange, Tick, vars, Moved
  <1>. QED
    BY <1>1, <1>2, <1>3, <1>4, <1>5, <1>6 DEF Next

\* What makes BooksBalance inductive: the lazy grant overwrites the monthly
\* bucket, so that it must be empty before the row exists.
RowlessIsEmpty == ~ balance.exists => balance.monthly = 0 /\ balance.debt = 0

MoneyInv == BooksBalance /\ DebtOnlyWhenDrained /\ RowlessIsEmpty

\* BooksBalance of the next state, from the values its amounts have there.
LEMMA BooksBalanceNext ==
    ASSUME NEW m \in Nat, NEW t \in Nat, NEW d \in Nat, NEW p \in Nat,
           NEW cr \in Nat, NEW ap \in Nat, NEW pd \in Nat, NEW fo \in Nat, NEW ch \in Nat,
           balance'.monthly = m, balance'.topup = t, balance'.debt = d,
           balance'.pending = p, books'.credits = cr, books'.applied = ap,
           books'.paidDebt = pd, books'.forgiven = fo, books'.charged = ch,
           m + t = cr - ap - pd,
           1000 * (ap + d + pd + fo) + p = ch
    PROVE  BooksBalance'
  BY DEF BooksBalance, BucketsBalance, ChargesBalance

\* The amounts of a balance row are natural numbers.
LEMMA BalanceNat ==
    ASSUME NEW b \in Balances
    PROVE  /\ b.monthly \in Nat /\ b.topup \in Nat /\ b.debt \in Nat
           /\ b.pending \in Nat /\ b.exists \in BOOLEAN
  BY DEF Balances

\* A charge keeps the books balanced ...
LEMMA ChargedKeepsMoney ==
    ASSUME TypeOK, MoneyInv, Charged
    PROVE  MoneyInv'
  <1>1. PICK mc \in Nat : balance' = Debit(balance, mc) /\ BookDebit(balance, mc)
    BY DEF Charged
  <1>. DEFINE a  == SpendFor(balance, mc).applied
              m == balance.monthly
              t == balance.topup
              d == balance.debt
              p == balance.pending
              m2 == Debit(balance, mc).monthly
              t2 == Debit(balance, mc).topup
              d2 == Debit(balance, mc).debt
              p2 == Debit(balance, mc).pending
              cr == books.credits
              ap == books.applied
              pd == books.paidDebt
              fo == books.forgiven
              ch == books.charged
  <1>2. balance \in Balances /\ Debit(balance, mc) \in Balances
    BY DebitFacts DEF TypeOK
  <1>3. a \in Nat /\ m2 + t2 = m + t - a /\ 1000 * (a + d2) + p2 = 1000 * d + p + mc
    BY <1>2, DebitFacts
  <1>4. /\ m \in Nat /\ t \in Nat /\ d \in Nat /\ p \in Nat
        /\ m2 \in Nat /\ t2 \in Nat /\ d2 \in Nat /\ p2 \in Nat
    BY <1>2, BalanceNat
  <1>5. /\ books'.credits = cr /\ books'.applied = ap + a /\ books'.paidDebt = pd
        /\ books'.forgiven = fo /\ books'.charged = ch + mc
    BY <1>1 DEF BookDebit, TypeOK, Books
  <1>6. cr \in Nat /\ ap \in Nat /\ pd \in Nat /\ fo \in Nat /\ ch \in Nat
    BY BooksNat DEF TypeOK
  <1>7. m + t = cr - ap - pd /\ 1000 * (ap + d + pd + fo) + p = ch
    BY DEF MoneyInv, BooksBalance, BucketsBalance, ChargesBalance
  <1>8. /\ balance'.monthly = m2 /\ balance'.topup = t2
        /\ balance'.debt = d2 /\ balance'.pending = p2
    BY <1>1
  <1>9. DebtOnlyWhenDrained'
    <2>1. DebtIsDrained(balance)
      BY DEF MoneyInv, DebtOnlyWhenDrained, DebtIsDrained
    <2>2. DebtIsDrained(Debit(balance, mc))
      BY <1>2, <2>1, DebitFacts
    <2>. QED
      BY <1>1, <2>2 DEF DebtOnlyWhenDrained, DebtIsDrained
  <1>10. RowlessIsEmpty'
    <2>1. Debit(balance, mc).exists = balance.exists
      BY <1>2, DebitFacts
    <2>2. balance'.exists = balance.exists
      BY <1>1, <2>1
    <2>. QED
      BY <2>2 DEF RowlessIsEmpty, Charged
  <1>. HIDE DEF a, m, t, d, p, m2, t2, d2, p2, cr, ap, pd, fo, ch
  <1>11. /\ m2 + t2 = cr - (ap + a) - pd
         /\ 1000 * ((ap + a) + d2 + pd + fo) + p2 = ch + mc
    BY <1>3, <1>4, <1>6, <1>7
  <1>12. ap + a \in Nat /\ ch + mc \in Nat
    BY <1>3, <1>6
  <1>13. BooksBalance'
    BY <1>4, <1>5, <1>6, <1>8, <1>11, <1>12, BooksBalanceNext
  <1>. QED
    BY <1>9, <1>10, <1>13 DEF MoneyInv

\* ... so does a payment or a refund ...
LEMMA PaidInKeepsMoney ==
    ASSUME TypeOK, MoneyInv, PaidIn
    PROVE  MoneyInv'
  <1>1. PICK cents \in Nat : /\ balance' = Refund(EnsureRow(balance), cents)
                             /\ BookPayment(balance, cents)
    BY DEF PaidIn
  <1>. DEFINE b == EnsureRow(balance)
              paid == ApplyPaymentToDebt(balance.debt, balance.topup, cents).paidDebt
              m == balance.monthly
              t == balance.topup
              d == balance.debt
              p == balance.pending
              t2 == t + (cents - paid)
              d2 == d - paid
              cr == books.credits
              ap == books.applied
              pd == books.paidDebt
              fo == books.forgiven
              ch == books.charged
  <1>2. balance \in Balances
    BY DEF TypeOK
  <1>3. /\ b \in Balances /\ b.monthly = m /\ b.topup = t /\ b.debt = d
        /\ b.pending = p /\ b.exists
    BY <1>2, EnsureRowType
  <1>4. paid = ApplyPaymentToDebt(b.debt, b.topup, cents).paidDebt
    BY <1>3
  <1>. HIDE DEF b
  <1>5. /\ Refund(b, cents) \in Balances /\ paid \in Nat
        /\ Refund(b, cents).monthly = m /\ Refund(b, cents).topup = t2
        /\ Refund(b, cents).debt = d2 /\ Refund(b, cents).pending = p
        /\ DebtIsDrained(b) => DebtIsDrained(Refund(b, cents))
        /\ Refund(b, cents).exists
    BY <1>3, <1>4, RefundFacts
  <1>6. balance' = Refund(b, cents)
    BY <1>1 DEF b
  <1>7. m \in Nat /\ t \in Nat /\ d \in Nat /\ p \in Nat /\ t2 \in Nat /\ d2 \in Nat
    BY <1>2, <1>5, BalanceNat
  <1>8. /\ books'.credits = cr + cents /\ books'.applied = ap
        /\ books'.paidDebt = pd + paid
        /\ books'.forgiven = fo /\ books'.charged = ch
    BY <1>1 DEF BookPayment, TypeOK, Books
  <1>9. cr \in Nat /\ ap \in Nat /\ pd \in Nat /\ fo \in Nat /\ ch \in Nat
    BY BooksNat DEF TypeOK
  <1>10. m + t = cr - ap - pd /\ 1000 * (ap + d + pd + fo) + p = ch
    BY DEF MoneyInv, BooksBalance, BucketsBalance, ChargesBalance
  <1>11. DebtOnlyWhenDrained'
    <2>1. DebtIsDrained(b)
      BY <1>3 DEF MoneyInv, DebtOnlyWhenDrained, DebtIsDrained
    <2>. QED
      BY <1>5, <1>6, <2>1 DEF DebtOnlyWhenDrained, DebtIsDrained
  <1>12. RowlessIsEmpty'
    BY <1>5, <1>6 DEF RowlessIsEmpty
  <1>13. /\ balance'.monthly = m /\ balance'.topup = t2
         /\ balance'.debt = d2 /\ balance'.pending = p
    BY <1>5, <1>6
  <1>14. paid \in Nat
    BY <1>5
  <1>. HIDE DEF paid, m, t, d, p, cr, ap, pd, fo, ch
  <1>15. /\ m + t2 = (cr + cents) - ap - (pd + paid)
         /\ 1000 * (ap + d2 + (pd + paid) + fo) + p = ch
         /\ cr + cents \in Nat /\ pd + paid \in Nat
    BY <1>7, <1>9, <1>10, <1>14
  <1>. HIDE DEF t2, d2
  <1>16. BooksBalance'
    BY <1>7, <1>8, <1>9, <1>13, <1>15, BooksBalanceNext
  <1>. QED
    BY <1>11, <1>12, <1>16 DEF MoneyInv

\* ... a refill by an invoice or by the gate ...
LEMMA RenewalKeepsMoney ==
    ASSUME ConstantsAssumption, TypeOK, MoneyInv, Renewal
    PROVE  MoneyInv'
  <1>1. PICK end \in Nat : /\ balance' = Refill(EnsureRow(balance), end)
                           /\ BookRefill(balance)
    BY DEF Renewal
  <1>. DEFINE b == EnsureRow(balance)
              netted == Lesser(balance.debt, balance.monthly + Allowance)
              m == balance.monthly
              t == balance.topup
              d == balance.debt
              p == balance.pending
              m2 == (m + Allowance) - netted
              left == d - netted
              cr == books.credits
              ap == books.applied
              pd == books.paidDebt
              fo == books.forgiven
              ch == books.charged
  <1>2. balance \in Balances /\ Allowance \in Nat
    BY DEF TypeOK, ConstantsAssumption
  <1>3. /\ b \in Balances /\ b.monthly = m /\ b.topup = t /\ b.debt = d
        /\ b.pending = p /\ b.exists
    BY <1>2, EnsureRowType
  <1>4. netted = Lesser(b.debt, b.monthly + Allowance)
    BY <1>3
  <1>. HIDE DEF b
  <1>5. /\ Refill(b, end) \in Balances /\ netted \in Nat /\ left \in Nat
        /\ Refill(b, end).monthly = m2 /\ Refill(b, end).topup = t
        /\ Refill(b, end).debt = 0 /\ Refill(b, end).pending = p
        /\ Refill(b, end).exists
    <2>. DEFINE n == Lesser(b.debt, b.monthly + Allowance)
    <2>1. /\ Refill(b, end) \in Balances /\ n \in Nat /\ b.debt - n \in Nat
          /\ Refill(b, end).monthly = (b.monthly + Allowance) - n
          /\ Refill(b, end).topup = b.topup
          /\ Refill(b, end).debt = 0 /\ Refill(b, end).pending = b.pending
          /\ Refill(b, end).exists = b.exists
      BY ZenonT(60), <1>3, RefillFacts
    <2>2. n = netted
      BY <1>4
    <2>. HIDE DEF n, netted
    <2>. QED
      BY <1>3, <2>1, <2>2
  <1>6. balance' = Refill(b, end)
    BY <1>1 DEF b
  <1>7. m \in Nat /\ t \in Nat /\ d \in Nat /\ p \in Nat /\ m2 \in Nat
    BY <1>2, <1>5, BalanceNat
  <1>8. /\ books'.credits = cr + Allowance /\ books'.applied = ap
        /\ books'.paidDebt = pd + netted
        /\ books'.forgiven = fo + left /\ books'.charged = ch
    BY <1>1 DEF BookRefill, TypeOK, Books
  <1>9. cr \in Nat /\ ap \in Nat /\ pd \in Nat /\ fo \in Nat /\ ch \in Nat
    BY BooksNat DEF TypeOK
  <1>10. m + t = cr - ap - pd /\ 1000 * (ap + d + pd + fo) + p = ch
    BY DEF MoneyInv, BooksBalance, BucketsBalance, ChargesBalance
  <1>11. DebtOnlyWhenDrained' /\ RowlessIsEmpty'
    BY <1>5, <1>6 DEF DebtOnlyWhenDrained, RowlessIsEmpty
  <1>12. /\ balance'.monthly = m2 /\ balance'.topup = t
         /\ balance'.debt = 0 /\ balance'.pending = p
    BY <1>5, <1>6
  <1>13. netted \in Nat /\ left \in Nat
    BY <1>5
  <1>. HIDE DEF netted, m, t, d, p, cr, ap, pd, fo, ch
  <1>14. /\ m2 + t = (cr + Allowance) - ap - (pd + netted)
         /\ 1000 * (ap + 0 + (pd + netted) + (fo + left)) + p = ch
         /\ cr + Allowance \in Nat /\ pd + netted \in Nat /\ fo + left \in Nat
    BY <1>2, <1>7, <1>9, <1>10, <1>13
  <1>. HIDE DEF m2, left
  <1>. DEFINE zero == 0
              cr2 == cr + Allowance
              pd2 == pd + netted
              fo2 == fo + left
  <1>15. /\ zero \in Nat /\ balance'.debt = zero
         /\ cr2 \in Nat /\ pd2 \in Nat /\ fo2 \in Nat
         /\ books'.credits = cr2 /\ books'.paidDebt = pd2 /\ books'.forgiven = fo2
         /\ m2 + t = cr2 - ap - pd2
         /\ 1000 * (ap + zero + pd2 + fo2) + p = ch
    BY <1>8, <1>12, <1>14
  <1>16. /\ balance'.monthly = m2 /\ balance'.topup = t /\ balance'.pending = p
         /\ books'.applied = ap /\ books'.charged = ch
    BY <1>8, <1>12
  <1>. HIDE DEF zero, cr2, pd2, fo2
  <1>17. BooksBalance'
    BY <1>7, <1>9, <1>15, <1>16, BooksBalanceNext
  <1>. QED
    BY <1>11, <1>17 DEF MoneyInv

\* ... and the lazy first grant.
LEMMA LazyGrantKeepsMoney ==
    ASSUME ConstantsAssumption, TypeOK, MoneyInv, LazyGrant
    PROVE  MoneyInv'
  <1>. DEFINE t == balance.topup
              d == balance.debt
              p == balance.pending
              cr == books.credits
              ap == books.applied
              pd == books.paidDebt
              fo == books.forgiven
              ch == books.charged
  <1>1. balance \in Balances /\ Allowance \in Nat
    BY DEF TypeOK, ConstantsAssumption
  <1>2. /\ balance'.monthly = Allowance /\ balance'.topup = t /\ balance'.debt = d
        /\ balance'.pending = p /\ balance'.exists = TRUE
    BY <1>1 DEF LazyGrant, EnsureRow, Balances
  <1>3. /\ books'.credits = cr + Allowance /\ books'.applied = ap
        /\ books'.paidDebt = pd /\ books'.forgiven = fo /\ books'.charged = ch
    BY DEF LazyGrant, TypeOK, Books
  <1>4. balance.monthly = 0 /\ d = 0
    BY DEF LazyGrant, MoneyInv, RowlessIsEmpty
  <1>5. t = cr - ap - pd /\ 1000 * (ap + d + pd + fo) + p = ch
    <2>1. balance.monthly + t = cr - ap - pd /\ t \in Nat
      BY <1>1, BalanceNat DEF MoneyInv, BooksBalance, BucketsBalance
    <2>2. t = cr - ap - pd
      BY <1>4, <2>1
    <2>. QED
      BY <2>2 DEF MoneyInv, BooksBalance, ChargesBalance
  <1>6. /\ t \in Nat /\ d \in Nat /\ p \in Nat
        /\ cr \in Nat /\ ap \in Nat /\ pd \in Nat /\ fo \in Nat /\ ch \in Nat
    BY <1>1, BalanceNat, BooksNat DEF TypeOK
  <1>7. DebtOnlyWhenDrained' /\ RowlessIsEmpty'
    BY <1>2, <1>4 DEF DebtOnlyWhenDrained, RowlessIsEmpty
  <1>. HIDE DEF t, d, p, cr, ap, pd, fo, ch
  <1>8. Allowance + t = (cr + Allowance) - ap - pd /\ cr + Allowance \in Nat
    BY <1>1, <1>5, <1>6
  <1>9. BooksBalance'
    BY <1>1, <1>2, <1>3, <1>5, <1>6, <1>8, BooksBalanceNext
  <1>. QED
    BY <1>7, <1>9 DEF MoneyInv

\* So every step keeps MoneyInv.
LEMMA StepKeepsMoney ==
    ASSUME ConstantsAssumption, TypeOK, MoneyInv, [Next]_vars
    PROVE  MoneyInv'
  <1>1. CASE UNCHANGED <<balance, books>>
    BY <1>1 DEF MoneyInv, BooksBalance, BucketsBalance, ChargesBalance,
                DebtOnlyWhenDrained, RowlessIsEmpty
  <1>. QED
    BY <1>1, StepMoves, LazyGrantKeepsMoney, RenewalKeepsMoney, ChargedKeepsMoney,
       PaidInKeepsMoney DEF Moved

\* MoneyInv, with TypeOK, is an invariant.
LEMMA MoneyInvariant == Spec => [](TypeOK /\ MoneyInv)
  <1>1. Init => TypeOK /\ MoneyInv
    <2>1. Init => MoneyInv
      BY DEF Init, NoBalance, MoneyInv, BooksBalance, BucketsBalance,
             ChargesBalance, DebtOnlyWhenDrained, RowlessIsEmpty
    <2>. QED
      BY <2>1, InitTypes
  <1>2. TypeOK /\ MoneyInv /\ [Next]_vars => (TypeOK /\ MoneyInv)'
    BY StepTypes, StepKeepsMoney, ConstantsAssumption
  <1>. QED
    BY <1>1, <1>2, PTL DEF Spec

\* No cent and no millicent is lost or made: whatever calls, sweeps, renewals,
\* corrections and payments interleave, the buckets hold what was credited less
\* what was spent or paid off, and every charge was drawn, is owed, was paid
\* off or forgiven, or is carried as the sub-cent remainder.
THEOREM MoneyConserved == Spec => []BooksBalance
  <1>1. MoneyInv => BooksBalance
    BY DEF MoneyInv
  <1>. QED
    BY <1>1, MoneyInvariant, PTL

\* No account owes and owns at the same time: spending reaches debt only when
\* both buckets are drained, and whatever comes in clears it first.
THEOREM DebtImpliesDrained == Spec => []DebtOnlyWhenDrained
  <1>1. MoneyInv => DebtOnlyWhenDrained
    BY DEF MoneyInv
  <1>. QED
    BY <1>1, MoneyInvariant, PTL
=============================================================================
