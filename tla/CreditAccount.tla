---------------------------- MODULE CreditAccount ----------------------------
(***************************************************************************)
(* What the credit system promises about one account, without buckets,     *)
(* holds, ledger rows, crons or crashes.  The account has one number, the  *)
(* net spendable amount (monthly + topup - debt - sub-cent remainder), in  *)
(* millicents, and it moves only as follows:                               *)
(*   - a call is billed its exact price, once;                             *)
(*   - a billed price is corrected once;                                   *)
(*   - a payment is credited in full, once;                                *)
(*   - an allowance is added in full, for an invoice once, or by the gate; *)
(*     only debt beyond the allowance is forgiven, which leaves the        *)
(*     account empty.                                                      *)
(* CreditLedger implements this (its property ImplementsAccount).          *)
(***************************************************************************)
EXTENDS Integers

CONSTANTS Calls, Invoices, Packs,  \* as in CreditLedger
          Allowance, PackCents,
          Prices                   \* the prices a call may have, in millicents

VARIABLES
    net,        \* the net spendable amount, in millicents
    price,      \* the price of each call, Unpriced until it has run
    billed,     \* calls that have been billed
    corrected,  \* calls whose price has been corrected
    credited    \* payments that have been credited

acctVars == <<net, price, billed, corrected, credited>>

Unpriced == -1

Init ==
    /\ net = 0
    /\ price = [c \in Calls |-> Unpriced]
    /\ billed = {} /\ corrected = {} /\ credited = {}

\* A call has run and burned tokens: it has a price.
Run(c) ==
    /\ price[c] = Unpriced
    /\ \E p \in Prices : price' = [price EXCEPT ![c] = p]
    /\ UNCHANGED <<net, billed, corrected, credited>>

Bill(c) ==
    /\ c \notin billed /\ price[c] # Unpriced
    /\ billed' = billed \cup {c}
    /\ net' = net - price[c]
    /\ UNCHANGED <<price, corrected, credited>>

\* The amount is what the provider says now; it may go either way.
Correct(c) ==
    /\ c \notin corrected /\ price[c] # Unpriced
    /\ corrected' = corrected \cup {c}
    /\ net' \in Int
    /\ UNCHANGED <<price, billed, credited>>

\* Add an allowance: at least in full, and more only to lift an account that
\* stays in debt to (less than a cent below) zero.
Refilled ==
    \/ net' = net + 1000 * Allowance
    \/ net' > net + 1000 * Allowance /\ net' \in -999..0

GrantByGate == Refilled /\ UNCHANGED <<price, billed, corrected, credited>>

CreditInvoice(ref) ==
    /\ ref \notin credited
    /\ credited' = credited \cup {ref}
    /\ Refilled
    /\ UNCHANGED <<price, billed, corrected>>

CreditPack(ref) ==
    /\ ref \notin credited
    /\ credited' = credited \cup {ref}
    /\ net' = net + 1000 * PackCents
    /\ UNCHANGED <<price, billed, corrected>>

Next ==
    \/ \E c \in Calls : Run(c) \/ Bill(c) \/ Correct(c)
    \/ GrantByGate
    \/ \E ref \in Invoices : CreditInvoice(ref)
    \/ \E ref \in Packs : CreditPack(ref)

Spec == Init /\ [][Next]_acctVars
=============================================================================
