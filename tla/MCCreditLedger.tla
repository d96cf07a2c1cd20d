--------------------------- MODULE MCCreditLedger ---------------------------
(***************************************************************************)
(* Small instances of CreditLedger for TLC.  Money is a few cents; times   *)
(* keep the order of the code's constants (hold TTL 15 min > backfill      *)
(* grace 5 min > reconcile grace 2 min; a month is longer than all).       *)
(***************************************************************************)
EXTENDS CreditLedger, TLC

NullCap == Null
CallSymmetry == Permutations(Calls)
SweeperSymmetry == Permutations(Sweepers)
ReconcilerSymmetry == Permutations(Reconcilers)
=============================================================================
