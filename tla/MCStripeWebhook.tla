--------------------------- MODULE MCStripeWebhook ---------------------------
(* Small instances of StripeWebhook for TLC. *)
EXTENDS StripeWebhook, TLC

WorkerSymmetry == Permutations(Workers)
=============================================================================
