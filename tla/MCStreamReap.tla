----------------------------- MODULE MCStreamReap -----------------------------
(* Small instances of StreamReap for TLC. *)
EXTENDS StreamReap, TLC

ReaperSymmetry == Permutations(Reapers \ Local)
=============================================================================
