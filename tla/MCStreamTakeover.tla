--------------------------- MODULE MCStreamTakeover ---------------------------
(***************************************************************************)
(* Instances of StreamTakeover for TLC.                                    *)
(***************************************************************************)
EXTENDS StreamTakeover, TLC

CONSTANTS s1, s2, p1, i1, i2, u1, u2

\* One user, two instances; the Stop comes in at the first.
MCInstanceOf == s1 :> i1 @@ s2 :> i2 @@ p1 :> i1
MCUserOf == s1 :> u1 @@ s2 :> u1 @@ p1 :> u1

\* Two members of a shared conversation; the Stop is the first one's.
MCSharedInstanceOf == s1 :> i1 @@ s2 :> i2 @@ p1 :> i2
MCSharedUserOf == s1 :> u1 @@ s2 :> u2 @@ p1 :> u1
=============================================================================
