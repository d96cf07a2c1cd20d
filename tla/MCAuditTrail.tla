----------------------------- MODULE MCAuditTrail -----------------------------
(***************************************************************************)
(* Instances of AuditTrail for TLC: the cfg files give every constant its  *)
(* value; entries are numbered so that activities and events alternate.    *)
(***************************************************************************)
EXTENDS AuditTrail
=============================================================================
