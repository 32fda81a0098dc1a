---------------------------- MODULE MCAuditTrail ----------------------------
(* The instance of AuditTrail that TLC checks. *)
EXTENDS AuditTrail
=============================================================================
