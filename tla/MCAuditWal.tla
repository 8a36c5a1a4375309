---------------------------- MODULE MCAuditWal ----------------------------
(* Small instances of AuditWal for TLC. *)
EXTENDS AuditWal, TLC

CONSTANTS e1, e2

TwoEvals == {e1, e2}
OneEval == {e1}
=============================================================================
