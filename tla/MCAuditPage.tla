----------------------------- MODULE MCAuditPage -----------------------------
(* Values for model checking.                                              *)
EXTENDS AuditPage
===============================================================================
