--------------------------- MODULE MCAuditPipeline ---------------------------
(* An instance of AuditPipeline for TLC. *)
EXTENDS AuditPipeline
=============================================================================
