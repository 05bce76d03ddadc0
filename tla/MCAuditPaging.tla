---------------------------- MODULE MCAuditPaging ----------------------------
(* AuditPaging for TLC; AuditPaging.cfg gives the constants values.          *)
EXTENDS AuditPaging, TLC
=============================================================================
