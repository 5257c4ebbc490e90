----------------------------- MODULE MCAuditOutbox -----------------------------
(***************************************************************************)
(* AuditOutbox for TLC.                                                    *)
(***************************************************************************)
EXTENDS AuditOutbox
=============================================================================
