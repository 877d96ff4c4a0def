----------------------------- MODULE MCSiteAudit -----------------------------
(* Model checking of SiteAudit, and with it of PoliteGate.  The run checks a *)
(* liveness property, so no symmetry is used.                                *)
EXTENDS SiteAudit
=============================================================================
