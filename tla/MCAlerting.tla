----------------------------- MODULE MCAlerting -----------------------------
(* Small instances of Alerting for TLC. *)
EXTENDS Alerting
=============================================================================
