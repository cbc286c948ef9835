----------------------------- MODULE MCWatchdog -----------------------------
(* Small instances of Watchdog for TLC. *)
EXTENDS Watchdog

\* A pipeline due soon after midnight and one due late in the day.
EarlyAndLate == [pipeline_silver |-> 1, pipeline_b |-> 16]
=============================================================================
