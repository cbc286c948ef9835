----------------------------- MODULE MCLlmBudget -----------------------------
(* Small instances of LlmBudget for TLC. *)
EXTENDS LlmBudget
=============================================================================
