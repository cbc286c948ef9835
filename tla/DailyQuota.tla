------------------------------ MODULE DailyQuota ------------------------------
(***************************************************************************)
(* What the daily LLM budget promises, with no word on how: a call is      *)
(* granted at most once, on one day, and only while the day's count is     *)
(* below the cap the call brings; a grant is never taken back.  WHICH day  *)
(* pays for a call that begins near midnight is not promised.  LlmBudget   *)
(* implements this specification.                                          *)
(***************************************************************************)
EXTENDS Naturals

CONSTANTS Days, Calls, Caps

VARIABLES used,    \* [Days -> Nat]
          granted  \* [Days -> SUBSET Calls]

vars == <<used, granted>>

Init == /\ used = [d \in Days |-> 0]
        /\ granted = [d \in Days |-> {}]

Grant(d, call, cap) ==
    /\ used[d] < cap
    /\ \A e \in Days : call \notin granted[e]
    /\ used' = [used EXCEPT ![d] = @ + 1]
    /\ granted' = [granted EXCEPT ![d] = @ \cup {call}]

Next == \E d \in Days, call \in Calls, cap \in Caps : Grant(d, call, cap)

Spec == Init /\ [][Next]_vars
=============================================================================
