------------------------------ MODULE JobLaunch ------------------------------
(***************************************************************************)
(* What a caller of run_databricks_job may rely on, with no word on how    *)
(* it is done: a call makes at most Limit attempts, an attempt launches at *)
(* most one run (now, later, or never), a call that reports "submitted"    *)
(* names a run that exists, and a call that was refused or simulated makes *)
(* no attempt.  Exactly-once is NOT promised.  JobSubmission implements    *)
(* this specification.                                                     *)
(***************************************************************************)
EXTENDS Naturals

CONSTANTS Callers,      \* the processes that call run_databricks_job
          ForeignRuns,  \* runs of the same job started by somebody else
          Limit,        \* attempts one call may make
          None          \* "no run"

VARIABLES phase,     \* [Callers -> {"resting", "calling"}]
          budget,    \* [Callers -> Nat]: attempts the current call still has
          attempts,  \* [Callers -> Nat]: attempts ever made; the k-th of c is <<c, k>>
          runs,      \* runs that exist or existed: attempts that took effect, and foreign ones
          result     \* [Callers -> runs or None]: what the last call returned

vars == <<phase, budget, attempts, runs, result>>

Init == /\ phase = [c \in Callers |-> "resting"]
        /\ budget = [c \in Callers |-> 0]
        /\ attempts = [c \in Callers |-> 0]
        /\ runs = {}
        /\ result = [c \in Callers |-> None]

\* A call begins and is given its whole budget.
Call(c) == /\ phase[c] = "resting"
           /\ phase' = [phase EXCEPT ![c] = "calling"]
           /\ budget' = [budget EXCEPT ![c] = Limit]
           /\ result' = [result EXCEPT ![c] = None]
           /\ UNCHANGED <<attempts, runs>>

\* A call that is refused or only simulated ends at once.
Refuse(c) == /\ phase[c] = "resting"
             /\ result' = [result EXCEPT ![c] = None]
             /\ UNCHANGED <<phase, budget, attempts, runs>>

Attempt(c) == /\ phase[c] = "calling"
              /\ budget[c] > 0
              /\ budget' = [budget EXCEPT ![c] = @ - 1]
              /\ attempts' = [attempts EXCEPT ![c] = @ + 1]
              /\ UNCHANGED <<phase, runs, result>>

\* An attempt takes effect, possibly long after the call that made it ended.
Launch == /\ \E c \in Callers : \E k \in 1 .. attempts[c] :
                /\ <<c, k>> \notin runs
                /\ runs' = runs \cup {<<c, k>>}
          /\ UNCHANGED <<phase, budget, attempts, result>>

ForeignLaunch == /\ \E f \in ForeignRuns \ runs : runs' = runs \cup {f}
                 /\ UNCHANGED <<phase, budget, attempts, result>>

\* The call ends: with a run that exists, or with an error.
Return(c) == /\ phase[c] = "calling"
             /\ phase' = [phase EXCEPT ![c] = "resting"]
             /\ budget' = [budget EXCEPT ![c] = 0]
             /\ \E r \in runs \cup {None} : result' = [result EXCEPT ![c] = r]
             /\ UNCHANGED <<attempts, runs>>

Next == \/ \E c \in Callers : Call(c) \/ Refuse(c) \/ Attempt(c) \/ Return(c)
        \/ Launch
        \/ ForeignLaunch

Spec == Init /\ [][Next]_vars
=============================================================================
