------------------------------- MODULE JobStatus -------------------------------
(***************************************************************************)
(* check_job_status of tools/databricks_jobs.py, with the secrets it reads *)
(* (utils/secrets.py) and the life cycle of the run it asks about          *)
(* (external: Databricks).  The run goes on while the answer is on its     *)
(* way, and after it was given.                                            *)
(***************************************************************************)
CONSTANT None

VARIABLES env,         \* [Keys -> Values or None]: the SECRET_... variables
          scope,       \* a secret scope is configured
          life_cycle,  \* of the run
          request,     \* None, "sent", or what the service answers
          job_status   \* what the last call returned, or "raised"; None before

status_vars == <<env, scope, life_cycle, request, job_status>>

-----------------------------------------------------------------------------
(* get_secret: the environment, else the secret scope (external), which    *)
(* has any value or none, or fails for a while.                            *)

Keys == {"agent-execute-mode", "databricks-host", "databricks-agent-token"}
Values == {"live", "dry-run", "other"}
Errors == {"TRANSIENT", "PERMANENT"}

\* Variant: the secret scope is asked first.
ScopeFirst(key) == IF scope THEN Values \cup Errors
                   ELSE IF env[key] # None THEN {env[key]} ELSE {"PERMANENT"}

GetSecret(key) == IF env[key] # None THEN {env[key]}
                  ELSE IF scope THEN Values \cup Errors ELSE {"PERMANENT"}

\* Variant: a run that is being stopped counts as finished.
TerminatingIsFinished(state) ==
    CASE state \in {"PENDING", "RUNNING", "QUEUED"} -> "running"
      [] state \in {"TERMINATED", "TERMINATING"}    -> "finished"
      [] state \in {"SKIPPED", "INTERNAL_ERROR"}    -> "failed"
      [] OTHER                                      -> "unknown"

MapLifecycleToStatus(state) ==
    CASE state \in {"PENDING", "RUNNING", "QUEUED", "TERMINATING"} -> "running"
      [] state = "TERMINATED"                                      -> "finished"
      [] state \in {"SKIPPED", "INTERNAL_ERROR"}                   -> "failed"
      [] OTHER                                                     -> "unknown"

\* Where a run may go from each state.
LifeCycle ==
    [QUEUED            |-> {"PENDING", "SKIPPED", "INTERNAL_ERROR"},
     BLOCKED           |-> {"PENDING", "SKIPPED", "INTERNAL_ERROR"},
     PENDING           |-> {"RUNNING", "SKIPPED", "TERMINATING", "INTERNAL_ERROR"},
     RUNNING           |-> {"TERMINATING", "WAITING_FOR_RETRY", "INTERNAL_ERROR"},
     WAITING_FOR_RETRY |-> {"PENDING", "TERMINATING"},
     TERMINATING       |-> {"TERMINATED", "INTERNAL_ERROR"},
     TERMINATED        |-> {},
     SKIPPED           |-> {},
     INTERNAL_ERROR    |-> {}]

Answers == {"dry_run", "running", "finished", "failed", "unknown", "raised"}

ASSUME StatusAssumption ==
    None \notin Values \cup DOMAIN LifeCycle \cup {"sent", "UNKNOWN"} \cup Answers

-----------------------------------------------------------------------------
StatusInit == /\ env \in [Keys -> Values \cup {None}]
              /\ scope \in BOOLEAN
              /\ life_cycle \in {"QUEUED", "BLOCKED", "PENDING"}
              /\ request = None
              /\ job_status = None

Return(status) ==
    job_status' = status /\ request' = None /\ UNCHANGED <<env, scope, life_cycle>>

\* The mode is read at every call; the host and the token only in a live one.
CheckJobStatus ==
    /\ request = None
    /\ \E mode \in GetSecret("agent-execute-mode") :
         \/ mode = "dry-run" /\ Return("dry_run")
         \/ mode \notin {"live", "dry-run"} /\ Return("raised")
         \/ /\ mode = "live"
            /\ \E host \in GetSecret("databricks-host"), token \in GetSecret("databricks-agent-token") :
                 IF {host, token} \cap Errors # {} THEN Return("raised")
                 ELSE request' = "sent" /\ UNCHANGED <<env, scope, life_cycle, job_status>>

\* The service looks at the run, or answers without a state.
ServiceAnswers ==
    /\ request = "sent"
    /\ request' \in {life_cycle, "UNKNOWN"}
    /\ UNCHANGED <<env, scope, life_cycle, job_status>>

Received == request \in DOMAIN LifeCycle \cup {"UNKNOWN"} /\ Return(MapLifecycleToStatus(request))

\* A timeout, an HTTP error or an answer that is no object is not retried.
CallFails == request # None /\ Return("raised")

RunMoves ==
    /\ life_cycle' \in LifeCycle[life_cycle]
    /\ UNCHANGED <<env, scope, request, job_status>>

StatusNext == CheckJobStatus \/ ServiceAnswers \/ Received \/ CallFails \/ RunMoves

StatusSpec == StatusInit /\ [][StatusNext]_status_vars

-----------------------------------------------------------------------------
(***************************************************************************)
(* An answer that the run ended is as true when it is used as when it was  *)
(* given, however long it was on its way: the run never comes back, and    *)
(* "failed" never stands for a run that ended in the ordinary way.         *)
(***************************************************************************)
EndedAnswersStay ==
    /\ job_status = "finished" => life_cycle = "TERMINATED"
    /\ job_status = "failed" => life_cycle \in {"SKIPPED", "INTERNAL_ERROR"}

(***************************************************************************)
(* A process whose environment says dry-run never asks the service, and    *)
(* one whose environment says live is never answered "dry_run", whatever   *)
(* the secret scope holds and however often it changes.                    *)
(***************************************************************************)
EnvironmentOverridesScope ==
    /\ env["agent-execute-mode"] = "dry-run" => request = None /\ job_status \in {None, "dry_run"}
    /\ env["agent-execute-mode"] = "live" => job_status # "dry_run"
=============================================================================
