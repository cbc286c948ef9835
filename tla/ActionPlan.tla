------------------------------ MODULE ActionPlan ------------------------------
(***************************************************************************)
(* src/orchestrator/action_plan.py: the checks an action plan passes       *)
(* before it is executed.  A plan is what its JSON object shows: which     *)
(* fields are there, of what kind, and which parameters.                   *)
(***************************************************************************)

Actions == {"backfill_silver", "retry_pipeline", "skip_and_report"}
ParameterNames == {"pipeline", "date_kst", "run_mode", "reason", "unexpected"}
Required == {"action", "parameters", "schema_version"}
Optional == {"expected_outcome", "caveats"}

\* schema_version: "v2_plus" stands for v2, v3, ..., "malformed" for anything
\* else but "v1"; it means nothing when the field is absent.  A null value counts
\* as absent.
Plan == [fields : SUBSET (Required \cup Optional \cup {"unexpected"}),
         schema_version : {"v1", "v2_plus", "malformed"},
         optional_typed : BOOLEAN,      \* the optional fields have their types
         action : Actions \cup {"unknown"},
         parameters_is_dict : BOOLEAN,
         parameters : SUBSET ParameterNames,
         texts : BOOLEAN,               \* every parameter is a string
         date_valid : BOOLEAN]          \* date_kst is a YYYY-MM-DD date

ActionParameterSchema ==
    [backfill_silver |-> {"pipeline", "date_kst", "run_mode"},
     retry_pipeline  |-> {"pipeline", "run_mode"},
     skip_and_report |-> {"pipeline", "reason"}]

\* classify_action_plan_version: "v1" is a plan without the field.
Version(plan) ==
    IF "schema_version" \notin plan.fields THEN "v1"
    ELSE IF plan.schema_version = "v2_plus" THEN "v2_plus" ELSE "rejected"

\* validate_action_plan_contract: only v2 and later restrict the fields.
MeetsContract(plan) ==
    \/ Version(plan) = "v1"
    \/ /\ Version(plan) = "v2_plus"
       /\ Required \subseteq plan.fields
       /\ plan.fields \subseteq Required \cup Optional
       /\ Optional \cap plan.fields # {} => plan.optional_typed

\* Variant: missing parameters are found, unexpected ones are not.
IgnoresUnexpected(plan) ==
    /\ plan.action \in Actions
    /\ ActionParameterSchema[plan.action] \subseteq plan.parameters
    /\ plan.texts
    /\ plan.action = "backfill_silver" => plan.date_valid

\* validate_action_plan: the same for every version.
MeetsSchema(plan) ==
    /\ plan.action \in Actions
    /\ ActionParameterSchema[plan.action] \subseteq plan.parameters
    /\ plan.parameters \subseteq ActionParameterSchema[plan.action]
    /\ plan.texts
    /\ plan.action = "backfill_silver" => plan.date_valid

\* All the checks execute makes of a plan.
Executable(plan) ==
    /\ MeetsContract(plan)
    /\ {"action", "parameters"} \subseteq plan.fields
    /\ plan.parameters_is_dict
    /\ MeetsSchema(plan)
=============================================================================
