------------------------------ MODULE AgentGraph ------------------------------
(***************************************************************************)
(* graph/graph.py and graph/nodes: the incident graph as operators, one    *)
(* for every node and router, and the edges that connect them.             *)
(*                                                                         *)
(* A graph state is a record of the AgentState fields the control depends  *)
(* on.  Fields a caller supplies and no node writes are grouped in "obs",  *)
(* what is known of the pipeline when the incident is raised.  Six nodes   *)
(* are skeletons: run() raises NotImplementedError, and the module states  *)
(* which fields it is going to write.  Raises says which of them still     *)
(* raise; the others may write to any of their WRITE_FIELDS any value the  *)
(* constants name, or leave the field as it is.                            *)
(***************************************************************************)
EXTENDS Naturals, FiniteSets, ActionPlan

CONSTANTS Plans,          \* action plans triage may write: SUBSET Plan
          FinalStatuses,  \* values verify and rollback may write to final_status
          None

StubNodes == {"analyze", "triage", "propose", "verify", "rollback", "postmortem"}
Nodes == StubNodes \cup {"detect", "collect", "interrupt", "execute", "report_only"}

IssueKinds == {"failure", "new_exception", "critical_dq", "cutoff_delay"}
Decisions == {"approve", "reject", "modify", "timeout"}

\* Status of an execution_result.  "other" is one that execute never writes.
ExecutionResults == {"skipped", "submitted", "dry_run", "other"}

\* What a caller knows of the pipeline.  "malformed" stands for a value that is
\* not a list; "minor" rows are there but not critical (or not new).
Observation ==
    [pipeline : {"known", None},
     fingerprint_duplicate : BOOLEAN,
     failure : BOOLEAN,            \* pipeline_states[pipeline].status = "failure"
     other_failure : BOOLEAN,      \* another pipeline's status is "failure"
     last_success : {"recent", "late", "unparsable"},  \* against the cutoff
     exception_ledger : {None, "minor", "new_critical", "malformed"},
     dq_status : {None, "minor", "critical", "malformed"},
     bad_records : {None, "malformed"},   \* None: absent, or a list
     rollback_required : BOOLEAN]

NoObservation ==
    [pipeline |-> None, fingerprint_duplicate |-> FALSE, failure |-> FALSE,
     other_failure |-> FALSE, last_success |-> "recent",
     exception_ledger |-> None, dq_status |-> None, bad_records |-> None,
     rollback_required |-> FALSE]

GraphState ==
    [obs : Observation, detected_issues : SUBSET IssueKinds,
     exceptions : BOOLEAN, dq_tags : BOOLEAN,  \* "the list is not empty"
     action_plan : Plans \cup {None}, human_decision : Decisions \cup {None},
     execution_result : ExecutionResults \cup {None},
     final_status : FinalStatuses \cup {"reported", None}]

EmptyState ==
    [obs |-> NoObservation, detected_issues |-> {}, exceptions |-> FALSE, dq_tags |-> FALSE,
     action_plan |-> None, human_decision |-> None, execution_result |-> None,
     final_status |-> None]

-----------------------------------------------------------------------------
(* The implemented nodes. *)

\* detect: a known fingerprint is skipped; otherwise each source adds its issue.
DetectedIssues(obs) ==
    IF obs.fingerprint_duplicate THEN {}
    ELSE {kind \in IssueKinds :
            \/ kind = "failure" /\ obs.pipeline # None /\ obs.failure
            \/ kind = "new_exception" /\ obs.exception_ledger = "new_critical"
            \/ kind = "critical_dq" /\ obs.dq_status = "critical"
            \/ kind = "cutoff_delay" /\ obs.pipeline # None /\ obs.last_success = "late"}

Detect(st) == [st EXCEPT !.detected_issues = DetectedIssues(st.obs)]

\* A timestamp that does not parse ends the run, unless it is not looked at.
DetectRaises(st) ==
    ~st.obs.fingerprint_duplicate /\ st.obs.pipeline # None /\ st.obs.last_success = "unparsable"

\* collect: raises CollectPermanentError on a source that is not a list.
CollectRaises(st) ==
    "malformed" \in {st.obs.exception_ledger, st.obs.dq_status, st.obs.bad_records}
Collect(st) == [st EXCEPT !.exceptions = st.obs.exception_ledger # None,
                          !.dq_tags = st.obs.dq_status # None]

Skips(plan) == "action" \in plan.fields /\ plan.action = "skip_and_report"

\* execute: every check that raises before anything is submitted.
ExecuteRaises(st) ==
    \/ st.action_plan = None
    \/ st.action_plan # None /\ ~Executable(st.action_plan)
    \/ st.obs.pipeline = None
    \/ st.human_decision # "approve"
ExecuteSubmits(st) == ~ExecuteRaises(st) /\ ~Skips(st.action_plan)
Execute(st, result) == [st EXCEPT !.execution_result = result]

ReportOnly(st) == [st EXCEPT !.final_status = "reported"]

\* interrupt: does not pause and writes nothing.
Interrupt(st) == st

-----------------------------------------------------------------------------
(* The skeleton nodes, as their WRITE_FIELDS allow. *)

Triage(st) == {[st EXCEPT !.action_plan = p] : p \in Plans \cup {st.action_plan}}
Verify(st) == {[st EXCEPT !.final_status = f] : f \in FinalStatuses \cup {st.final_status}}
Rollback(st) ==
    {[st EXCEPT !.execution_result = wrote[1], !.final_status = wrote[2]] :
        wrote \in (ExecutionResults \cup {None}) \X (FinalStatuses \cup {st.final_status})}

\* The states a node may leave; execute's job submission is a step of its own.
Updates(node, st) ==
    CASE node = "detect"      -> {Detect(st)}
      [] node = "collect"     -> {Collect(st)}
      [] node = "triage"      -> Triage(st)
      [] node = "interrupt"   -> {Interrupt(st)}
      [] node = "execute"     -> {Execute(st, "skipped")}
      [] node = "verify"      -> Verify(st)
      [] node = "rollback"    -> Rollback(st)
      [] node = "report_only" -> {ReportOnly(st)}
      [] OTHER                -> {st}   \* analyze, propose, postmortem write texts only

\* Variant: a skeleton does nothing instead of raising NotImplementedError.
RaisesOnBadInputOnly(node, st, stubs) ==
    \/ node = "detect" /\ DetectRaises(st)
    \/ node = "collect" /\ CollectRaises(st)
    \/ node = "execute" /\ ExecuteRaises(st)

Raises(node, st, stubs) ==
    \/ node \in stubs
    \/ node = "detect" /\ DetectRaises(st)
    \/ node = "collect" /\ CollectRaises(st)
    \/ node = "execute" /\ ExecuteRaises(st)

-----------------------------------------------------------------------------
(* The routers and the edges. *)

RouteDetect(st) ==
    CASE st.detected_issues = {}               -> "end"
      [] st.detected_issues = {"cutoff_delay"} -> "report_only"
      [] OTHER                                 -> "collect"

RouteCollect(st) ==
    IF st.dq_tags /\ ~(st.obs.failure \/ st.obs.other_failure) /\ ~st.exceptions
    THEN "triage" ELSE "analyze"

RouteTriage(st) ==
    IF st.action_plan # None /\ Skips(st.action_plan) THEN "report_only" ELSE "propose"

RouteInterrupt(st) == IF st.human_decision \in Decisions THEN st.human_decision ELSE "timeout"

RouteVerify(st) ==
    CASE st.final_status = "resolved" -> "postmortem"
      [] st.final_status = "failed"   -> "end"
      [] OTHER                        -> IF st.obs.rollback_required THEN "rollback" ELSE "end"

RouteKey(node, st) ==
    CASE node = "detect"    -> RouteDetect(st)
      [] node = "collect"   -> RouteCollect(st)
      [] node = "triage"    -> RouteTriage(st)
      [] node = "interrupt" -> RouteInterrupt(st)
      [] node = "verify"    -> RouteVerify(st)

ConditionalEdges ==
    [detect    |-> [end |-> "END", report_only |-> "report_only", collect |-> "collect"],
     collect   |-> [triage |-> "triage", analyze |-> "analyze"],
     triage    |-> [report_only |-> "report_only", propose |-> "propose"],
     interrupt |-> [approve |-> "execute", reject |-> "report_only", modify |-> "propose",
                    timeout |-> "END"],
     verify    |-> [postmortem |-> "postmortem", rollback |-> "rollback", end |-> "END"]]

\* Variant: the proposal goes straight to execution.
EdgesAroundApproval ==
    [START |-> "detect", analyze |-> "triage", propose |-> "execute", execute |-> "verify",
     report_only |-> "END", rollback |-> "END", postmortem |-> "END"]

\* Variant: an execution goes back for another approval.
EdgesBackToApproval ==
    [START |-> "detect", analyze |-> "triage", propose |-> "interrupt", execute |-> "interrupt",
     report_only |-> "END", rollback |-> "END", postmortem |-> "END"]

LinearEdges ==
    [START |-> "detect", analyze |-> "triage", propose |-> "interrupt", execute |-> "verify",
     report_only |-> "END", rollback |-> "END", postmortem |-> "END"]

Successor(node, st) ==
    IF node \in DOMAIN ConditionalEdges
    THEN ConditionalEdges[node][RouteKey(node, st)]
    ELSE LinearEdges[node]
=============================================================================
