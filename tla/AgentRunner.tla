----------------------------- MODULE AgentRunner -----------------------------
(***************************************************************************)
(* runtime/agent_runner.py over graph/graph.py: processes ("workers") that *)
(* run the incident graph for an incident, and the SQLite file they share, *)
(* with LangGraph's checkpoint of every thread (thread_id = incident_id)   *)
(* and the incident_registry table.                                        *)
(*                                                                         *)
(* build_graph picks a backend.  "shim" runs on the payload alone and      *)
(* keeps nothing.  "langgraph" (external, as the code uses it) keeps only  *)
(* the keys of AgentState, merges a payload into the thread's checkpoint,  *)
(* starts again at START, and saves the checkpoint after every node.       *)
(***************************************************************************)
EXTENDS AgentGraph

CONSTANTS Workers,       \* processes that hold an AgentRunner
          Incidents,
          Backends,      \* backends a worker may have: SUBSET {"shim", "langgraph"}
          StubSets,      \* sets of nodes that may still be skeletons
          Observations,  \* what callers know when they invoke: SUBSET Observation
          MaxSteps,      \* node executions per run (100 in the shim, 25 by default in LangGraph)
          MaxRuns        \* bound on the runs started

Open == {"running", "resumed"}
Terminal == {"resolved", "failed", "escalated", "reported"}
Row == [pipeline : {"known", None}, status : Open \cup Terminal]

ASSUME RunnerAssumption ==
    /\ Plans \subseteq Plan
    /\ Observations \subseteq Observation
    /\ MaxSteps \in Nat \ {0}
    /\ MaxRuns \in Nat
    /\ FinalStatuses \subseteq {"resolved", "failed", "escalated", "pending"}
    /\ None \notin Plan /\ None \notin GraphState /\ None \notin Row
    /\ None \notin Open \cup Terminal \cup Decisions \cup {"pending", "known", "submitted"}

VARIABLES
    backend,     \* [Workers -> Backends], fixed when the runner is built
    stubs,       \* the nodes that are still skeletons, fixed
    pc,          \* [Workers -> {"idle", "running", "submitting", "ended"}]
    incident,    \* incident of the worker's run
    default,     \* status to record when the run decides none
    node,        \* node to execute, or the last one executed when ended
    st,          \* graph state of the run
    steps,       \* nodes executed in the run
    visited,     \* their set
    submitted,   \* run_databricks_job calls of the run
    given,       \* what the caller passed as observation
    checkpoint,  \* [Incidents -> GraphState or None]
    registry,    \* [Incidents -> [pipeline, status] or None]
    runs         \* runs started so far

fixed == <<backend, stubs>>
local == <<pc, incident, default, node, st, steps, visited, submitted, given>>
shared == <<checkpoint, registry>>
vars == <<fixed, local, shared, runs>>

Init == /\ backend \in [Workers -> Backends]
        /\ stubs \in StubSets
        /\ pc = [w \in Workers |-> "idle"]
        /\ incident = [w \in Workers |-> None]
        /\ default = [w \in Workers |-> None]
        /\ node = [w \in Workers |-> None]
        /\ st = [w \in Workers |-> EmptyState]
        /\ steps = [w \in Workers |-> 0]
        /\ visited = [w \in Workers |-> {}]
        /\ submitted = [w \in Workers |-> 0]
        /\ given = [w \in Workers |-> NoObservation]
        /\ checkpoint = [i \in Incidents |-> None]
        /\ registry = [i \in Incidents |-> None]
        /\ runs = 0

-----------------------------------------------------------------------------
(* Starting a run. *)

\* LangGraph drops the payload keys AgentState does not declare.
Declared(obs) == [obs EXCEPT !.exception_ledger = None, !.dq_status = None,
                             !.bad_records = None, !.rollback_required = FALSE]

\* The state a run starts from, before its payload is merged in.
Base(w, i) == IF backend[w] = "langgraph" /\ checkpoint[i] # None
              THEN checkpoint[i] ELSE EmptyState

Accepted(w, obs) == IF backend[w] = "langgraph" THEN Declared(obs) ELSE obs

\* Variant: what the thread already has is kept.
MergedUnder(s, decision, plan) ==
    [s EXCEPT !.human_decision = IF @ = None THEN decision ELSE @,
              !.action_plan = IF @ = None THEN plan ELSE @]

\* What a payload does not bring stays as it is in the thread.
Merged(s, decision, plan) ==
    [s EXCEPT !.human_decision = IF decision = None THEN @ ELSE decision,
              !.action_plan = IF plan = None THEN @ ELSE plan]

\* Variant: the graph is compiled without the checkpointer.
SaveNothing(w, i, s) == UNCHANGED checkpoint

Save(w, i, s) == checkpoint' = IF backend[w] = "langgraph"
                               THEN [checkpoint EXCEPT ![i] = s] ELSE checkpoint

Start(w, i, s, obs, status) ==
    /\ pc[w] = "idle"
    /\ runs < MaxRuns
    /\ runs' = runs + 1
    /\ pc' = [pc EXCEPT ![w] = "running"]
    /\ incident' = [incident EXCEPT ![w] = i]
    /\ default' = [default EXCEPT ![w] = status]
    /\ node' = [node EXCEPT ![w] = LinearEdges["START"]]
    /\ st' = [st EXCEPT ![w] = s]
    /\ given' = [given EXCEPT ![w] = obs]
    /\ Save(w, i, s)
    /\ UNCHANGED <<fixed, steps, visited, submitted, registry>>

\* AgentRunner.invoke(initial_state)
Invoke(w, decision) ==
    \E i \in Incidents, obs \in Observations :
        Start(w, i, Merged([Base(w, i) EXCEPT !.obs = Accepted(w, obs)], decision, None),
              obs, "running")

\* AgentRunner.resume(incident_id, payload): the payload brings the operator's
\* decision, a plan the operator changed, both, or nothing.
Resume(w, decision) ==
    \E i \in Incidents, plan \in Plans \cup {None} :
        Start(w, i, Merged(Base(w, i), decision, plan), NoObservation, "resumed")

\* A payload brings a decision of the operator, or None.
Begin(w, decision) == Invoke(w, decision) \/ Resume(w, decision)

-----------------------------------------------------------------------------
(* Executing the graph. *)

\* The worker is done with its run: nothing of it stays in the process.
Forget(w) ==
    /\ pc' = [pc EXCEPT ![w] = "idle"]
    /\ incident' = [incident EXCEPT ![w] = None]
    /\ default' = [default EXCEPT ![w] = None]
    /\ node' = [node EXCEPT ![w] = None]
    /\ st' = [st EXCEPT ![w] = EmptyState]
    /\ steps' = [steps EXCEPT ![w] = 0]
    /\ visited' = [visited EXCEPT ![w] = {}]
    /\ submitted' = [submitted EXCEPT ![w] = 0]
    /\ given' = [given EXCEPT ![w] = NoObservation]

\* An exception leaves the graph and the runner; the registry is not written.
Raise(w) == Forget(w) /\ UNCHANGED <<fixed, shared, runs>>

\* The states the current node may leave without raising.
Submits(w) == node[w] = "execute" /\ ExecuteSubmits(st[w])
JobResults(w) == {Execute(st[w], r) : r \in {"submitted", "dry_run"}}
Results(w) ==
    CASE pc[w] = "submitting" -> JobResults(w)
      [] pc[w] = "running" /\ ~Raises(node[w], st[w], stubs) /\ ~Submits(w)
                              -> Updates(node[w], st[w])
      [] OTHER                -> {}

\* Variant: the nodes executed are not counted.
StepsUncounted(w) == steps[w]

StepsAfter(w) == steps[w] + 1
NextNode(w, s) == Successor(node[w], s)

\* The node leaves one of the results, which is saved; the run goes on, or it is over.
Advance(w, results) ==
    /\ \E s \in results :
         /\ NextNode(w, s) = "END" \/ StepsAfter(w) < MaxSteps
         /\ st' = [st EXCEPT ![w] = s]
         /\ Save(w, incident[w], s)
         /\ IF NextNode(w, s) = "END"
            THEN pc' = [pc EXCEPT ![w] = "ended"] /\ UNCHANGED node
            ELSE /\ pc' = [pc EXCEPT ![w] = "running"]
                 /\ node' = [node EXCEPT ![w] = NextNode(w, s)]
    /\ steps' = [steps EXCEPT ![w] = StepsAfter(w)]
    /\ visited' = [visited EXCEPT ![w] = @ \cup {node[w]}]
    /\ UNCHANGED <<fixed, incident, default, submitted, given, registry, runs>>

\* MaxSteps nodes were executed and the run is not at END: an exception.
Overrun(w, results) ==
    /\ StepsAfter(w) >= MaxSteps
    /\ \E s \in results : NextNode(w, s) # "END" /\ Save(w, incident[w], s)
    /\ Forget(w)
    /\ UNCHANGED <<fixed, registry, runs>>

NodeReturns(w) == Advance(w, Results(w))
StepLimit(w) == Overrun(w, Results(w))

NodeRaises(w) ==
    /\ pc[w] = "running"
    /\ Raises(node[w], st[w], stubs)
    /\ Raise(w)

\* execute calls run_databricks_job, which returns, or raises whether or not a
\* run was started (module JobSubmission).
SubmitJob(w) ==
    /\ pc[w] = "running"
    /\ ~Raises(node[w], st[w], stubs)
    /\ Submits(w)
    /\ pc' = [pc EXCEPT ![w] = "submitting"]
    /\ submitted' = [submitted EXCEPT ![w] = @ + 1]
    /\ UNCHANGED <<fixed, incident, default, node, st, steps, visited, given, shared, runs>>

SubmitRaises(w) == pc[w] = "submitting" /\ Raise(w)

-----------------------------------------------------------------------------
(* Recording the run. *)

\* Variant: the upsert without the CASE that protects a terminal status.
UpsertLastWins(row, pipeline, status) ==
    [pipeline |-> IF pipeline = None /\ row # None THEN row.pipeline ELSE pipeline,
     status |-> status]

\* Variant: the first terminal status stays for good.
UpsertFirstTerminalWins(row, pipeline, status) ==
    IF row = None THEN [pipeline |-> pipeline, status |-> status]
    ELSE [pipeline |-> IF pipeline # None THEN pipeline ELSE row.pipeline,
          status   |-> IF row.status \in Terminal THEN row.status ELSE status]

\* The row after the upsert: known fields win over unknown ones, and a terminal
\* status wins over a non-terminal one.
Upsert(row, pipeline, status) ==
    IF row = None THEN [pipeline |-> pipeline, status |-> status]
    ELSE [pipeline |-> IF pipeline # None THEN pipeline ELSE row.pipeline,
          status   |-> IF row.status \in Terminal /\ status \in Open
                       THEN row.status ELSE status]

\* Variant: any final_status is recorded.
StatusUnchecked(w) == IF st[w].final_status # None THEN st[w].final_status ELSE default[w]

StatusValue(w) == IF st[w].final_status \in Open \cup Terminal
                  THEN st[w].final_status ELSE default[w]

Record(w) ==
    /\ pc[w] = "ended"
    /\ registry' = [registry EXCEPT ![incident[w]] =
                      Upsert(@, st[w].obs.pipeline, StatusValue(w))]
    /\ Forget(w)
    /\ UNCHANGED <<fixed, checkpoint, runs>>

\* The process dies (or the upsert fails); a new one takes its place.
Crash(w) == pc[w] # "idle" /\ Raise(w)

-----------------------------------------------------------------------------
RunStep(w) == \/ NodeReturns(w) \/ NodeRaises(w) \/ StepLimit(w)
              \/ SubmitJob(w) \/ SubmitRaises(w)
              \/ Record(w)

Next == \E w \in Workers :
            \/ \E d \in Decisions \cup {None} : Begin(w, d)
            \/ RunStep(w)
            \/ Crash(w)

Spec == Init /\ [][Next]_vars

\* Nodes return or raise (the HTTP calls have timeouts, see JobSubmission), so a
\* process that has not died goes on with its run.  No run has to be started.
FairSpec == Spec /\ \A w \in Workers : WF_vars(RunStep(w))

-----------------------------------------------------------------------------
TypeOK ==
    /\ backend \in [Workers -> Backends]
    /\ stubs \in StubSets
    /\ pc \in [Workers -> {"idle", "running", "submitting", "ended"}]
    /\ incident \in [Workers -> Incidents \cup {None}]
    /\ default \in [Workers -> Open \cup {None}]
    /\ node \in [Workers -> Nodes \cup {None}]
    /\ st \in [Workers -> GraphState]
    /\ steps \in [Workers -> Nat]
    /\ visited \in [Workers -> SUBSET Nodes]
    /\ submitted \in [Workers -> Nat]
    /\ given \in [Workers -> Observation]
    /\ checkpoint \in [Incidents -> GraphState \cup {None}]
    /\ registry \in [Incidents -> Row \cup {None}]
    /\ runs \in Nat
    /\ \A w \in Workers :
         pc[w] # "idle" => incident[w] \in Incidents /\ default[w] \in Open /\ node[w] \in Nodes

(***************************************************************************)
(* A run submits at most one job, and only after triage wrote a plan, it   *)
(* was proposed, and interrupt found an approval; a run that ends in a     *)
(* report, or was skipped by triage, submits nothing.                      *)
(***************************************************************************)
OneApprovedSubmissionPerRun ==
    \A w \in Workers :
        submitted[w] > 0 =>
            /\ submitted[w] = 1
            /\ {"triage", "propose", "interrupt"} \subseteq visited[w]
            /\ "report_only" \notin visited[w]
            /\ st[w].human_decision = "approve"
            /\ ~Skips(st[w].action_plan)

(***************************************************************************)
(* The contract of ADR-0003 and ADR-0013, spelled out plan by plan.        *)
(***************************************************************************)
ContractPlans ==
    {plan \in Plans :
        /\ \/ /\ plan.action = "retry_pipeline"
              /\ plan.parameters = {"pipeline", "run_mode"}
           \/ /\ plan.action = "backfill_silver"
              /\ plan.parameters = {"pipeline", "run_mode", "date_kst"} /\ plan.date_valid
        /\ plan.parameters_is_dict /\ plan.texts
        /\ \/ {"action", "parameters"} = plan.fields \ (Optional \cup {"unexpected"})
           \/ /\ plan.schema_version = "v2_plus"
              /\ Required = plan.fields \ Optional
              /\ plan.fields = Required \/ plan.optional_typed}

(***************************************************************************)
(* Only a plan within the contract is ever submitted: the checks that      *)
(* triage's router, execute and the validator make one after the other     *)
(* leave no gap between them.                                              *)
(***************************************************************************)
SubmittedPlansMeetContract ==
    \A w \in Workers :
        submitted[w] > 0 => st[w].action_plan \in ContractPlans

(***************************************************************************)
(* With the six skeleton nodes as they are, no run gets past collect or    *)
(* report_only: every other run dies in a skeleton, unrecorded.            *)
(***************************************************************************)
SkeletonsBlockRemediation ==
    stubs = StubNodes =>
        \A w \in Workers : /\ visited[w] \subseteq {"detect", "collect", "report_only"}
                           /\ pc[w] = "ended" => node[w] \in {"detect", "report_only"}

(***************************************************************************)
(* With LangGraph, a thread is checkpointed before its incident has a row, *)
(* whatever crashes in between: the registry never names an incident that  *)
(* cannot be resumed.                                                      *)
(***************************************************************************)
RegisteredThreadsAreCheckpointed ==
    (\A w \in Workers : backend[w] = "langgraph")
        => \A i \in Incidents : registry[i] # None => checkpoint[i] # None

\* A run that ends with the operator's timeout leaves the incident escalated.
TimeoutEscalates ==
    \A w \in Workers :
        (pc[w] = "ended" /\ node[w] = "interrupt" /\ st[w].human_decision = "timeout")
            => st[w].final_status = "escalated"

\* detect finds every issue the caller's observation contains.
IssuesDetected ==
    \A w \in Workers : "detect" \in visited[w] =>
        DetectedIssues(given[w]) \subseteq st[w].detected_issues

(***************************************************************************)
(* When a run is recorded, the registry and the thread agree on how the    *)
(* incident ended, whatever an earlier run, a crash or a resume left in    *)
(* either.  It holds while one process works on an incident.               *)
(***************************************************************************)
RegistryMatchesCheckpoint ==
    [][\A w \in Workers :
         LET i == incident[w]
         IN (/\ Record(w)
             /\ \A v \in Workers : backend[v] = "langgraph"
             /\ checkpoint[i].final_status \in Terminal)
            => registry'[i].status = checkpoint[i].final_status]_vars

\* Every run comes to an end, even when the operator's answer is "modify".
RunEnds == \A w \in Workers : pc[w] = "running" ~> pc[w] = "idle"

Registry == INSTANCE IncidentRegistry WITH
    status <- [i \in Incidents |-> IF registry[i] = None THEN None ELSE registry[i].status],
    pipeline <- [i \in Incidents |-> IF registry[i] = None THEN None ELSE registry[i].pipeline]

\* Runs of several processes, resumes and crashes keep what the registry promises.
ImplementsIncidentRegistry == Registry!Spec
=============================================================================
