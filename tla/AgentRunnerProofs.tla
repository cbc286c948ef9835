-------------------------- MODULE AgentRunnerProofs --------------------------
(* Proofs about AgentRunner, for every set of workers, incidents, plans and bounds. *)
EXTENDS AgentRunner, TLAPS

-----------------------------------------------------------------------------
(* What the nodes and the edges do to a graph state. *)

\* The state without anything in it, and one whose payload was merged in, are graph states.
LEMMA StartStates ==
    /\ NoObservation \in Observation /\ EmptyState \in GraphState
    /\ \A s \in GraphState, d \in Decisions \cup {None}, p \in Plans \cup {None} :
         Merged(s, d, p) \in GraphState
    /\ \A s \in GraphState, o \in Observation : [s EXCEPT !.obs = o] \in GraphState
    /\ \A o \in Observation : Declared(o) \in Observation
<1>1. NoObservation \in Observation
  BY DEF NoObservation, Observation
<1>2. EmptyState \in GraphState
  BY <1>1 DEF EmptyState, GraphState
<1>3. \A s \in GraphState, d \in Decisions \cup {None}, p \in Plans \cup {None} :
         Merged(s, d, p) \in GraphState
  <2> SUFFICES ASSUME NEW s \in GraphState, NEW d \in Decisions \cup {None},
                      NEW p \in Plans \cup {None}
               PROVE  Merged(s, d, p) \in GraphState
    OBVIOUS
  <2>1. /\ (IF d = None THEN s.human_decision ELSE d) \in Decisions \cup {None}
        /\ (IF p = None THEN s.action_plan ELSE p) \in Plans \cup {None}
    BY DEF GraphState
  <2> QED BY <2>1 DEF Merged, GraphState
<1>4. \A s \in GraphState, o \in Observation : [s EXCEPT !.obs = o] \in GraphState
  BY DEF GraphState
<1>5. \A o \in Observation : Declared(o) \in Observation
  BY DEF Declared, Observation
<1> QED BY <1>1, <1>2, <1>3, <1>4, <1>5

\* A node leaves a graph state; none touches the decision, only triage the plan, and
\* only execute and rollback the result.
LEMMA NodeStates ==
    ASSUME NEW s \in GraphState, NEW n \in Nodes, NEW t \in Updates(n, s)
    PROVE  /\ t \in GraphState
           /\ t.human_decision = s.human_decision
           /\ n # "triage" => t.action_plan = s.action_plan
           /\ n = "execute" => t.execution_result = "skipped"
           /\ n \notin {"execute", "rollback"} => t.execution_result = s.execution_result
<1> USE DEF GraphState
<1>1. CASE n = "detect"
  <2>1. DetectedIssues(s.obs) \in SUBSET IssueKinds
    BY DEF DetectedIssues
  <2> QED BY <1>1, <2>1 DEF Updates, Detect
<1>2. CASE n = "collect"
  BY <1>2 DEF Updates, Collect
<1>3. CASE n = "triage"
  BY <1>3 DEF Updates, Triage
<1>4. CASE n = "execute"
  BY <1>4 DEF Updates, Execute, ExecutionResults
<1>5. CASE n = "verify"
  BY <1>5 DEF Updates, Verify
<1>6. CASE n = "rollback"
  <2>1. PICK wrote \in (ExecutionResults \cup {None}) \X (FinalStatuses \cup {s.final_status}) :
           t = [s EXCEPT !.execution_result = wrote[1], !.final_status = wrote[2]]
    BY <1>6 DEF Updates, Rollback
  <2>2. wrote[1] \in ExecutionResults \cup {None} /\ wrote[2] \in FinalStatuses \cup {s.final_status}
    BY <2>1
  <2> QED BY <1>6, <2>1, <2>2
<1>7. CASE n = "report_only"
  BY <1>7 DEF Updates, ReportOnly
<1>8. CASE n \in {"interrupt", "analyze", "propose", "postmortem"}
  BY <1>8 DEF Updates, Interrupt
<1> QED BY <1>1, <1>2, <1>3, <1>4, <1>5, <1>6, <1>7, <1>8 DEF Nodes, StubNodes

\* The same of what execute does with the answer of run_databricks_job.
LEMMA ExecuteState ==
    ASSUME NEW s \in GraphState, NEW r \in {"submitted", "dry_run"}
    PROVE  /\ Execute(s, r) \in GraphState
           /\ Execute(s, r).human_decision = s.human_decision
           /\ Execute(s, r).action_plan = s.action_plan
           /\ Execute(s, r).execution_result = r
  BY DEF Execute, GraphState, ExecutionResults

\* The edges, one node at a time.
LEMMA Edges ==
    ASSUME NEW s \in GraphState
    PROVE  /\ Successor("detect", s) \in {"END", "report_only", "collect"}
           /\ Successor("collect", s) \in {"triage", "analyze"}
           /\ Successor("analyze", s) = "triage"
           /\ Successor("triage", s) \in {"report_only", "propose"}
           /\ Successor("propose", s) = "interrupt"
           /\ Successor("interrupt", s) \in {"execute", "report_only", "propose", "END"}
           /\ Successor("execute", s) = "verify"
           /\ Successor("verify", s) \in {"postmortem", "rollback", "END"}
           /\ \A n \in {"report_only", "rollback", "postmortem"} : Successor(n, s) = "END"
<1> USE DEF Successor, ConditionalEdges, LinearEdges, RouteKey
<1>1. Successor("detect", s) \in {"END", "report_only", "collect"}
  BY DEF RouteDetect
<1>2. Successor("collect", s) \in {"triage", "analyze"}
  BY DEF RouteCollect
<1>3. Successor("triage", s) \in {"report_only", "propose"}
  BY DEF RouteTriage
<1>4. Successor("interrupt", s) \in {"execute", "report_only", "propose", "END"}
  BY DEF RouteInterrupt, Decisions
<1>5. Successor("verify", s) \in {"postmortem", "rollback", "END"}
  BY DEF RouteVerify
<1>6. /\ Successor("analyze", s) = "triage" /\ Successor("propose", s) = "interrupt"
      /\ Successor("execute", s) = "verify"
      /\ \A n \in {"report_only", "rollback", "postmortem"} : Successor(n, s) = "END"
  OBVIOUS
<1> QED BY <1>1, <1>2, <1>3, <1>4, <1>5, <1>6

\* An edge leads to a node or to the end.
LEMMA NextIsNode ==
    ASSUME NEW s \in GraphState, NEW n \in Nodes
    PROVE  Successor(n, s) \in Nodes \cup {"END"}
  BY Edges DEF Nodes, StubNodes

\* What a node of a run may leave.
LEMMA ResultStates ==
    ASSUME TypeOK, NEW w \in Workers, NEW s \in Results(w)
    PROVE  /\ s \in GraphState /\ node[w] \in Nodes
           /\ s.human_decision = st[w].human_decision
           /\ node[w] # "triage" \/ pc[w] = "submitting" => s.action_plan = st[w].action_plan
           /\ \/ pc[w] = "submitting"
              \/ pc[w] = "running" /\ ~Raises(node[w], st[w], stubs) /\ ~Submits(w)
                 /\ s \in Updates(node[w], st[w])
<1>1. st[w] \in GraphState /\ (pc[w] # "idle" => node[w] \in Nodes)
  BY DEF TypeOK
<1>2. CASE pc[w] = "submitting"
  <2>1. s \in JobResults(w)
    BY <1>2 DEF Results
  <2>2. PICK r \in {"submitted", "dry_run"} : s = Execute(st[w], r)
    BY <2>1 DEF JobResults
  <2> QED BY <1>1, <1>2, <2>2, ExecuteState
<1>3. CASE pc[w] = "running" /\ ~Raises(node[w], st[w], stubs) /\ ~Submits(w)
  <2>1. s \in Updates(node[w], st[w])
    BY <1>3 DEF Results
  <2> QED BY <1>1, <1>3, <2>1, NodeStates
<1>4. CASE ~(pc[w] = "submitting") /\ ~(pc[w] = "running" /\ ~Raises(node[w], st[w], stubs) /\ ~Submits(w))
  BY <1>4 DEF Results
<1> QED BY <1>2, <1>3, <1>4

-----------------------------------------------------------------------------
(* Type correctness. *)

\* Saving a graph state, or not, leaves typed checkpoints.
LEMMA SaveTypes ==
    ASSUME TypeOK, NEW w \in Workers, NEW i \in Incidents, NEW s \in GraphState, Save(w, i, s)
    PROVE  checkpoint' \in [Incidents -> GraphState \cup {None}]
  BY DEF TypeOK, Save

\* A worker that forgets its run is typed.
LEMMA ForgetTypes ==
    ASSUME TypeOK, NEW w \in Workers, Forget(w), UNCHANGED <<fixed, runs>>,
           checkpoint' \in [Incidents -> GraphState \cup {None}],
           registry' \in [Incidents -> Row \cup {None}]
    PROVE  TypeOK'
  BY StartStates DEF TypeOK, Forget, fixed

\* Starting a run from a graph state.
LEMMA StartTypes ==
    ASSUME TypeOK, NEW w \in Workers, NEW i \in Incidents, NEW s \in GraphState,
           NEW obs \in Observation, NEW status \in Open, Start(w, i, s, obs, status)
    PROVE  TypeOK'
<1>1. checkpoint' \in [Incidents -> GraphState \cup {None}]
  BY SaveTypes DEF Start
<1>2. LinearEdges["START"] \in Nodes
  BY DEF LinearEdges, Nodes
<1> QED BY <1>1, <1>2 DEF TypeOK, Start, fixed

\* The state a run starts from.
LEMMA BaseTypes ==
    ASSUME TypeOK, NEW w \in Workers, NEW i \in Incidents, NEW obs \in Observation
    PROVE  Base(w, i) \in GraphState /\ Accepted(w, obs) \in Observation
  BY StartStates DEF TypeOK, Base, Accepted

\* Beginning a run.
LEMMA BeginTypes ==
    ASSUME TypeOK, NEW w \in Workers, NEW d \in Decisions \cup {None}, Begin(w, d)
    PROVE  TypeOK'
<1>1. CASE Invoke(w, d)
  <2>1. PICK i \in Incidents, obs \in Observations :
           Start(w, i, Merged([Base(w, i) EXCEPT !.obs = Accepted(w, obs)], d, None), obs, "running")
    BY <1>1 DEF Invoke
  <2>2. obs \in Observation
    BY RunnerAssumption
  <2>3. Merged([Base(w, i) EXCEPT !.obs = Accepted(w, obs)], d, None) \in GraphState
    BY <2>2, BaseTypes, StartStates
  <2> QED BY <2>1, <2>2, <2>3, StartTypes DEF Open
<1>2. CASE Resume(w, d)
  <2>1. PICK i \in Incidents, p \in Plans \cup {None} :
           Start(w, i, Merged(Base(w, i), d, p), NoObservation, "resumed")
    BY <1>2 DEF Resume
  <2>2. Merged(Base(w, i), d, p) \in GraphState
    BY BaseTypes, StartStates
  <2> QED BY <2>1, <2>2, StartStates, StartTypes DEF Open
<1> QED BY <1>1, <1>2 DEF Begin

\* A node returns, or the run stops at the step limit, with any of some graph states.
LEMMA AdvanceTypes ==
    ASSUME TypeOK, NEW w \in Workers, pc[w] # "idle", NEW results \in SUBSET GraphState,
           Advance(w, results) \/ Overrun(w, results)
    PROVE  TypeOK'
<1> USE DEF TypeOK
<1>1. CASE Advance(w, results)
  <2>1. PICK s \in results : /\ st' = [st EXCEPT ![w] = s]
                             /\ Save(w, incident[w], s)
                             /\ IF NextNode(w, s) = "END"
                                THEN pc' = [pc EXCEPT ![w] = "ended"] /\ UNCHANGED node
                                ELSE /\ pc' = [pc EXCEPT ![w] = "running"]
                                     /\ node' = [node EXCEPT ![w] = NextNode(w, s)]
    BY <1>1 DEF Advance
  <2>2. checkpoint' \in [Incidents -> GraphState \cup {None}]
    BY <2>1, SaveTypes
  <2>3. NextNode(w, s) \in Nodes \cup {"END"}
    BY NextIsNode DEF NextNode
  <2> QED BY <1>1, <2>1, <2>2, <2>3 DEF Advance, StepsAfter, fixed
<1>2. CASE Overrun(w, results)
  <2>1. PICK s \in results : Save(w, incident[w], s)
    BY <1>2 DEF Overrun
  <2>2. checkpoint' \in [Incidents -> GraphState \cup {None}]
    BY <2>1, SaveTypes
  <2> QED BY <1>2, <2>2, ForgetTypes DEF Overrun, fixed
<1> QED BY <1>1, <1>2

\* Recording a run: the upsert yields a row.
LEMMA UpsertRow ==
    ASSUME NEW row \in Row \cup {None}, NEW p \in {"known", None}, NEW s \in Open \cup Terminal
    PROVE  Upsert(row, p, s) \in Row
<1>1. CASE row = None
  BY <1>1 DEF Upsert, Row
<1>2. CASE row \in Row /\ row # None
  BY <1>2 DEF Upsert, Row
<1> QED BY <1>1, <1>2

LEMMA RecordTypes ==
    ASSUME TypeOK, NEW w \in Workers, Record(w)
    PROVE  /\ incident[w] \in Incidents
           /\ st[w].obs.pipeline \in {"known", None} /\ StatusValue(w) \in Open \cup Terminal
           /\ TypeOK'
<1>1. incident[w] \in Incidents /\ default[w] \in Open /\ st[w] \in GraphState
  BY DEF TypeOK, Record
<1>2. StatusValue(w) \in Open \cup Terminal
  BY <1>1 DEF StatusValue
<1>3. st[w].obs.pipeline \in {"known", None}
  BY <1>1 DEF GraphState, Observation
<1>4. registry[incident[w]] \in Row \cup {None}
  BY <1>1 DEF TypeOK
<1>5. Upsert(registry[incident[w]], st[w].obs.pipeline, StatusValue(w)) \in Row
  BY <1>2, <1>3, <1>4, UpsertRow
<1>6. registry' \in [Incidents -> Row \cup {None}]
  BY <1>1, <1>5 DEF TypeOK, Record
<1> QED BY <1>1, <1>2, <1>3, <1>6, ForgetTypes DEF Record, TypeOK, fixed

\* The type invariant holds at the start.
LEMMA TypeInit == Init => TypeOK
  BY StartStates, RunnerAssumption DEF Init, TypeOK

\* Every step keeps the type invariant.
LEMMA TypeNext == TypeOK /\ [Next]_vars => TypeOK'
<1> SUFFICES ASSUME TypeOK, [Next]_vars PROVE TypeOK'
  OBVIOUS
<1>1. ASSUME NEW w \in Workers, NEW d \in Decisions \cup {None}, Begin(w, d) PROVE TypeOK'
  BY <1>1, BeginTypes
<1>2. ASSUME NEW w \in Workers, NodeReturns(w) \/ StepLimit(w) PROVE TypeOK'
  <2>1. Results(w) \in SUBSET GraphState
    BY ResultStates
  <2>2. pc[w] # "idle"
    BY <1>2 DEF NodeReturns, StepLimit, Advance, Overrun, Results
  <2> QED BY <1>2, <2>1, <2>2, AdvanceTypes DEF NodeReturns, StepLimit
<1>3. ASSUME NEW w \in Workers, Raise(w) PROVE TypeOK'
  BY <1>3, ForgetTypes DEF Raise, shared, TypeOK
<1>4. ASSUME NEW w \in Workers, SubmitJob(w) PROVE TypeOK'
  BY <1>4 DEF TypeOK, SubmitJob, fixed, shared
<1>5. ASSUME NEW w \in Workers, Record(w) PROVE TypeOK'
  BY <1>5, RecordTypes
<1>6. CASE UNCHANGED vars
  BY <1>6 DEF TypeOK, vars, fixed, local, shared
<1> QED BY <1>1, <1>2, <1>3, <1>4, <1>5, <1>6
        DEF Next, RunStep, NodeRaises, SubmitRaises, Crash

\* Type correctness: whatever a node writes to final_status, no other status is recorded.
THEOREM TypeCorrect == Spec => []TypeOK
  BY TypeInit, TypeNext, PTL DEF Spec

-----------------------------------------------------------------------------
(* What is executed is within the contract. *)

\* The four places where a plan is checked leave no gap between them.
LEMMA ExecutablePlans ==
    ASSUME NEW plan \in Plans, Executable(plan), ~Skips(plan) PROVE plan \in ContractPlans
<1>1. /\ plan.fields \subseteq Required \cup Optional \cup {"unexpected"}
      /\ plan.schema_version \in {"v1", "v2_plus", "malformed"}
  BY RunnerAssumption DEF Plan
<1>2. \/ /\ plan.action = "retry_pipeline"
         /\ plan.parameters = {"pipeline", "run_mode"}
      \/ /\ plan.action = "backfill_silver"
         /\ plan.parameters = {"pipeline", "run_mode", "date_kst"} /\ plan.date_valid
  BY DEF Executable, Skips, MeetsSchema, Actions, ActionParameterSchema
<1>3. plan.parameters_is_dict /\ plan.texts /\ {"action", "parameters"} \subseteq plan.fields
  BY DEF Executable, MeetsSchema
<1>4. \/ {"action", "parameters"} = plan.fields \ (Optional \cup {"unexpected"})
      \/ /\ plan.schema_version = "v2_plus"
         /\ Required = plan.fields \ Optional
         /\ plan.fields = Required \/ plan.optional_typed
  <2>1. CASE "schema_version" \notin plan.fields
    BY <1>1, <1>3, <2>1 DEF Required, Optional
  <2>2. CASE "schema_version" \in plan.fields
    <3>1. Version(plan) = "v2_plus" /\ plan.schema_version = "v2_plus"
      BY <2>2 DEF Executable, MeetsContract, Version
    <3>2. /\ Required \subseteq plan.fields /\ plan.fields \subseteq Required \cup Optional
          /\ Optional \cap plan.fields # {} => plan.optional_typed
      BY <3>1 DEF Executable, MeetsContract
    <3>3. Required \cap Optional = {}
      BY DEF Required, Optional
    <3> QED BY <3>1, <3>2, <3>3
  <2> QED BY <2>1, <2>2
<1> QED BY <1>2, <1>3, <1>4 DEF ContractPlans

-----------------------------------------------------------------------------
(* The strengthening: what the position of a run says of its past. *)

\* The nodes every run has executed before it gets to a node.
Behind(n) ==
    CASE n = "propose"   -> {"triage"}
      [] n = "interrupt" -> {"triage", "propose"}
      [] n \in {"execute", "verify", "rollback", "postmortem"} -> {"triage", "propose", "interrupt"}
      [] OTHER           -> {}

Position(w) ==
    /\ pc[w] = "idle" => submitted[w] = 0 /\ visited[w] = {}
    /\ pc[w] \in {"running", "submitting"} =>
         Behind(node[w]) \subseteq visited[w] /\ "report_only" \notin visited[w]
    /\ pc[w] = "submitting" => node[w] = "execute"
    /\ pc[w] = "running" /\ node[w] \notin {"verify", "rollback", "postmortem"} => submitted[w] = 0

Approved(w) ==
    submitted[w] > 0 =>
        /\ submitted[w] = 1
        /\ {"triage", "propose", "interrupt"} \subseteq visited[w]
        /\ "report_only" \notin visited[w]
        /\ st[w].human_decision = "approve"
        /\ ~Skips(st[w].action_plan)
        /\ st[w].action_plan \in ContractPlans

Blocked(w) ==
    stubs = StubNodes => /\ visited[w] \subseteq {"detect", "collect", "report_only"}
                         /\ pc[w] = "ended" => node[w] \in {"detect", "report_only"}

RunOK(w) == Position(w) /\ Approved(w) /\ Blocked(w)

RunInv == TypeOK /\ \A w \in Workers : RunOK(w)

\* The other workers' runs are as they were.
LEMMA OthersOK ==
    ASSUME RunInv, NEW v \in Workers, UNCHANGED stubs,
           pc'[v] = pc[v], node'[v] = node[v], st'[v] = st[v], visited'[v] = visited[v],
           submitted'[v] = submitted[v]
    PROVE  RunOK(v)'
  BY DEF RunInv, RunOK, Position, Approved, Blocked

\* A worker that forgets its run has no past.
LEMMA ForgetOK ==
    ASSUME RunInv, NEW w \in Workers, Forget(w), UNCHANGED fixed
    PROVE  \A v \in Workers : RunOK(v)'
<1>1. /\ pc'[w] = "idle" /\ submitted'[w] = 0 /\ visited'[w] = {}
  BY DEF Forget, RunInv, TypeOK
<1>2. RunOK(w)'
  BY <1>1 DEF RunOK, Position, Approved, Blocked
<1>3. ASSUME NEW v \in Workers, v # w PROVE RunOK(v)'
  BY <1>3, OthersOK DEF Forget, RunInv, TypeOK, fixed
<1> QED BY <1>2, <1>3

\* A run starts at detect, with no past.
LEMMA StartOK ==
    ASSUME RunInv, NEW w \in Workers, NEW i, NEW s, NEW obs, NEW status,
           Start(w, i, s, obs, status)
    PROVE  \A v \in Workers : RunOK(v)'
<1>1. /\ pc'[w] = "running" /\ node'[w] = "detect"
      /\ submitted'[w] = 0 /\ visited'[w] = {}
  BY DEF Start, RunInv, RunOK, Position, TypeOK, LinearEdges
<1>2. RunOK(w)'
  BY <1>1 DEF RunOK, Position, Approved, Blocked, Behind
<1>3. ASSUME NEW v \in Workers, v # w PROVE RunOK(v)'
  BY <1>3, OthersOK DEF Start, RunInv, TypeOK, fixed
<1> QED BY <1>2, <1>3

\* execute asks for a job.
LEMMA SubmitOK ==
    ASSUME RunInv, NEW w \in Workers, SubmitJob(w)
    PROVE  \A v \in Workers : RunOK(v)'
<1>1. /\ pc[w] = "running" /\ node[w] = "execute" /\ ~ExecuteRaises(st[w])
      /\ ~Skips(st[w].action_plan) /\ st[w].action_plan \in Plans \cup {None}
      /\ submitted[w] = 0
  BY DEF SubmitJob, Submits, ExecuteSubmits, RunInv, RunOK, Position, TypeOK, GraphState
<1>2. st[w].action_plan \in ContractPlans /\ st[w].human_decision = "approve"
  BY <1>1, ExecutablePlans DEF ExecuteRaises
<1>3. Behind("execute") = {"triage", "propose", "interrupt"}
  BY DEF Behind
<1>4. /\ pc'[w] = "submitting" /\ submitted'[w] = 1 /\ node'[w] = "execute"
      /\ UNCHANGED <<st, visited, stubs, node>>
  <2>1. pc' = [pc EXCEPT ![w] = "submitting"] /\ submitted' = [submitted EXCEPT ![w] = @ + 1]
    BY DEF SubmitJob
  <2>2. UNCHANGED <<st, visited, stubs, node>>
    BY DEF SubmitJob, fixed
  <2> QED BY <1>1, <2>1, <2>2 DEF RunInv, TypeOK
<1>5. {"triage", "propose", "interrupt"} \subseteq visited[w] /\ "report_only" \notin visited[w]
  BY <1>1, <1>3 DEF RunInv, RunOK, Position
<1>6. RunOK(w)'
  BY <1>1, <1>2, <1>3, <1>4, <1>5 DEF RunOK, Position, Approved, Blocked, RunInv
<1>7. ASSUME NEW v \in Workers, v # w PROVE RunOK(v)'
  BY <1>7, OthersOK DEF SubmitJob, RunInv, TypeOK, fixed
<1> QED BY <1>6, <1>7

\* A node returns: the run's past fits its next node.
LEMMA AdvanceOK ==
    ASSUME RunInv, NEW w \in Workers, NodeReturns(w)
    PROVE  \A v \in Workers : RunOK(v)'
<1> DEFINE n == node[w]
<1>1. PICK s \in Results(w) :
         /\ st' = [st EXCEPT ![w] = s]
         /\ IF Successor(n, s) = "END"
            THEN pc' = [pc EXCEPT ![w] = "ended"] /\ UNCHANGED node
            ELSE /\ pc' = [pc EXCEPT ![w] = "running"]
                 /\ node' = [node EXCEPT ![w] = Successor(n, s)]
  BY DEF NodeReturns, Advance, NextNode
<1>2. /\ s \in GraphState /\ n \in Nodes
      /\ s.human_decision = st[w].human_decision
      /\ n # "triage" \/ pc[w] = "submitting" => s.action_plan = st[w].action_plan
      /\ \/ pc[w] = "submitting"
         \/ pc[w] = "running" /\ ~Raises(n, st[w], stubs)
  BY ResultStates DEF RunInv
<1>3. /\ st'[w] = s /\ visited'[w] = visited[w] \cup {n} /\ submitted'[w] = submitted[w]
      /\ stubs' = stubs /\ submitted[w] \in Nat
      /\ IF Successor(n, s) = "END" THEN pc'[w] = "ended" /\ node'[w] = n
         ELSE pc'[w] = "running" /\ node'[w] = Successor(n, s)
  BY <1>1 DEF NodeReturns, Advance, RunInv, TypeOK, fixed
<1>4. /\ Behind(n) \subseteq visited[w] /\ "report_only" \notin visited[w]
      /\ pc[w] = "submitting" => n = "execute"
      /\ n \notin {"execute", "verify", "rollback", "postmortem"} => submitted[w] = 0
  BY <1>2 DEF RunInv, RunOK, Position
<1>5. Approved(w)'
  BY <1>2, <1>3, <1>4 DEF RunInv, RunOK, Approved
<1>6. Blocked(w)'
  <2> SUFFICES ASSUME stubs = StubNodes
               PROVE  n \in {"detect", "report_only"} \/ (n = "collect" /\ Successor(n, s) # "END")
    BY <1>3 DEF RunInv, RunOK, Blocked
  <2>1. n \notin {"propose", "interrupt", "execute", "verify", "rollback", "postmortem"}
    BY <1>4 DEF RunInv, RunOK, Blocked, Behind
  <2>2. n \notin StubNodes
    BY <1>2, <1>4 DEF Raises, StubNodes
  <2>3. n = "collect" => Successor(n, s) # "END"
    BY <1>2, Edges
  <2> QED BY <1>2, <2>1, <2>2, <2>3 DEF Nodes, StubNodes
<1>7. Position(w)'
  <2>1. CASE Successor(n, s) = "END"
    BY <1>3, <2>1 DEF Position
  <2>2. CASE Successor(n, s) # "END"
    <3> DEFINE m == Successor(n, s)
    <3>1. pc'[w] = "running" /\ node'[w] = m
      BY <1>3, <2>2
    <3>2. n # "report_only"
      BY <1>2, <2>2, Edges
    <3>3. Behind(m) \subseteq visited'[w]
      <4>1. CASE n \in {"detect", "collect", "analyze", "triage"}
        BY <1>2, <1>3, <4>1, <2>2, Edges DEF Behind
      <4>2. CASE n \in {"propose", "interrupt", "execute", "verify"}
        BY <1>2, <1>3, <1>4, <4>2, <2>2, Edges DEF Behind
      <4>3. CASE n \in {"rollback", "postmortem"}
        BY <1>2, <2>2, <4>3, Edges
      <4> QED BY <1>2, <3>2, <4>1, <4>2, <4>3 DEF Nodes, StubNodes
    <3>4. m \notin {"verify", "rollback", "postmortem"} => submitted[w] = 0
      <4>1. CASE n \in {"execute", "verify", "rollback", "postmortem"}
        BY <1>2, <2>2, <4>1, Edges
      <4>2. CASE n \notin {"execute", "verify", "rollback", "postmortem"}
        BY <1>4, <4>2
      <4> QED BY <4>1, <4>2
    <3> QED BY <1>3, <1>4, <3>1, <3>2, <3>3, <3>4 DEF Position
  <2> QED BY <2>1, <2>2
<1>8. ASSUME NEW v \in Workers, v # w PROVE RunOK(v)'
  BY <1>1, <1>8, OthersOK DEF NodeReturns, Advance, RunInv, TypeOK, fixed
<1> QED BY <1>5, <1>6, <1>7, <1>8 DEF RunOK

\* The invariant holds at the start, and every step keeps it.
LEMMA RunInvInit == Init => RunInv
<1> SUFFICES ASSUME Init PROVE RunInv
  OBVIOUS
<1>1. TypeOK
  BY TypeInit
<1>2. \A w \in Workers : RunOK(w)
  BY DEF Init, RunOK, Position, Approved, Blocked
<1> QED BY <1>1, <1>2 DEF RunInv

LEMMA RunInvNext == RunInv /\ [Next]_vars => RunInv'
<1> SUFFICES ASSUME RunInv, [Next]_vars PROVE RunInv'
  OBVIOUS
<1>1. TypeOK'
  BY TypeNext DEF RunInv
<1>2. \A v \in Workers : RunOK(v)'
  <2>1. ASSUME NEW w \in Workers, NEW d \in Decisions \cup {None}, Begin(w, d)
        PROVE \A v \in Workers : RunOK(v)'
    BY <2>1, StartOK DEF Begin, Invoke, Resume
  <2>2. ASSUME NEW w \in Workers, NodeReturns(w) PROVE \A v \in Workers : RunOK(v)'
    BY <2>2, AdvanceOK
  <2>3. ASSUME NEW w \in Workers, Raise(w) \/ StepLimit(w) \/ Record(w)
        PROVE \A v \in Workers : RunOK(v)'
    BY <2>3, ForgetOK DEF Raise, StepLimit, Overrun, Record
  <2>4. ASSUME NEW w \in Workers, SubmitJob(w) PROVE \A v \in Workers : RunOK(v)'
    BY <2>4, SubmitOK
  <2>5. CASE UNCHANGED vars
    BY <2>5 DEF vars, fixed, local, RunInv, RunOK, Position, Approved, Blocked
  <2> QED BY <2>1, <2>2, <2>3, <2>4, <2>5 DEF Next, RunStep, NodeRaises, SubmitRaises, Crash
<1> QED BY <1>1, <1>2 DEF RunInv

LEMMA RunInvAlways == Spec => []RunInv
  BY RunInvInit, RunInvNext, PTL DEF Spec

\* Whatever several processes do, and whatever decision a thread still holds, a run
\* submits once at most, after it made and proposed a plan and found an approval.
THEOREM ApprovedSubmissions == Spec => []OneApprovedSubmissionPerRun
<1>1. RunInv => OneApprovedSubmissionPerRun
  BY DEF RunInv, RunOK, Approved, OneApprovedSubmissionPerRun
<1> QED BY <1>1, RunInvAlways, PTL

\* Whatever plans triage or the operator may write, those submitted are within the contract.
THEOREM ContractHolds == Spec => []SubmittedPlansMeetContract
<1>1. RunInv => SubmittedPlansMeetContract
  BY DEF RunInv, RunOK, Approved, SubmittedPlansMeetContract
<1> QED BY <1>1, RunInvAlways, PTL

\* With the six skeletons as they are, no run gets past collect or report_only.
THEOREM SkeletonsBlock == Spec => []SkeletonsBlockRemediation
<1>1. RunInv => SkeletonsBlockRemediation
  BY DEF RunInv, RunOK, Blocked, SkeletonsBlockRemediation
<1> QED BY <1>1, RunInvAlways, PTL

-----------------------------------------------------------------------------
(* Checkpoints and rows. *)

AllLangGraph == \A w \in Workers : backend[w] = "langgraph"

\* A run in progress has saved its thread.
Resumable == AllLangGraph => \A w \in Workers : pc[w] # "idle" => checkpoint[incident[w]] # None

ThreadInv == TypeOK /\ Resumable /\ RegisteredThreadsAreCheckpointed

\* Saving loses no thread, and keeps the one it saves.
LEMMA SaveKeeps ==
    ASSUME TypeOK, AllLangGraph, NEW w \in Workers, NEW i \in Incidents, NEW s \in GraphState,
           Save(w, i, s)
    PROVE  checkpoint'[i] # None /\ \A j \in Incidents : checkpoint[j] # None => checkpoint'[j] # None
<1>1. checkpoint' = [checkpoint EXCEPT ![i] = s]
  BY DEF Save, AllLangGraph
<1>2. s # None
  BY RunnerAssumption
<1> QED BY <1>1, <1>2 DEF TypeOK

\* A step after which no more runs are in progress, no more rows are there, and no thread is lost.
LEMMA ThreadStep ==
    ASSUME ThreadInv, UNCHANGED backend,
           \A w \in Workers : pc'[w] # "idle" => pc[w] # "idle" /\ incident'[w] = incident[w],
           AllLangGraph => \A i \in Incidents : checkpoint[i] # None => checkpoint'[i] # None,
           \A i \in Incidents : registry'[i] # None =>
               registry[i] # None \/ \E w \in Workers : pc[w] # "idle" /\ incident[w] = i
    PROVE  Resumable' /\ RegisteredThreadsAreCheckpointed'
  BY DEF ThreadInv, Resumable, RegisteredThreadsAreCheckpointed, AllLangGraph, TypeOK

LEMMA ThreadInvInit == Init => ThreadInv
<1> SUFFICES ASSUME Init PROVE ThreadInv
  OBVIOUS
<1>1. TypeOK
  BY TypeInit
<1> QED BY <1>1 DEF Init, ThreadInv, Resumable, RegisteredThreadsAreCheckpointed

LEMMA ThreadInvNext == ThreadInv /\ [Next]_vars => ThreadInv'
<1> SUFFICES ASSUME ThreadInv, [Next]_vars PROVE ThreadInv'
  OBVIOUS
<1> USE DEF ThreadInv
<1>1. TypeOK'
  BY TypeNext
<1>2. ASSUME NEW w \in Workers, NEW i \in Incidents, NEW s \in GraphState, NEW obs, NEW status,
             Start(w, i, s, obs, status)
      PROVE Resumable' /\ RegisteredThreadsAreCheckpointed'
  <2>1. /\ UNCHANGED <<backend, registry>> /\ Save(w, i, s)
        /\ incident' = [incident EXCEPT ![w] = i] /\ pc' = [pc EXCEPT ![w] = "running"]
    BY <1>2 DEF Start, fixed
  <2> SUFFICES ASSUME AllLangGraph
               PROVE /\ \A v \in Workers : pc'[v] # "idle" => checkpoint'[incident'[v]] # None
                     /\ \A j \in Incidents : registry'[j] # None => checkpoint'[j] # None
    BY <2>1 DEF Resumable, RegisteredThreadsAreCheckpointed, AllLangGraph
  <2>2. checkpoint'[i] # None /\ \A j \in Incidents : checkpoint[j] # None => checkpoint'[j] # None
    BY <2>1, SaveKeeps
  <2>3. \A v \in Workers : v # w /\ pc[v] # "idle" =>
             incident[v] \in Incidents /\ checkpoint[incident[v]] # None
    BY DEF Resumable, TypeOK
  <2>4. \A v \in Workers : pc'[v] # "idle" => checkpoint'[incident'[v]] # None
    BY <2>1, <2>2, <2>3 DEF TypeOK
  <2>5. \A j \in Incidents : registry'[j] # None => checkpoint'[j] # None
    BY <2>1, <2>2 DEF RegisteredThreadsAreCheckpointed, AllLangGraph
  <2> QED BY <2>4, <2>5
<1>3. ASSUME NEW w \in Workers, NEW d \in Decisions \cup {None}, Begin(w, d)
      PROVE Resumable' /\ RegisteredThreadsAreCheckpointed'
  <2>1. \A i \in Incidents, obs \in Observations :
           Merged([Base(w, i) EXCEPT !.obs = Accepted(w, obs)], d, None) \in GraphState
    BY BaseTypes, StartStates, RunnerAssumption
  <2>2. \A i \in Incidents, p \in Plans \cup {None} : Merged(Base(w, i), d, p) \in GraphState
    BY BaseTypes, StartStates, NoObservation \in Observation
  <2> QED BY <1>2, <1>3, <2>1, <2>2 DEF Begin, Invoke, Resume
<1>4. ASSUME NEW w \in Workers, NodeReturns(w) \/ StepLimit(w)
      PROVE Resumable' /\ RegisteredThreadsAreCheckpointed'
  <2>1. PICK s \in Results(w) : Save(w, incident[w], s)
    BY <1>4 DEF NodeReturns, StepLimit, Advance, Overrun
  <2>2. s \in GraphState /\ pc[w] # "idle" /\ incident[w] \in Incidents
    BY ResultStates DEF TypeOK
  <2>3. AllLangGraph => \A i \in Incidents : checkpoint[i] # None => checkpoint'[i] # None
    BY <2>1, <2>2, SaveKeeps
  <2>4. /\ UNCHANGED <<backend, registry>>
        /\ \A v \in Workers : pc'[v] # "idle" => pc[v] # "idle" /\ incident'[v] = incident[v]
    BY <1>4, <2>2 DEF NodeReturns, StepLimit, Advance, Overrun, Forget, fixed, TypeOK
  <2> QED BY <2>3, <2>4, ThreadStep
<1>5. ASSUME NEW w \in Workers, Raise(w)
      PROVE Resumable' /\ RegisteredThreadsAreCheckpointed'
  BY <1>5, ThreadStep DEF Raise, Forget, fixed, shared, TypeOK
<1>6. ASSUME NEW w \in Workers, SubmitJob(w)
      PROVE Resumable' /\ RegisteredThreadsAreCheckpointed'
  BY <1>6, ThreadStep DEF SubmitJob, fixed, shared, TypeOK
<1>7. ASSUME NEW w \in Workers, Record(w)
      PROVE Resumable' /\ RegisteredThreadsAreCheckpointed'
  <2>1. /\ UNCHANGED <<backend, checkpoint>> /\ pc[w] # "idle"
        /\ \A v \in Workers : pc'[v] # "idle" => pc[v] # "idle" /\ incident'[v] = incident[v]
        /\ \A j \in Incidents : j # incident[w] => registry'[j] = registry[j]
    BY <1>7 DEF Record, Forget, fixed, TypeOK
  <2> QED BY <2>1, ThreadStep
<1>8. CASE UNCHANGED vars
  <2>1. UNCHANGED <<pc, incident, backend, checkpoint, registry>>
    BY <1>8 DEF vars, fixed, local, shared
  <2>2. Resumable' /\ RegisteredThreadsAreCheckpointed'
    BY <2>1, ThreadStep
  <2> QED BY <1>1, <2>2
<1> QED BY <1>1, <1>3, <1>4, <1>5, <1>6, <1>7, <1>8
        DEF Next, RunStep, NodeRaises, SubmitRaises, Crash

\* With LangGraph, the registry never names an incident that cannot be resumed, however
\* many processes crash wherever.
THEOREM RegisteredResumable == Spec => []RegisteredThreadsAreCheckpointed
<1>1. ThreadInv => RegisteredThreadsAreCheckpointed
  BY DEF ThreadInv
<1> QED BY <1>1, ThreadInvInit, ThreadInvNext, PTL DEF Spec

-----------------------------------------------------------------------------
(* The refinement of IncidentRegistry. *)

\* What an upsert may do to a row is what IncidentRegistry allows.
LEMMA UpsertKeeps ==
    ASSUME NEW row \in Row \cup {None}, NEW p \in {"known", None}, NEW s \in Open \cup Terminal
    PROVE  /\ Upsert(row, p, s).status \in Open \cup Terminal
           /\ row # None /\ row.status \in Terminal => Upsert(row, p, s).status \in Terminal
           /\ Upsert(row, p, s).pipeline \in {"known", None}
           /\ row # None /\ row.pipeline # None => Upsert(row, p, s).pipeline = "known"
<1>1. CASE row = None
  BY <1>1 DEF Upsert, Row
<1>2. CASE row \in Row /\ row # None
  BY <1>2 DEF Upsert, Row
<1> QED BY <1>1, <1>2

\* A step that leaves the table alone is a stutter of IncidentRegistry.
LEMMA RegistryStutter == UNCHANGED registry => UNCHANGED Registry!vars
  BY DEF Registry!vars

LEMMA RecordRefines ==
    ASSUME TypeOK, NEW w \in Workers, Record(w) PROVE Registry!Next
<1> DEFINE i == incident[w]
           p == st[w].obs.pipeline
           s == StatusValue(w)
           new == Upsert(registry[i], p, s)
           StatusOf(r) == IF r = None THEN None ELSE r.status
           PipelineOf(r) == IF r = None THEN None ELSE r.pipeline
<1>1. /\ i \in Incidents /\ p \in {"known", None} /\ s \in Open \cup Terminal
      /\ registry[i] \in Row \cup {None} /\ registry \in [Incidents -> Row \cup {None}]
  BY RecordTypes DEF TypeOK
<1>2. registry' = [registry EXCEPT ![i] = new]
  BY DEF Record
<1>3. new \in Row /\ new # None
  BY <1>1, UpsertRow, RunnerAssumption
<1>4. /\ new.status \in Open \cup Terminal /\ new.pipeline \in {"known", None}
      /\ registry[i] # None /\ registry[i].status \in Terminal => new.status \in Terminal
      /\ registry[i] # None /\ registry[i].pipeline # None => new.pipeline = "known"
  BY <1>1, UpsertKeeps
<1> HIDE DEF new, p, s
<1>5. /\ Registry!Open = Open /\ Registry!Terminal = Terminal /\ None \notin Terminal
  BY RunnerAssumption DEF Registry!Open, Registry!Terminal, Open, Terminal
<1> DEFINE S == [j \in Incidents |-> StatusOf(registry[j])]
           Q == [j \in Incidents |-> PipelineOf(registry[j])]
<1>6. /\ S' = [S EXCEPT ![i] = new.status]
      /\ Q' = [Q EXCEPT ![i] = new.pipeline]
  BY <1>1, <1>2, <1>3
<1>7. /\ new.status \in IF S[i] \in Terminal THEN Terminal ELSE Open \cup Terminal
      /\ new.pipeline \in IF Q[i] = None THEN {"known", None} ELSE {"known"}
  BY <1>1, <1>4, <1>5
<1>8. PICK j \in Incidents : j = i
  BY <1>1
<1>9. Registry!Write(j)
  BY <1>5, <1>6, <1>7, <1>8 DEF Registry!Write
<1> QED BY <1>9 DEF Registry!Next

\* AgentRunner implements IncidentRegistry: rows stay, terminal statuses stay terminal, and
\* pipelines are not forgotten, for any number of processes, runs, resumes and crashes.
THEOREM Refinement == Spec => ImplementsIncidentRegistry
<1>1. Init => Registry!Init
  BY DEF Init, Registry!Init
<1>2. TypeOK /\ [Next]_vars => [Registry!Next]_(Registry!vars)
  <2> SUFFICES ASSUME TypeOK, [Next]_vars PROVE Registry!Next \/ UNCHANGED Registry!vars
    OBVIOUS
  <2>1. ASSUME NEW w \in Workers, Record(w) PROVE Registry!Next
    BY <2>1, RecordRefines
  <2>2. CASE UNCHANGED registry
    BY <2>2, RegistryStutter
  <2>3. ASSUME NEW w \in Workers, NEW d \in Decisions \cup {None}, Begin(w, d) PROVE UNCHANGED registry
    BY <2>3 DEF Begin, Invoke, Resume, Start
  <2>4. ASSUME NEW w \in Workers, NodeReturns(w) \/ StepLimit(w) PROVE UNCHANGED registry
    BY <2>4 DEF NodeReturns, StepLimit, Advance, Overrun
  <2>5. ASSUME NEW w \in Workers, Raise(w) \/ SubmitJob(w) PROVE UNCHANGED registry
    BY <2>5 DEF Raise, SubmitJob, shared
  <2>6. CASE UNCHANGED vars
    BY <2>6, <2>2 DEF vars, shared
  <2> QED BY <2>1, <2>2, <2>3, <2>4, <2>5, <2>6 DEF Next, RunStep, NodeRaises, SubmitRaises, Crash
<1> QED BY <1>1, <1>2, TypeCorrect, PTL DEF Spec, ImplementsIncidentRegistry, Registry!Spec

-----------------------------------------------------------------------------
(* What a thread and its row say, while one process works on the incidents. *)

Alone == \A v, w \in Workers : v = w

\* The process and its thread hold the same state.
Synced == AllLangGraph => \A w \in Workers : pc[w] # "idle" => checkpoint[incident[w]] = st[w]

LEMMA SyncedNext ==
    ASSUME Alone, TypeOK, Synced, [Next]_vars PROVE Synced'
<1>1. ASSUME NEW w \in Workers, NEW d \in Decisions \cup {None}, Begin(w, d) PROVE Synced'
  <2>1. PICK i \in Incidents : \E s, obs, status : Start(w, i, s, obs, status)
    BY <1>1 DEF Begin, Invoke, Resume
  <2>2. PICK s, obs, status : Start(w, i, s, obs, status)
    BY <2>1
  <2>3. /\ UNCHANGED backend /\ Save(w, i, s) /\ st'[w] = s /\ incident'[w] = i
    BY <2>2 DEF Start, fixed, TypeOK
  <2> QED BY <2>3 DEF Alone, Synced, AllLangGraph, Save, TypeOK
<1>2. ASSUME NEW w \in Workers, NodeReturns(w) PROVE Synced'
  <2>1. PICK s \in Results(w) : st' = [st EXCEPT ![w] = s] /\ Save(w, incident[w], s)
    BY <1>2 DEF NodeReturns, Advance
  <2>2. pc[w] # "idle" /\ UNCHANGED <<backend, incident>>
    BY <1>2, <2>1 DEF NodeReturns, Advance, fixed, Results
  <2>3. incident[w] \in Incidents
    BY <2>2 DEF TypeOK
  <2>4. st'[w] = s
    BY <2>1 DEF TypeOK
  <2>5. AllLangGraph => checkpoint'[incident[w]] = s
    BY <2>1, <2>3 DEF AllLangGraph, Save, TypeOK
  <2> QED BY <2>2, <2>4, <2>5 DEF Alone, Synced, AllLangGraph
<1>3. ASSUME NEW w \in Workers, Raise(w) \/ StepLimit(w) \/ Record(w) PROVE Synced'
  <2>1. pc'[w] = "idle"
    BY <1>3 DEF Raise, StepLimit, Overrun, Record, Forget, TypeOK
  <2> QED BY <2>1 DEF Alone, Synced
<1>4. ASSUME NEW w \in Workers, SubmitJob(w) PROVE Synced'
  <2>1. pc[w] # "idle" /\ UNCHANGED <<backend, incident, st, checkpoint>>
    BY <1>4 DEF SubmitJob, fixed, shared
  <2> QED BY <2>1 DEF Alone, Synced, AllLangGraph
<1>5. CASE UNCHANGED vars
  BY <1>5 DEF vars, fixed, local, shared, Synced, AllLangGraph
<1> QED BY <1>1, <1>2, <1>3, <1>4, <1>5
        DEF Next, RunStep, NodeRaises, SubmitRaises, Crash

\* With one process, a row that is written says how the thread ended, whatever an earlier
\* run left in either.
THEOREM RegistryFollowsThread == ASSUME Alone PROVE Spec => RegistryMatchesCheckpoint
<1> DEFINE Follows ==
      \A w \in Workers :
         LET i == incident[w]
         IN (/\ Record(w)
             /\ \A v \in Workers : backend[v] = "langgraph"
             /\ checkpoint[i].final_status \in Terminal)
            => registry'[i].status = checkpoint[i].final_status
<1>1. Init => Synced
  BY DEF Init, Synced
<1>2. TypeOK /\ Synced /\ [Next]_vars => Synced'
  BY SyncedNext
<1>3. TypeOK /\ Synced /\ [Next]_vars => [Follows]_vars
  <2> SUFFICES ASSUME TypeOK, Synced, NEW w \in Workers, Record(w), AllLangGraph,
                      checkpoint[incident[w]].final_status \in Terminal
               PROVE  registry'[incident[w]].status = checkpoint[incident[w]].final_status
    BY DEF AllLangGraph
  <2> DEFINE i == incident[w]
  <2>1. checkpoint[i] = st[w] /\ i \in Incidents
    BY DEF Record, Synced, TypeOK
  <2>2. StatusValue(w) = checkpoint[i].final_status
    BY <2>1 DEF StatusValue
  <2>3. registry'[i] = Upsert(registry[i], st[w].obs.pipeline, StatusValue(w))
    BY <2>1 DEF Record, TypeOK
  <2>4. StatusValue(w) \notin Open
    BY <2>2 DEF Terminal, Open
  <2> QED BY <2>2, <2>3, <2>4 DEF Upsert
<1> QED BY <1>1, <1>2, <1>3, TypeInit, TypeNext, PTL DEF Spec, RegistryMatchesCheckpoint, Follows
=============================================================================
