----------------------------- MODULE AgentProofs -----------------------------
(* Proofs about Agent, for every number of processes, incidents, plans and requests. *)
EXTENDS Agent, AgentRunnerProofs

-----------------------------------------------------------------------------
(* Agent is AgentRunner with the job filled in. *)

\* A node that leaves one of fewer states does what the node may do.
LEMMA FewerResults ==
    ASSUME NEW w \in Workers, NEW few, NEW many, few \subseteq many
    PROVE  (Advance(w, few) => Advance(w, many)) /\ (Overrun(w, few) => Overrun(w, many))
  BY DEF Advance, Overrun

\* While the job is submitted, execute leaves one of two states.
LEMMA JobStates ==
    ASSUME NEW w \in Workers, pc[w] = "submitting", NEW r \in {"submitted", "dry_run"}
    PROVE  {Execute(st[w], r)} \subseteq Results(w)
  BY DEF Results, JobResults

\* Every step of the composition is a step of the runner, or leaves the runner alone.
LEMMA RunnerSteps == [AgentNext]_agent_vars => [Next]_vars
<1> SUFFICES ASSUME [AgentNext]_agent_vars PROVE [Next]_vars
  OBVIOUS
<1>1. ASSUME NEW w \in Workers, BeginRun(w) PROVE Next
  BY <1>1 DEF BeginRun, Next
<1>2. ASSUME NEW w \in Workers, RunnerStep(w) PROVE Next
  BY <1>2 DEF RunnerStep, Next, RunStep
<1>3. ASSUME NEW w \in Workers, CallJob(w) \/ JobRaises(w) \/ ProcessDies(w) PROVE Next
  BY <1>3 DEF CallJob, JobRaises, ProcessDies, Next, RunStep
<1>4. ASSUME NEW w \in Workers, JobSubmitted(w) PROVE Next
  <2>1. pc[w] = "submitting" /\ (\/ Advance(w, {Execute(st[w], "submitted")})
                                 \/ Overrun(w, {Execute(st[w], "submitted")}))
    BY <1>4 DEF JobSubmitted
  <2>2. NodeReturns(w) \/ StepLimit(w)
    BY <2>1, JobStates, FewerResults DEF NodeReturns, StepLimit
  <2> QED BY <2>2 DEF Next, RunStep
<1>5. ASSUME NEW w \in Workers, JobSimulated(w) PROVE Next
  <2>1. pc[w] = "submitting" /\ (\/ Advance(w, {Execute(st[w], "dry_run")})
                                 \/ Overrun(w, {Execute(st[w], "dry_run")}))
    BY <1>5 DEF JobSimulated
  <2>2. NodeReturns(w) \/ StepLimit(w)
    BY <2>1, JobStates, FewerResults DEF NodeReturns, StepLimit
  <2> QED BY <2>2 DEF Next, RunStep
<1>6. ASSUME NEW w \in Workers, Request(w) PROVE UNCHANGED vars
  BY <1>6 DEF Request
<1>7. CASE ServiceStep
  BY <1>7 DEF ServiceStep
<1>8. CASE UNCHANGED agent_vars
  BY <1>8 DEF agent_vars
<1> QED BY <1>1, <1>2, <1>3, <1>4, <1>5, <1>6, <1>7, <1>8 DEF AgentNext, AgentStep

\* The composition implements the runner: what is proved of the runner holds of it.
THEOREM ImplementsRunner == AgentSpec => Spec
<1>1. AgentInit => Init
  BY DEF AgentInit
<1> QED BY <1>1, RunnerSteps, PTL DEF AgentSpec, Spec

\* Whatever the job does, only plans within the contract are submitted.
THEOREM AgentContractHolds == AgentSpec => []SubmittedPlansMeetContract
  BY ImplementsRunner, ContractHolds, PTL

-----------------------------------------------------------------------------
(* Type correctness. *)

JobTypeOK ==
    /\ phase \in [Workers -> {"resting", "calling"}]
    /\ budget \in [Workers -> 0 .. Limit]
    /\ attempts \in [Workers -> Nat]
    /\ launched \subseteq (Workers \X Nat) \cup ForeignRuns
    /\ result \in [Workers -> launched \cup {None}]

HistoryTypeOK ==
    /\ standing \in [Incidents -> Decisions \cup {None}]
    /\ approved_runs \in Nat
    /\ answered \subseteq Incidents /\ rolled_back \subseteq Incidents

\* What JobLaunch does keeps its types, and a call that returns a run needs one.
LEMMA JobTypes ==
    ASSUME JobTypeOK,
           \/ \E w \in Workers : Job!Call(w) \/ Job!Refuse(w) \/ Job!Attempt(w) \/ Job!Return(w)
           \/ Job!Launch \/ Job!ForeignLaunch \/ UNCHANGED jobs
    PROVE  JobTypeOK' /\ launched \subseteq launched'
<1> USE DEF JobTypeOK
<1>1. ASSUME NEW w \in Workers, Job!Call(w) \/ Job!Refuse(w)
      PROVE JobTypeOK' /\ launched \subseteq launched'
  BY <1>1, AgentAssumption DEF Job!Call, Job!Refuse
<1>2. ASSUME NEW w \in Workers, Job!Attempt(w) PROVE JobTypeOK' /\ launched \subseteq launched'
  BY <1>2, AgentAssumption DEF Job!Attempt
<1>3. ASSUME NEW w \in Workers, Job!Return(w) PROVE JobTypeOK' /\ launched \subseteq launched'
  BY <1>3, AgentAssumption DEF Job!Return
<1>4. CASE Job!Launch
  <2>1. PICK w \in Workers, k \in Nat : launched' = launched \cup {<<w, k>>}
    BY <1>4 DEF Job!Launch
  <2>2. <<w, k>> \in Workers \X Nat
    OBVIOUS
  <2> QED BY <1>4, <2>1, <2>2 DEF Job!Launch
<1>5. CASE Job!ForeignLaunch
  BY <1>5 DEF Job!ForeignLaunch
<1>6. CASE UNCHANGED jobs
  BY <1>6 DEF jobs
<1> QED BY <1>1, <1>2, <1>3, <1>4, <1>5, <1>6

\* Every step of the composition is one of JobLaunch, or leaves the job alone.
LEMMA JobSteps ==
    ASSUME [AgentNext]_agent_vars
    PROVE  \/ \E w \in Workers : Job!Call(w) \/ Job!Refuse(w) \/ Job!Attempt(w) \/ Job!Return(w)
           \/ Job!Launch \/ Job!ForeignLaunch \/ UNCHANGED jobs
<1>1. ASSUME NEW w \in Workers, BeginRun(w) \/ RunnerStep(w) \/ JobSimulated(w)
      PROVE UNCHANGED jobs
  BY <1>1 DEF BeginRun, RunnerStep, JobSimulated
<1>2. ASSUME NEW w \in Workers, CallJob(w) PROVE Job!Call(w) \/ Job!Refuse(w)
  BY <1>2 DEF CallJob
<1>3. ASSUME NEW w \in Workers, Request(w) PROVE Job!Attempt(w)
  BY <1>3 DEF Request
<1>4. ASSUME NEW w \in Workers, JobSubmitted(w) \/ JobRaises(w) \/ ProcessDies(w)
      PROVE Job!Return(w) \/ UNCHANGED jobs
  BY <1>4 DEF JobSubmitted, JobRaises, ProcessDies, Abandoned
<1>5. ASSUME ServiceStep PROVE Job!Launch \/ Job!ForeignLaunch
  BY <1>5 DEF ServiceStep
<1>6. ASSUME UNCHANGED agent_vars PROVE UNCHANGED jobs
  BY <1>6 DEF agent_vars
<1> QED BY <1>1, <1>2, <1>3, <1>4, <1>5, <1>6 DEF AgentNext, AgentStep

\* Who began, and what the operator said last.
LEMMA ApprovalSteps ==
    ASSUME [AgentNext]_agent_vars
    PROVE  (\E w \in Workers : BeginRun(w)) \/ UNCHANGED approvals
  BY DEF AgentNext, AgentStep, RunnerStep, CallJob, Request, JobSubmitted, JobSimulated, JobRaises,
         ProcessDies, ServiceStep, agent_vars, history

\* What beginning a run does, apart from the state it starts from.
LEMMA BeginStep ==
    ASSUME TypeOK, NEW w \in Workers, NEW d \in Decisions \cup {None}, Begin(w, d)
    PROVE  \E i \in Incidents, s \in GraphState :
               /\ \E obs, status : Start(w, i, s, obs, status)
               /\ incident'[w] = i
               /\ s.human_decision = IF d = None THEN Base(w, i).human_decision ELSE d
               /\ s.execution_result = Base(w, i).execution_result
<1>1. CASE Invoke(w, d)
  <2>1. PICK i \in Incidents, obs \in Observations :
           Start(w, i, Merged([Base(w, i) EXCEPT !.obs = Accepted(w, obs)], d, None), obs, "running")
    BY <1>1 DEF Invoke
  <2> DEFINE s == Merged([Base(w, i) EXCEPT !.obs = Accepted(w, obs)], d, None)
  <2>2. s \in GraphState /\ Base(w, i) \in GraphState
    BY BaseTypes, StartStates, RunnerAssumption
  <2>3. /\ s.human_decision = IF d = None THEN Base(w, i).human_decision ELSE d
        /\ s.execution_result = Base(w, i).execution_result
    BY <2>2 DEF Merged, GraphState
  <2>4. incident'[w] = i
    BY <2>1 DEF Start, TypeOK
  <2> QED BY <2>1, <2>2, <2>3, <2>4
<1>2. CASE Resume(w, d)
  <2>1. PICK i \in Incidents, p \in Plans \cup {None} :
           Start(w, i, Merged(Base(w, i), d, p), NoObservation, "resumed")
    BY <1>2 DEF Resume
  <2> DEFINE s == Merged(Base(w, i), d, p)
  <2>2. s \in GraphState /\ Base(w, i) \in GraphState
    BY BaseTypes, StartStates
  <2>3. /\ s.human_decision = IF d = None THEN Base(w, i).human_decision ELSE d
        /\ s.execution_result = Base(w, i).execution_result
    BY <2>2 DEF Merged, GraphState
  <2>4. incident'[w] = i
    BY <2>1 DEF Start, TypeOK
  <2> QED BY <2>1, <2>2, <2>3, <2>4
<1> QED BY <1>1, <1>2 DEF Begin

\* Every step keeps what the histories are made of.
LEMMA HistoryTypes ==
    ASSUME TypeOK, HistoryTypeOK, [AgentNext]_agent_vars PROVE HistoryTypeOK'
<1> DEFINE ApprovalsTyped == /\ standing \in [Incidents -> Decisions \cup {None}]
                            /\ approved_runs \in Nat
<1>1. ASSUME NEW w \in Workers, BeginRun(w) PROVE ApprovalsTyped'
  <2>1. PICK d \in Decisions \cup {None} :
          /\ Begin(w, d)
          /\ LET i == incident'[w]
                 word == IF d = None THEN standing[i] ELSE d
             IN /\ standing' = [standing EXCEPT ![i] = word]
                /\ approved_runs' = approved_runs + IF word = "approve" THEN 1 ELSE 0
    BY <1>1 DEF BeginRun
  <2>2. incident'[w] \in Incidents
    BY <2>1, BeginStep
  <2> QED BY <2>1, <2>2 DEF HistoryTypeOK
<1>2. ApprovalsTyped'
  BY <1>1, ApprovalSteps DEF HistoryTypeOK, approvals
<1>3. ASSUME NEW w \in Workers, pc[w] # "idle" PROVE incident[w] \in Incidents
  BY <1>3 DEF TypeOK
<1>4. answered' \subseteq Incidents /\ rolled_back' \subseteq Incidents
  <2>1. ASSUME NEW w \in Workers, RunnerStep(w)
        PROVE answered' = answered /\ rolled_back' \subseteq rolled_back \cup Incidents
    BY <1>3, <2>1 DEF RunnerStep, Results
  <2>2. ASSUME NEW w \in Workers, JobSubmitted(w)
        PROVE answered' \subseteq answered \cup Incidents /\ rolled_back' = rolled_back
    BY <1>3, <2>2 DEF JobSubmitted
  <2>3. ASSUME NEW w \in Workers, \/ BeginRun(w) \/ CallJob(w) \/ Request(w)
                                   \/ JobSimulated(w) \/ JobRaises(w) \/ ProcessDies(w)
        PROVE UNCHANGED writers
    BY <2>3 DEF BeginRun, CallJob, Request, JobSimulated, JobRaises, ProcessDies, history
  <2>4. CASE ServiceStep \/ UNCHANGED agent_vars
    BY <2>4 DEF ServiceStep, agent_vars, history, writers, HistoryTypeOK
  <2> QED BY <2>1, <2>2, <2>3, <2>4 DEF AgentNext, AgentStep, writers, HistoryTypeOK
<1> QED BY <1>2, <1>4 DEF HistoryTypeOK

\* The composition starts typed, and every step keeps it so.
LEMMA AgentTypeInit == AgentInit => AgentTypeOK
<1> SUFFICES ASSUME AgentInit PROVE AgentTypeOK
  OBVIOUS
<1>1. TypeOK
  BY TypeInit DEF AgentInit
<1>2. /\ phase = [c \in Workers |-> "resting"] /\ budget = [c \in Workers |-> 0]
      /\ attempts = [c \in Workers |-> 0] /\ launched = {}
      /\ result = [c \in Workers |-> None]
  BY DEF AgentInit, Job!Init
<1>3. HistoryTypeOK
  BY DEF AgentInit, HistoryTypeOK
<1> QED BY <1>1, <1>2, <1>3, AgentAssumption DEF AgentTypeOK, HistoryTypeOK

LEMMA AgentTypeNext == AgentTypeOK /\ [AgentNext]_agent_vars => AgentTypeOK'
<1> SUFFICES ASSUME AgentTypeOK, [AgentNext]_agent_vars PROVE AgentTypeOK'
  OBVIOUS
<1>1. TypeOK'
  BY RunnerSteps, TypeNext DEF AgentTypeOK
<1>2. JobTypeOK'
  BY JobSteps, JobTypes DEF AgentTypeOK, JobTypeOK
<1>3. HistoryTypeOK'
  BY HistoryTypes DEF AgentTypeOK, HistoryTypeOK
<1> QED BY <1>1, <1>2, <1>3 DEF AgentTypeOK, JobTypeOK, HistoryTypeOK

\* Type correctness of the composition.
THEOREM AgentTypeCorrect == AgentSpec => []AgentTypeOK
  BY AgentTypeInit, AgentTypeNext, PTL DEF AgentSpec

-----------------------------------------------------------------------------
(* What an execution_result says of the job. *)

\* The run says "submitted" of an incident that has a run of the job, or was rolled back.
RunClaims(w) ==
    pc[w] # "idle" /\ st[w].execution_result = "submitted"
        => incident[w] \in answered \cup rolled_back

\* So does a thread.
ThreadClaims ==
    \A i \in Incidents :
        checkpoint[i] # None /\ checkpoint[i].execution_result = "submitted"
            => i \in answered \cup rolled_back

\* A call belongs to the run that waits for it, which made no other.
Awaiting(w) ==
    /\ phase[w] = "calling" => pc[w] = "submitting"
    /\ pc[w] = "submitting" =>
         submitted[w] = 1 /\ (phase[w] = "resting" => result[w] = None)

\* A run that has passed execute does not come back to it.
Afterwards(w) ==
    "execute" \in visited[w] =>
        /\ pc[w] \in {"running", "ended"}
        /\ node[w] \in {"verify", "rollback", "postmortem"}
        /\ "rollback" \notin visited[w] => OwnResult(w)

ClaimOK(w) == RunClaims(w) /\ Awaiting(w) /\ Afterwards(w)

ClaimInv == AgentTypeOK /\ RunInv /\ ThreadClaims /\ \A w \in Workers : ClaimOK(w)

\* What was launched, answered or rolled back stays so.
WritersGrow == launched \subseteq launched' /\ answered \subseteq answered' /\ rolled_back \subseteq rolled_back'

LEMMA WritersSteps == ASSUME AgentTypeOK, [AgentNext]_agent_vars PROVE WritersGrow
<1>1. launched \subseteq launched'
  BY JobSteps, JobTypes DEF AgentTypeOK, JobTypeOK
<1>2. answered \subseteq answered' /\ rolled_back \subseteq rolled_back'
  BY DEF AgentNext, AgentStep, BeginRun, RunnerStep, CallJob, Request, JobSubmitted, JobSimulated,
         JobRaises, ProcessDies, ServiceStep, agent_vars, history, writers
<1> QED BY <1>1, <1>2 DEF WritersGrow

\* A run whose worker the step does not concern.
Aside(v) ==
    /\ pc'[v] = pc[v] /\ node'[v] = node[v] /\ st'[v] = st[v] /\ visited'[v] = visited[v]
    /\ submitted'[v] = submitted[v] /\ incident'[v] = incident[v]
    /\ phase'[v] = phase[v] /\ result'[v] = result[v]

LEMMA AsideClaims ==
    ASSUME ClaimInv, WritersGrow, NEW v \in Workers, Aside(v) PROVE ClaimOK(v)'
<1>1. ClaimOK(v)
  BY DEF ClaimInv
<1>2. RunClaims(v)' /\ Awaiting(v)'
  BY <1>1 DEF ClaimOK, RunClaims, Awaiting, WritersGrow, Aside
<1>3. OwnResult(v) => OwnResult(v)'
  BY DEF OwnResult, WritersGrow, Aside
<1>4. Afterwards(v)'
  BY <1>1, <1>3 DEF ClaimOK, Afterwards, Aside
<1> QED BY <1>2, <1>4 DEF ClaimOK

\* The job of the other workers is as it was.
JobOfOthers(w) == \A v \in Workers \ {w} : phase'[v] = phase[v] /\ result'[v] = result[v]

\* A worker that forgets its run says nothing.
LEMMA ForgetClaims ==
    ASSUME ClaimInv, WritersGrow, NEW w \in Workers, Forget(w), UNCHANGED checkpoint,
           phase'[w] = "resting", JobOfOthers(w)
    PROVE  (\A v \in Workers : ClaimOK(v)') /\ ThreadClaims'
<1>1. TypeOK
  BY DEF ClaimInv, AgentTypeOK
<1>2. ClaimOK(w)'
  BY <1>1 DEF Forget, TypeOK, ClaimOK, RunClaims, Awaiting, Afterwards
<1>3. ASSUME NEW v \in Workers, v # w PROVE ClaimOK(v)'
  <2>1. Aside(v)
    BY <1>1, <1>3 DEF Forget, TypeOK, Aside, JobOfOthers
  <2> QED BY <2>1, AsideClaims
<1>4. ThreadClaims'
  BY DEF ClaimInv, ThreadClaims, WritersGrow
<1> QED BY <1>2, <1>3, <1>4

\* A run begins with what its thread says.
LEMMA BeginClaims ==
    ASSUME ClaimInv, WritersGrow, NEW w \in Workers, BeginRun(w)
    PROVE  (\A v \in Workers : ClaimOK(v)') /\ ThreadClaims'
<1>1. TypeOK
  BY DEF ClaimInv, AgentTypeOK
<1>2. PICK d \in Decisions \cup {None} : Begin(w, d)
  BY DEF BeginRun
<1>3. PICK i \in Incidents, s \in GraphState :
         /\ \E obs, status : Start(w, i, s, obs, status)
         /\ incident'[w] = i
         /\ s.execution_result = Base(w, i).execution_result
  BY <1>1, <1>2, BeginStep
<1>4. /\ pc[w] = "idle" /\ pc'[w] = "running" /\ st'[w] = s /\ visited'[w] = visited[w]
      /\ Save(w, i, s)
  BY <1>1, <1>3 DEF Start, TypeOK
<1>5. /\ visited[w] = {} /\ phase[w] = "resting"
      /\ UNCHANGED <<phase, result, answered, rolled_back>>
  BY <1>1, <1>4 DEF ClaimInv, RunInv, RunOK, Position, ClaimOK, Awaiting, AgentTypeOK,
                    BeginRun, jobs, writers
<1>6. s.execution_result = "submitted" => i \in answered \cup rolled_back
  <2>1. EmptyState.execution_result # "submitted"
    BY RunnerAssumption DEF EmptyState
  <2> QED BY <1>3, <2>1 DEF Base, ClaimInv, ThreadClaims
<1>7. ClaimOK(w)'
  BY <1>3, <1>4, <1>5, <1>6 DEF ClaimOK, RunClaims, Awaiting, Afterwards
<1>8. ASSUME NEW v \in Workers, v # w PROVE ClaimOK(v)'
  <2>1. Aside(v)
    BY <1>1, <1>3, <1>5, <1>8 DEF Start, TypeOK, Aside
  <2> QED BY <2>1, AsideClaims
<1>9. ThreadClaims'
  <2>1. \A j \in Incidents : checkpoint'[j] = checkpoint[j] \/ (j = i /\ checkpoint'[j] = s)
    BY <1>1, <1>4 DEF Save, TypeOK
  <2> QED BY <1>5, <1>6, <2>1 DEF ThreadClaims, ClaimInv
<1> QED BY <1>7, <1>8, <1>9

\* What a node leaves, if the run is past execute, tells of its own call.
TellsOfCall(w, s) ==
    /\ s.execution_result = "submitted" => incident[w] \in answered' \cup rolled_back'
    /\ "execute" \in visited[w] \cup {node[w]} /\ "rollback" \notin visited[w] \cup {node[w]} =>
         \/ s.execution_result = "skipped" /\ submitted[w] = 0
         \/ s.execution_result = "dry_run" /\ submitted[w] = 1 /\ result'[w] = None
         \/ s.execution_result = "submitted" /\ submitted[w] = 1 /\ result'[w] \in launched'

LEMMA NodeClaims ==
    ASSUME ClaimInv, WritersGrow, NEW w \in Workers, pc[w] \in {"running", "submitting"},
           NEW results \in SUBSET GraphState, Advance(w, results) \/ Overrun(w, results),
           \A s \in results : TellsOfCall(w, s), phase'[w] = "resting", JobOfOthers(w)
    PROVE  (\A v \in Workers : ClaimOK(v)') /\ ThreadClaims'
<1>1. TypeOK /\ incident[w] \in Incidents
  BY DEF ClaimInv, AgentTypeOK, TypeOK
<1>2. PICK s \in results :
         /\ Save(w, incident[w], s)
         /\ \/ /\ st' = [st EXCEPT ![w] = s]
               /\ visited' = [visited EXCEPT ![w] = @ \cup {node[w]}]
               /\ IF NextNode(w, s) = "END"
                  THEN pc' = [pc EXCEPT ![w] = "ended"] /\ UNCHANGED node
                  ELSE /\ pc' = [pc EXCEPT ![w] = "running"]
                       /\ node' = [node EXCEPT ![w] = NextNode(w, s)]
               /\ UNCHANGED <<submitted, incident>>
            \/ Forget(w)
  BY DEF Advance, Overrun
<1>3. TellsOfCall(w, s) /\ s \in GraphState
  BY <1>2
<1>4. ASSUME NEW v \in Workers, v # w PROVE ClaimOK(v)'
  <2>1. Aside(v)
    BY <1>1, <1>2, <1>4 DEF Forget, TypeOK, Aside, JobOfOthers
  <2> QED BY <2>1, AsideClaims
<1>5. ThreadClaims'
  <2>1. \A j \in Incidents : checkpoint'[j] = checkpoint[j] \/ (j = incident[w] /\ checkpoint'[j] = s)
    BY <1>1, <1>2 DEF Save, TypeOK
  <2> QED BY <1>3, <2>1 DEF ThreadClaims, ClaimInv, TellsOfCall, WritersGrow
<1>6. CASE Forget(w)
  <2>1. ClaimOK(w)'
    BY <1>1, <1>6 DEF Forget, TypeOK, ClaimOK, RunClaims, Awaiting, Afterwards
  <2> QED BY <1>4, <1>5, <2>1
<1>7. CASE ~Forget(w)
  <2>1. /\ st'[w] = s /\ visited'[w] = visited[w] \cup {node[w]}
        /\ submitted'[w] = submitted[w] /\ incident'[w] = incident[w]
        /\ \/ Successor(node[w], s) = "END" /\ pc'[w] = "ended" /\ node'[w] = node[w]
           \/ /\ Successor(node[w], s) # "END"
              /\ pc'[w] = "running" /\ node'[w] = Successor(node[w], s)
    BY <1>1, <1>2, <1>7 DEF TypeOK, NextNode
  <2>2. RunClaims(w)' /\ Awaiting(w)'
    BY <1>3, <2>1 DEF RunClaims, Awaiting, TellsOfCall
  <2>3. ASSUME "execute" \in visited'[w] PROVE node'[w] \in {"verify", "rollback", "postmortem"}
    <3>1. node[w] \in {"execute", "verify", "rollback", "postmortem"}
      BY <2>1, <2>3 DEF ClaimInv, ClaimOK, Afterwards
    <3>2. /\ Successor("execute", s) = "verify"
          /\ Successor("verify", s) \in {"postmortem", "rollback", "END"}
          /\ Successor("rollback", s) = "END" /\ Successor("postmortem", s) = "END"
      BY <1>3, Edges
    <3> QED BY <2>1, <3>1, <3>2
  <2>4. ASSUME "execute" \in visited'[w], "rollback" \notin visited'[w] PROVE OwnResult(w)'
    BY <1>3, <2>1, <2>4 DEF TellsOfCall, OwnResult
  <2>5. Afterwards(w)'
    BY <2>1, <2>3, <2>4 DEF Afterwards
  <2> QED BY <1>4, <1>5, <2>2, <2>5 DEF ClaimOK
<1> QED BY <1>6, <1>7

\* A step of the graph or of the runner outside the call.
LEMMA RunnerClaims ==
    ASSUME ClaimInv, WritersGrow, NEW w \in Workers, RunnerStep(w)
    PROVE  (\A v \in Workers : ClaimOK(v)') /\ ThreadClaims'
<1>1. TypeOK /\ RunOK(w) /\ ClaimOK(w) /\ phase \in [Workers -> {"resting", "calling"}]
  BY DEF ClaimInv, AgentTypeOK, RunInv
<1>2. phase'[w] = "resting" /\ JobOfOthers(w) /\ result'[w] = result[w]
  BY <1>1 DEF RunnerStep, jobs, ClaimOK, Awaiting, JobOfOthers
<1>3. CASE NodeReturns(w) \/ StepLimit(w)
  <2>1. pc[w] = "running"
    BY <1>3 DEF RunnerStep, NodeReturns, StepLimit, Advance, Overrun, Results
  <2>2. ASSUME NEW s \in Results(w) PROVE s \in GraphState /\ TellsOfCall(w, s)
    <3>1. /\ s \in GraphState /\ node[w] \in Nodes /\ st[w] \in GraphState
          /\ ~Raises(node[w], st[w], stubs) /\ s \in Updates(node[w], st[w])
      BY <1>1, <2>1, ResultStates DEF TypeOK
    <3>2. CASE node[w] = "execute"
      <4>1. s.execution_result = "skipped" /\ submitted[w] = 0
        BY <1>1, <2>1, <3>1, <3>2, NodeStates DEF RunOK, Position
      <4> QED BY <3>1, <4>1 DEF TellsOfCall
    <3>3. CASE node[w] = "rollback"
      <4>1. incident[w] \in rolled_back'
        BY <2>2, <3>3 DEF RunnerStep
      <4> QED BY <3>1, <3>3, <4>1 DEF TellsOfCall
    <3>4. CASE node[w] \notin {"execute", "rollback"}
      <4>1. s.execution_result = st[w].execution_result
        BY <3>1, <3>4, NodeStates
      <4>2. s.execution_result = "submitted" => incident[w] \in answered' \cup rolled_back'
        BY <1>1, <2>1, <4>1 DEF ClaimOK, RunClaims, WritersGrow
      <4>3. "execute" \in visited[w] /\ "rollback" \notin visited[w] => OwnResult(w)
        BY <1>1 DEF ClaimOK, Afterwards
      <4> QED BY <1>2, <3>1, <3>4, <4>1, <4>2, <4>3 DEF TellsOfCall, OwnResult, WritersGrow
    <3> QED BY <3>2, <3>3, <3>4
  <2>3. Results(w) \in SUBSET GraphState
    BY <2>2
  <2> QED BY <1>2, <1>3, <2>1, <2>2, <2>3, NodeClaims DEF NodeReturns, StepLimit
<1>4. CASE NodeRaises(w) \/ Record(w)
  <2>1. Forget(w) /\ UNCHANGED checkpoint
    BY <1>4 DEF NodeRaises, Raise, Record, shared
  <2> QED BY <1>2, <2>1, ForgetClaims
<1> QED BY <1>3, <1>4 DEF RunnerStep

\* The run makes its call.
LEMMA CallClaims ==
    ASSUME ClaimInv, WritersGrow, NEW w \in Workers, CallJob(w)
    PROVE  (\A v \in Workers : ClaimOK(v)') /\ ThreadClaims'
<1>1. TypeOK /\ JobTypeOK /\ RunOK(w) /\ ClaimOK(w)
  BY DEF ClaimInv, AgentTypeOK, RunInv, JobTypeOK
<1>2. /\ pc[w] = "running" /\ node[w] = "execute" /\ pc'[w] = "submitting"
      /\ submitted'[w] = submitted[w] + 1
  BY <1>1 DEF CallJob, SubmitJob, Submits, TypeOK
<1>3. submitted[w] = 0 /\ "execute" \notin visited[w]
  BY <1>1, <1>2 DEF RunOK, Position, ClaimOK, Afterwards
<1>4. UNCHANGED <<incident, node, st, visited, checkpoint, answered, rolled_back>>
  BY DEF CallJob, SubmitJob, shared, history, writers
<1>5. result'[w] = None /\ JobOfOthers(w)
  BY <1>1 DEF CallJob, Job!Call, Job!Refuse, JobTypeOK, JobOfOthers
<1>6. ClaimOK(w)'
  BY <1>1, <1>2, <1>3, <1>4, <1>5 DEF ClaimOK, RunClaims, Awaiting, Afterwards
<1>7. ASSUME NEW v \in Workers, v # w PROVE ClaimOK(v)'
  <2>1. Aside(v)
    BY <1>1, <1>4, <1>5, <1>7 DEF CallJob, SubmitJob, TypeOK, Aside, JobOfOthers
  <2> QED BY <2>1, AsideClaims
<1>8. ThreadClaims'
  BY <1>4 DEF ThreadClaims, ClaimInv
<1> QED BY <1>6, <1>7, <1>8

\* execute records what its call returned.
LEMMA AnswerClaims ==
    ASSUME ClaimInv, WritersGrow, NEW w \in Workers, JobSubmitted(w) \/ JobSimulated(w)
    PROVE  (\A v \in Workers : ClaimOK(v)') /\ ThreadClaims'
<1>1. TypeOK /\ JobTypeOK /\ ClaimOK(w) /\ pc[w] = "submitting" /\ st[w] \in GraphState
  BY DEF ClaimInv, AgentTypeOK, JobTypeOK, TypeOK, JobSubmitted, JobSimulated
<1>2. phase'[w] = "resting" /\ JobOfOthers(w) /\ submitted[w] = 1
  BY <1>1 DEF JobSubmitted, JobSimulated, Job!Return, jobs, JobTypeOK, JobOfOthers, ClaimOK, Awaiting
<1>3. CASE JobSubmitted(w)
  <2> DEFINE s == Execute(st[w], "submitted")
  <2>1. s \in GraphState /\ s.execution_result = "submitted"
    BY <1>1, ExecuteState
  <2>2. result'[w] \in launched' /\ incident[w] \in answered'
    BY <1>1, <1>3 DEF JobSubmitted, Job!Return, JobTypeOK
  <2>3. TellsOfCall(w, s)
    BY <1>2, <2>1, <2>2 DEF TellsOfCall
  <2>4. {s} \in SUBSET GraphState /\ (Advance(w, {s}) \/ Overrun(w, {s}))
    BY <1>3, <2>1 DEF JobSubmitted
  <2> HIDE DEF s
  <2> QED BY <1>1, <1>2, <2>3, <2>4, NodeClaims
<1>4. CASE JobSimulated(w)
  <2> DEFINE s == Execute(st[w], "dry_run")
  <2>1. s \in GraphState /\ s.execution_result = "dry_run"
    BY <1>1, ExecuteState
  <2>2. result'[w] = None
    BY <1>1, <1>4 DEF JobSimulated, jobs, ClaimOK, Awaiting
  <2>3. TellsOfCall(w, s)
    BY <1>2, <2>1, <2>2 DEF TellsOfCall
  <2>4. {s} \in SUBSET GraphState /\ (Advance(w, {s}) \/ Overrun(w, {s}))
    BY <1>4, <2>1 DEF JobSimulated
  <2> HIDE DEF s
  <2> QED BY <1>1, <1>2, <2>3, <2>4, NodeClaims
<1> QED BY <1>3, <1>4

LEMMA ClaimInit == AgentInit => ClaimInv
<1> SUFFICES ASSUME AgentInit PROVE ClaimInv
  OBVIOUS
<1>1. AgentTypeOK /\ RunInv
  BY AgentTypeInit, RunInvInit DEF AgentInit
<1>2. ThreadClaims
  BY DEF AgentInit, Init, ThreadClaims
<1>3. ASSUME NEW w \in Workers PROVE ClaimOK(w)
  BY DEF AgentInit, Init, Job!Init, ClaimOK, RunClaims, Awaiting, Afterwards
<1> QED BY <1>1, <1>2, <1>3 DEF ClaimInv

LEMMA ClaimNext == ClaimInv /\ [AgentNext]_agent_vars => ClaimInv'
<1> SUFFICES ASSUME ClaimInv, [AgentNext]_agent_vars
             PROVE  (\A v \in Workers : ClaimOK(v)') /\ ThreadClaims'
  BY AgentTypeNext, RunnerSteps, RunInvNext DEF ClaimInv
<1>1. WritersGrow
  BY WritersSteps DEF ClaimInv
<1>2. JobTypeOK /\ TypeOK
  BY DEF ClaimInv, AgentTypeOK, JobTypeOK
<1> DEFINE Goal == (\A v \in Workers : ClaimOK(v)') /\ ThreadClaims'
<1>3. ASSUME NEW w \in Workers, BeginRun(w) PROVE Goal
  BY <1>1, <1>3, BeginClaims
<1>4. ASSUME NEW w \in Workers, RunnerStep(w) PROVE Goal
  BY <1>1, <1>4, RunnerClaims
<1>5. ASSUME NEW w \in Workers, CallJob(w) PROVE Goal
  BY <1>1, <1>5, CallClaims
<1>6. ASSUME NEW w \in Workers, JobSubmitted(w) \/ JobSimulated(w) PROVE Goal
  BY <1>1, <1>6, AnswerClaims
<1>7. ASSUME NEW w \in Workers, JobRaises(w) \/ ProcessDies(w) PROVE Goal
  <2>1. Forget(w) /\ UNCHANGED checkpoint
    BY <1>7 DEF JobRaises, ProcessDies, SubmitRaises, Crash, Raise, shared
  <2>2. phase'[w] = "resting" /\ JobOfOthers(w)
    BY <1>2, <1>7 DEF JobRaises, ProcessDies, Abandoned, Job!Return, jobs, JobTypeOK, JobOfOthers
  <2> QED BY <1>1, <2>1, <2>2, ForgetClaims
<1>8. ASSUME \/ \E w \in Workers : Request(w)
             \/ ServiceStep \/ UNCHANGED agent_vars
      PROVE Goal
  <2>1. UNCHANGED <<vars, history, phase, result>>
    BY <1>8 DEF Request, ServiceStep, Job!Attempt, Job!Launch, Job!ForeignLaunch, agent_vars, jobs
  <2>2. \A v \in Workers : Aside(v)
    BY <2>1 DEF vars, local, Aside
  <2>3. ThreadClaims'
    BY <2>1 DEF vars, shared, history, writers, ThreadClaims, ClaimInv
  <2> QED BY <1>1, <2>2, <2>3, AsideClaims
<1> HIDE DEF Goal
<1>9. Goal
  BY <1>3, <1>4, <1>5, <1>6, <1>7, <1>8 DEF AgentNext, AgentStep
<1> QED BY <1>9 DEF Goal

\* Whatever crashes, however many processes share a thread, and whatever a thread says when
\* a run starts from it: past execute, a run says of the job what its own call came to, and
\* no thread says "submitted" of an incident none of whose calls returned a run, unless a
\* rollback wrote it.
THEOREM ResultsTell == AgentSpec => []ResultsTellOfCalls
<1>1. ClaimInv => ResultsTellOfCalls
  BY DEF ClaimInv, ClaimOK, Afterwards, ThreadClaims, ResultsTellOfCalls
<1> QED BY <1>1, ClaimInit, ClaimNext, PTL DEF AgentSpec

-----------------------------------------------------------------------------
(* What an approval pays for, while one process works on the incidents. *)

\* A call is only in progress while the run waits for it, which it does after it asked.
Calling(w) == /\ phase[w] = "calling" => pc[w] = "submitting"
              /\ pc[w] = "submitting" => submitted[w] > 0

\* A run that holds an approval is for an incident whose operator said so last.
Stands(w) == pc[w] # "idle" /\ st[w].human_decision = "approve" => standing[incident[w]] = "approve"

\* So does a thread; without LangGraph there are none.
Threads ==
    \A i \in Incidents : checkpoint[i] # None =>
        /\ AllLangGraph
        /\ checkpoint[i].human_decision = "approve" => standing[i] = "approve"

\* What the run may still ask for.
Owed(w) == IF pc[w] = "running" /\ submitted[w] = 0 /\ st[w].human_decision = "approve"
           THEN Limit ELSE 0

Paid(w) == attempts[w] + budget[w] + Owed(w) <= Limit * approved_runs

ApprovalOK(w) == Calling(w) /\ Stands(w) /\ Paid(w)

ApprovalInv == AgentTypeOK /\ RunInv /\ Threads /\ \A w \in Workers : ApprovalOK(w)

\* A run begins with what its thread holds, or with what the operator says now.
LEMMA BeginApproval ==
    ASSUME Alone, ApprovalInv, NEW w \in Workers, BeginRun(w)
    PROVE  ApprovalOK(w)' /\ Threads'
<1>1. TypeOK /\ HistoryTypeOK /\ JobTypeOK
  BY DEF ApprovalInv, AgentTypeOK, HistoryTypeOK, JobTypeOK
<1>2. PICK d \in Decisions \cup {None} :
        /\ Begin(w, d)
        /\ LET i == incident'[w]
               word == IF d = None THEN standing[i] ELSE d
           IN /\ standing' = [standing EXCEPT ![i] = word]
              /\ approved_runs' = approved_runs + IF word = "approve" THEN 1 ELSE 0
  BY DEF BeginRun
<1>3. PICK i \in Incidents, s \in GraphState :
         /\ \E obs, status : Start(w, i, s, obs, status)
         /\ incident'[w] = i
         /\ s.human_decision = IF d = None THEN Base(w, i).human_decision ELSE d
  BY <1>1, <1>2, BeginStep
<1> DEFINE word == IF d = None THEN standing[i] ELSE d
<1>4. /\ standing' = [standing EXCEPT ![i] = word]
      /\ approved_runs' = approved_runs + IF word = "approve" THEN 1 ELSE 0
  BY <1>2, <1>3
<1>5. /\ pc[w] = "idle" /\ pc'[w] = "running" /\ st'[w] = s /\ submitted'[w] = submitted[w]
      /\ Save(w, i, s) /\ UNCHANGED <<backend, submitted>>
  BY <1>1, <1>3 DEF Start, TypeOK, fixed
<1>6. UNCHANGED <<phase, budget, attempts>>
  BY DEF BeginRun, jobs
<1>7. s.human_decision = "approve" => word = "approve"
  <2>1. EmptyState.human_decision # "approve"
    BY RunnerAssumption DEF EmptyState, Decisions
  <2> QED BY <1>3, <2>1 DEF Base, ApprovalInv, Threads
<1>8. standing'[i] = word
  BY <1>1, <1>4 DEF HistoryTypeOK
<1>9. Calling(w)' /\ Stands(w)'
  BY <1>3, <1>5, <1>6, <1>7, <1>8 DEF ApprovalInv, ApprovalOK, Calling, Stands
<1>10. Paid(w)'
  <2>1. Owed(w) = 0 /\ Owed(w)' \in {0, Limit} /\ (Owed(w)' # 0 => word = "approve")
    BY <1>5, <1>7 DEF Owed
  <2>2. attempts[w] \in Nat /\ budget[w] \in Nat /\ Limit \in Nat /\ approved_runs \in Nat
    BY <1>1, AgentAssumption DEF JobTypeOK, HistoryTypeOK
  <2>3. attempts[w] + budget[w] <= Limit * approved_runs
    BY <2>1, <2>2 DEF ApprovalInv, ApprovalOK, Paid
  <2>4. Limit * (approved_runs + 1) = Limit * approved_runs + Limit /\ Limit * approved_runs \in Nat
    BY <2>2
  <2>5. CASE word = "approve"
    BY <1>4, <1>6, <2>1, <2>2, <2>3, <2>4, <2>5 DEF Paid
  <2>6. CASE word # "approve"
    <3>1. approved_runs' = approved_runs /\ Owed(w)' = 0
      BY <1>4, <2>1, <2>2, <2>6
    <3> QED BY <1>6, <2>2, <2>3, <3>1 DEF Paid
  <2> QED BY <2>5, <2>6
<1>11. Threads'
  <2> SUFFICES ASSUME NEW j \in Incidents, checkpoint'[j] # None
               PROVE  /\ AllLangGraph'
                      /\ checkpoint'[j].human_decision = "approve" => standing'[j] = "approve"
    BY DEF Threads
  <2>1. AllLangGraph
    BY <1>5 DEF Alone, AllLangGraph, Save, ApprovalInv, Threads
  <2>2. checkpoint' = [checkpoint EXCEPT ![i] = s]
    BY <1>5, <2>1 DEF Save, AllLangGraph
  <2>3. CASE j = i
    BY <1>1, <1>5, <1>7, <1>8, <2>1, <2>2, <2>3 DEF AllLangGraph, TypeOK
  <2>4. CASE j # i
    BY <1>1, <1>4, <1>5, <2>1, <2>2, <2>4 DEF AllLangGraph, TypeOK, HistoryTypeOK, ApprovalInv, Threads
  <2> QED BY <2>3, <2>4
<1> QED BY <1>9, <1>10, <1>11 DEF ApprovalOK

\* A node keeps the decision, and asks for nothing.
LEMMA NodeApproval ==
    ASSUME Alone, ApprovalInv, NEW w \in Workers, pc[w] \in {"running", "submitting"},
           NEW results \in SUBSET GraphState,
           \A s \in results : s.human_decision = st[w].human_decision,
           Advance(w, results) \/ Overrun(w, results),
           phase'[w] = "resting", budget'[w] \in 0 .. budget[w], UNCHANGED <<attempts, approvals>>
    PROVE  ApprovalOK(w)' /\ Threads'
<1>1. TypeOK /\ HistoryTypeOK /\ JobTypeOK
  BY DEF ApprovalInv, AgentTypeOK, HistoryTypeOK, JobTypeOK
<1>2. PICK s \in results :
         /\ Save(w, incident[w], s)
         /\ \/ /\ st' = [st EXCEPT ![w] = s] /\ pc'[w] \in {"running", "ended"}
               /\ UNCHANGED <<incident, submitted>>
            \/ pc'[w] = "idle"
  BY <1>1 DEF Advance, Overrun, Forget, TypeOK
<1>3. UNCHANGED <<backend, standing, approved_runs>> /\ incident[w] \in Incidents
  BY <1>1 DEF Advance, Overrun, fixed, approvals, TypeOK
<1>4. Calling(w)' /\ Stands(w)'
  BY <1>1, <1>2, <1>3 DEF Calling, Stands, ApprovalInv, ApprovalOK, TypeOK
<1>5. Owed(w)' <= Owed(w) /\ Owed(w)' \in {0, Limit} /\ Owed(w) \in {0, Limit}
  <2>1. pc[w] = "submitting" => submitted[w] # 0
    BY <1>1 DEF ApprovalInv, ApprovalOK, Calling, TypeOK
  <2>2. CASE pc'[w] = "running"
    <3>1. /\ st'[w] = s /\ st'[w].human_decision = st[w].human_decision
          /\ submitted'[w] = submitted[w] /\ pc[w] \in {"running", "submitting"}
      BY <1>1, <1>2, <2>2 DEF TypeOK
    <3> QED BY <2>1, <2>2, <3>1, AgentAssumption DEF Owed
  <2>3. CASE pc'[w] # "running"
    BY <2>3, AgentAssumption DEF Owed
  <2> QED BY <2>2, <2>3
<1>6. Paid(w)'
  <2>1. attempts[w] \in Nat /\ budget[w] \in Nat /\ Limit \in Nat /\ approved_runs \in Nat
    BY <1>1, AgentAssumption DEF JobTypeOK, HistoryTypeOK
  <2>2. Limit * approved_runs \in Nat
    BY <2>1
  <2> QED BY <1>3, <1>5, <2>1, <2>2 DEF Paid, ApprovalInv, ApprovalOK
<1>7. Threads'
  BY <1>1, <1>2, <1>3 DEF Alone, Threads, Save, AllLangGraph, ApprovalInv, ApprovalOK, Stands, TypeOK
<1> QED BY <1>4, <1>6, <1>7 DEF ApprovalOK

\* A worker that forgets its run has nothing left to ask for.
LEMMA ForgetApproval ==
    ASSUME Alone, ApprovalInv, NEW w \in Workers, Forget(w), UNCHANGED <<backend, checkpoint>>,
           phase'[w] = "resting", budget'[w] \in 0 .. budget[w], UNCHANGED <<attempts, approvals>>
    PROVE  ApprovalOK(w)' /\ Threads'
<1>1. TypeOK /\ HistoryTypeOK /\ JobTypeOK
  BY DEF ApprovalInv, AgentTypeOK, HistoryTypeOK, JobTypeOK
<1>2. pc'[w] = "idle" /\ UNCHANGED <<standing, approved_runs>>
  BY <1>1 DEF Forget, TypeOK, approvals
<1>3. Calling(w)' /\ Stands(w)'
  BY <1>2 DEF Calling, Stands
<1>4. Paid(w)'
  <2>1. Owed(w)' = 0 /\ Owed(w) \in {0, Limit}
    BY <1>2 DEF Owed
  <2>2. attempts[w] \in Nat /\ budget[w] \in Nat /\ Limit \in Nat /\ approved_runs \in Nat
    BY <1>1, AgentAssumption DEF JobTypeOK, HistoryTypeOK
  <2>3. Limit * approved_runs \in Nat
    BY <2>2
  <2> QED BY <1>2, <2>1, <2>2, <2>3 DEF Paid, ApprovalInv, ApprovalOK
<1>5. Threads'
  BY <1>2 DEF Threads, AllLangGraph, ApprovalInv
<1> QED BY <1>3, <1>4, <1>5 DEF ApprovalOK

\* The run asks for its job: what it was owed is now the call's budget.
LEMMA CallApproval ==
    ASSUME Alone, ApprovalInv, NEW w \in Workers, CallJob(w)
    PROVE  ApprovalOK(w)' /\ Threads'
<1>1. TypeOK /\ HistoryTypeOK /\ JobTypeOK
  BY DEF ApprovalInv, AgentTypeOK, HistoryTypeOK, JobTypeOK
<1>2. /\ pc[w] = "running" /\ node[w] = "execute" /\ st[w].human_decision = "approve"
      /\ pc'[w] = "submitting" /\ submitted'[w] = submitted[w] + 1 /\ submitted[w] \in Nat
  BY <1>1 DEF CallJob, SubmitJob, Submits, ExecuteSubmits, ExecuteRaises, TypeOK
<1>3. UNCHANGED <<backend, incident, st, checkpoint, standing, approved_runs>>
  BY DEF CallJob, SubmitJob, fixed, shared, history, approvals
<1>4. submitted[w] = 0
  BY <1>2 DEF ApprovalInv, RunInv, RunOK, Position
<1>5. /\ attempts' = attempts
      /\ budget'[w] \in {Limit, budget[w]} /\ (phase[w] = "resting" /\ phase'[w] \in {"calling", "resting"})
  BY <1>1 DEF CallJob, Job!Call, Job!Refuse, JobTypeOK
<1>6. Calling(w)'
  BY <1>2, <1>4 DEF Calling
<1>7. Stands(w)' /\ Threads'
  BY <1>2, <1>3 DEF ApprovalInv, ApprovalOK, Stands, Threads, AllLangGraph
<1>8. Paid(w)'
  <2>1. Owed(w) = Limit /\ Owed(w)' = 0
    BY <1>2, <1>4 DEF Owed
  <2>2. attempts[w] \in Nat /\ budget[w] \in Nat /\ Limit \in Nat /\ approved_runs \in Nat
    BY <1>1, AgentAssumption DEF JobTypeOK, HistoryTypeOK
  <2>3. Limit * approved_runs \in Nat
    BY <2>2
  <2> QED BY <1>3, <1>5, <2>1, <2>2, <2>3 DEF Paid, ApprovalInv, ApprovalOK
<1> QED BY <1>6, <1>7, <1>8 DEF ApprovalOK

\* A step that leaves the runs and the approvals as they are, and sends no more than the budget.
LEMMA JobApproval ==
    ASSUME ApprovalInv, NEW w \in Workers, UNCHANGED <<vars, approvals, phase>>,
           \/ UNCHANGED <<budget, attempts>>
           \/ /\ budget[w] > 0
              /\ budget'[w] = budget[w] - 1 /\ attempts'[w] = attempts[w] + 1
    PROVE  ApprovalOK(w)' /\ Threads'
<1>1. UNCHANGED <<backend, pc, incident, st, submitted, checkpoint, standing, approved_runs>>
  BY DEF vars, fixed, local, shared, approvals
<1>2. Calling(w)' /\ Stands(w)' /\ Threads'
  BY <1>1 DEF ApprovalInv, ApprovalOK, Calling, Stands, Threads, AllLangGraph
<1>3. Paid(w)'
  <2>1. Owed(w)' = Owed(w) /\ Owed(w) \in {0, Limit}
    BY <1>1 DEF Owed
  <2>2. attempts[w] \in Nat /\ budget[w] \in Nat /\ Limit \in Nat /\ approved_runs \in Nat
    BY AgentAssumption DEF ApprovalInv, AgentTypeOK
  <2>3. Limit * approved_runs \in Nat
    BY <2>2
  <2> QED BY <1>1, <2>1, <2>2, <2>3 DEF Paid, ApprovalInv, ApprovalOK
<1> QED BY <1>2, <1>3 DEF ApprovalOK

LEMMA ApprovalInit == AgentInit => ApprovalInv
<1> SUFFICES ASSUME AgentInit PROVE ApprovalInv
  OBVIOUS
<1>1. AgentTypeOK /\ RunInv
  BY AgentTypeInit, RunInvInit DEF AgentInit
<1>2. Threads
  BY DEF AgentInit, Init, Threads
<1>3. ASSUME NEW w \in Workers PROVE ApprovalOK(w)
  <2>1. /\ pc[w] = "idle" /\ phase[w] = "resting" /\ attempts[w] = 0 /\ budget[w] = 0
        /\ approved_runs = 0
    BY DEF AgentInit, Init, Job!Init
  <2>2. Limit * 0 = 0
    BY AgentAssumption
  <2> QED BY <2>1, <2>2 DEF ApprovalOK, Calling, Stands, Paid, Owed
<1> QED BY <1>1, <1>2, <1>3 DEF ApprovalInv

LEMMA ApprovalNext ==
    ASSUME Alone, ApprovalInv, [AgentNext]_agent_vars PROVE ApprovalInv'
<1>1. AgentTypeOK' /\ RunInv'
  BY AgentTypeNext, RunnerSteps, RunInvNext DEF ApprovalInv
<1>2. TypeOK /\ JobTypeOK
  BY DEF ApprovalInv, AgentTypeOK, JobTypeOK
<1>3. ASSUME NEW w \in Workers, BeginRun(w) PROVE ApprovalOK(w)' /\ Threads'
  BY <1>3, BeginApproval
<1>4. ASSUME NEW w \in Workers, RunnerStep(w) PROVE ApprovalOK(w)' /\ Threads'
  <2>1. phase'[w] = "resting" /\ budget'[w] \in 0 .. budget[w] /\ UNCHANGED <<attempts, approvals>>
    BY <1>2, <1>4 DEF RunnerStep, jobs, JobTypeOK, ApprovalInv, ApprovalOK, Calling
  <2>2. CASE NodeReturns(w) \/ StepLimit(w)
    <3>1. \A s \in Results(w) : s \in GraphState /\ s.human_decision = st[w].human_decision
      BY <1>2, ResultStates
    <3>2. pc[w] \in {"running", "submitting"}
      BY <2>2 DEF NodeReturns, StepLimit, Advance, Overrun, Results
    <3>3. Results(w) \in SUBSET GraphState
      BY <3>1
    <3> QED BY <2>1, <2>2, <3>1, <3>2, <3>3, NodeApproval DEF NodeReturns, StepLimit
  <2>3. CASE NodeRaises(w) \/ Record(w)
    <3>1. Forget(w) /\ UNCHANGED <<backend, checkpoint>>
      BY <2>3 DEF NodeRaises, Raise, Record, shared, fixed
    <3> QED BY <2>1, <3>1, ForgetApproval
  <2> QED BY <1>4, <2>2, <2>3 DEF RunnerStep
<1>5. ASSUME NEW w \in Workers, CallJob(w) PROVE ApprovalOK(w)' /\ Threads'
  BY <1>5, CallApproval
<1>6. ASSUME NEW w \in Workers, Request(w) PROVE ApprovalOK(w)' /\ Threads'
  <2>1. /\ budget[w] > 0 /\ budget'[w] = budget[w] - 1 /\ attempts'[w] = attempts[w] + 1
        /\ UNCHANGED <<vars, approvals, phase>>
    BY <1>2, <1>6 DEF Request, Job!Attempt, JobTypeOK, history
  <2> QED BY <2>1, JobApproval
<1>7. ASSUME NEW w \in Workers, JobSubmitted(w) \/ JobSimulated(w)
      PROVE ApprovalOK(w)' /\ Threads'
  <2>1. PICK r \in {"submitted", "dry_run"} :
           Advance(w, {Execute(st[w], r)}) \/ Overrun(w, {Execute(st[w], r)})
    BY <1>7 DEF JobSubmitted, JobSimulated
  <2>2. /\ pc[w] = "submitting" /\ phase'[w] = "resting" /\ budget'[w] \in 0 .. budget[w]
        /\ UNCHANGED <<attempts, approvals>>
    BY <1>2, <1>7 DEF JobSubmitted, JobSimulated, Job!Return, jobs, JobTypeOK, history
  <2>3. Execute(st[w], r) \in GraphState /\ Execute(st[w], r).human_decision = st[w].human_decision
    BY <1>2, ExecuteState DEF TypeOK
  <2>4. {Execute(st[w], r)} \in SUBSET GraphState
    BY <2>3
  <2> QED BY <2>1, <2>2, <2>3, <2>4, NodeApproval
<1>8. ASSUME NEW w \in Workers, JobRaises(w) \/ ProcessDies(w) PROVE ApprovalOK(w)' /\ Threads'
  <2>1. Forget(w) /\ UNCHANGED <<backend, checkpoint>>
    BY <1>8 DEF JobRaises, ProcessDies, SubmitRaises, Crash, Raise, shared, fixed
  <2>2. /\ phase'[w] = "resting" /\ budget'[w] \in 0 .. budget[w]
        /\ UNCHANGED <<attempts, approvals>>
    BY <1>2, <1>8 DEF JobRaises, ProcessDies, Abandoned, Job!Return, jobs, JobTypeOK, history
  <2> QED BY <2>1, <2>2, ForgetApproval
<1>9. ASSUME ServiceStep \/ UNCHANGED agent_vars PROVE (\A w \in Workers : ApprovalOK(w)') /\ Threads'
  <2>1. UNCHANGED <<vars, approvals, phase>> /\ UNCHANGED <<budget, attempts>>
    BY <1>9 DEF ServiceStep, Job!Launch, Job!ForeignLaunch, agent_vars, jobs, history
  <2>2. Threads'
    BY <2>1 DEF vars, fixed, shared, approvals, ApprovalInv, Threads, AllLangGraph
  <2> QED BY <2>1, <2>2, JobApproval
<1>10. ASSUME NEW w \in Workers, ApprovalOK(w)' /\ Threads' PROVE ApprovalInv'
  BY <1>1, <1>10 DEF ApprovalInv, Alone
<1>11. CASE \E w \in Workers : BeginRun(w) \/ AgentStep(w) \/ ProcessDies(w)
  BY <1>3, <1>4, <1>5, <1>6, <1>7, <1>8, <1>10, <1>11 DEF AgentStep
<1>12. CASE ServiceStep \/ UNCHANGED agent_vars
  BY <1>1, <1>9, <1>12 DEF ApprovalInv
<1> QED BY <1>11, <1>12 DEF AgentNext

\* With one process, however many requests its calls may send: what it ever asks for is
\* paid for by the runs that started approved.
THEOREM ApprovalsPay == ASSUME Alone PROVE AgentSpec => []JobsPaidByApprovals
<1>1. ApprovalInv => JobsPaidByApprovals
  <2> SUFFICES ASSUME ApprovalInv, NEW w \in Workers
               PROVE  attempts[w] + budget[w] <= Limit * approved_runs
    BY DEF JobsPaidByApprovals
  <2>1. attempts[w] \in Nat /\ budget[w] \in Nat /\ Limit \in Nat /\ approved_runs \in Nat
    BY AgentAssumption DEF ApprovalInv, AgentTypeOK
  <2>2. Owed(w) \in {0, Limit} /\ Limit * approved_runs \in Nat
    BY <2>1 DEF Owed
  <2> QED BY <2>1, <2>2 DEF ApprovalInv, ApprovalOK, Paid
<1>2. ApprovalInv /\ [AgentNext]_agent_vars => ApprovalInv'
  BY ApprovalNext
<1> QED BY <1>1, <1>2, ApprovalInit, PTL DEF AgentSpec

\* With one process, a request is never sent for an incident whose operator withdrew the
\* approval, whatever a thread still holds from before a crash.
THEOREM RequestsStand == ASSUME Alone PROVE AgentSpec => OnlyStandingApprovalsSubmit
<1> DEFINE Standing == \A w \in Workers : attempts'[w] # attempts[w] => standing[incident[w]] = "approve"
<1>1. ApprovalInv /\ [AgentNext]_agent_vars => [Standing]_agent_vars
  <2> SUFFICES ASSUME ApprovalInv, AgentNext, NEW w \in Workers, attempts'[w] # attempts[w]
               PROVE  standing[incident[w]] = "approve"
    BY DEF Standing
  <2>1. PICK v \in Workers : Request(v)
    BY DEF AgentNext, AgentStep, BeginRun, RunnerStep, CallJob, JobSubmitted, JobSimulated,
           JobRaises, ProcessDies, Abandoned, ServiceStep, jobs,
           Job!Call, Job!Refuse, Job!Return, Job!Launch, Job!ForeignLaunch
  <2>2. phase[v] = "calling" /\ attempts' = [attempts EXCEPT ![v] = @ + 1]
    BY <2>1 DEF Request, Job!Attempt
  <2>3. v = w
    BY <2>2 DEF ApprovalInv, AgentTypeOK
  <2>4. pc[w] = "submitting" /\ submitted[w] > 0
    BY <2>2, <2>3 DEF ApprovalInv, ApprovalOK, Calling
  <2>5. st[w].human_decision = "approve"
    BY <2>4 DEF ApprovalInv, RunInv, RunOK, Approved
  <2> QED BY <2>4, <2>5 DEF ApprovalInv, ApprovalOK, Stands
<1>2. ApprovalInv /\ [AgentNext]_agent_vars => ApprovalInv'
  BY ApprovalNext
<1> QED BY <1>1, <1>2, ApprovalInit, PTL DEF AgentSpec, OnlyStandingApprovalsSubmit, Standing
=============================================================================
