-------------------------------- MODULE Agent --------------------------------
(***************************************************************************)
(* The agent as it is deployed: AgentRunner whose execute node really      *)
(* calls run_databricks_job.  The call is known by what it promises,       *)
(* JobLaunch, which JobSubmission implements; a run of the job may start   *)
(* long after the graph run that asked for it ended, raised or crashed.    *)
(***************************************************************************)
EXTENDS AgentRunner

CONSTANTS ForeignRuns,  \* runs of the same job started by somebody else
          Limit         \* requests one call may send

ASSUME AgentAssumption == Limit \in Nat

VARIABLES phase, budget, attempts, launched, result,  \* those of JobLaunch
          standing,       \* history: [Incidents -> Decisions or None], the operator's last word
          approved_runs,  \* history: graph runs started while that word was "approve"
          answered,       \* history: incidents one of whose calls returned a run
          rolled_back     \* history: incidents on which a rollback wrote what it liked

jobs == <<phase, budget, attempts, launched, result>>
approvals == <<standing, approved_runs>>
writers == <<answered, rolled_back>>
history == <<approvals, writers>>
agent_vars == <<vars, jobs, history>>

Job == INSTANCE JobLaunch WITH Callers <- Workers, runs <- launched

AgentInit == /\ Init
             /\ Job!Init
             /\ standing = [i \in Incidents |-> None]
             /\ approved_runs = 0
             /\ answered = {} /\ rolled_back = {}

\* A run starts, from a payload that may say what the operator decided.
BeginRun(w) ==
    \E d \in Decisions \cup {None} :
        /\ Begin(w, d)
        /\ LET i == incident'[w]
               word == IF d = None THEN standing[i] ELSE d
           IN /\ standing' = [standing EXCEPT ![i] = word]
              /\ approved_runs' = approved_runs + IF word = "approve" THEN 1 ELSE 0
        /\ UNCHANGED <<jobs, writers>>

\* A step of the graph or of the runner outside run_databricks_job.
RunnerStep(w) ==
    /\ pc[w] # "submitting"
    /\ NodeReturns(w) \/ NodeRaises(w) \/ StepLimit(w) \/ Record(w)
    /\ rolled_back' = IF node[w] = "rollback" /\ Results(w) # {}
                      THEN rolled_back \cup {incident[w]} ELSE rolled_back
    /\ UNCHANGED <<jobs, approvals, answered>>

\* execute calls run_databricks_job, which goes to the service, or refuses or
\* simulates the run.
CallJob(w) ==
    /\ SubmitJob(w)
    /\ Job!Call(w) \/ Job!Refuse(w)
    /\ UNCHANGED history

Request(w) == Job!Attempt(w) /\ UNCHANGED <<vars, history>>

\* Variant: "submitted" is reported whatever the call returned.
SubmittedAnyway(w) ==
    /\ pc[w] = "submitting" /\ phase[w] = "calling"
    /\ Job!Return(w)
    /\ Advance(w, {Execute(st[w], "submitted")}) \/ Overrun(w, {Execute(st[w], "submitted")})
    /\ answered' = answered \cup {i \in {incident[w]} : result'[w] # None}
    /\ UNCHANGED <<approvals, rolled_back>>

\* The call returns a run, and execute records what it returned.
JobSubmitted(w) ==
    /\ pc[w] = "submitting" /\ phase[w] = "calling"
    /\ Job!Return(w) /\ result'[w] # None
    /\ Advance(w, {Execute(st[w], "submitted")}) \/ Overrun(w, {Execute(st[w], "submitted")})
    /\ answered' = answered \cup {incident[w]}
    /\ UNCHANGED <<approvals, rolled_back>>

JobSimulated(w) ==
    /\ pc[w] = "submitting" /\ phase[w] = "resting"
    /\ Advance(w, {Execute(st[w], "dry_run")}) \/ Overrun(w, {Execute(st[w], "dry_run")})
    /\ UNCHANGED <<jobs, history>>

\* A call in progress ends with the run that made it, its requests stay on the way.
Abandoned(w) ==
    IF phase[w] = "calling" THEN Job!Return(w) /\ result'[w] = None ELSE UNCHANGED jobs

JobRaises(w) == SubmitRaises(w) /\ Abandoned(w) /\ UNCHANGED history
ProcessDies(w) == Crash(w) /\ Abandoned(w) /\ UNCHANGED history

\* The service: a request takes effect, or somebody else starts a run.
ServiceStep == (Job!Launch \/ Job!ForeignLaunch) /\ UNCHANGED <<vars, history>>

AgentStep(w) == \/ RunnerStep(w)
                \/ CallJob(w) \/ Request(w)
                \/ JobSubmitted(w) \/ JobSimulated(w) \/ JobRaises(w)

AgentNext == \/ \E w \in Workers : BeginRun(w) \/ AgentStep(w) \/ ProcessDies(w)
             \/ ServiceStep

AgentSpec == AgentInit /\ [][AgentNext]_agent_vars

\* A process that has not died goes on with its run and with its call.
FairAgentSpec == AgentSpec /\ \A w \in Workers : WF_agent_vars(AgentStep(w))

-----------------------------------------------------------------------------
AgentTypeOK ==
    /\ TypeOK
    /\ phase \in [Workers -> {"resting", "calling"}]
    /\ budget \in [Workers -> 0 .. Limit]
    /\ attempts \in [Workers -> Nat]
    /\ launched \subseteq (Workers \X Nat) \cup ForeignRuns
    /\ result \in [Workers -> launched \cup {None}]
    /\ standing \in [Incidents -> Decisions \cup {None}]
    /\ approved_runs \in Nat
    /\ answered \subseteq Incidents /\ rolled_back \subseteq Incidents

(***************************************************************************)
(* A request is only sent for an incident whose operator's last word is    *)
(* "approve": an approval that a checkpoint still holds is used again by   *)
(* later runs, but never after it was withdrawn, whatever crashed or was   *)
(* resumed in between.  It holds while one process works on an incident.   *)
(***************************************************************************)
OnlyStandingApprovalsSubmit ==
    [][\A w \in Workers : attempts'[w] # attempts[w] => standing[incident[w]] = "approve"]_agent_vars

(***************************************************************************)
(* Every run of the job the agent ever causes is paid for by a graph run   *)
(* that started approved, at most Limit of them by each: loops of the      *)
(* graph, retries and crashes never add up to more.                        *)
(***************************************************************************)
JobsPaidByApprovals ==
    \A w \in Workers : attempts[w] + budget[w] <= Limit * approved_runs

(***************************************************************************)
(* What an execution_result says of the job is what the calls came to.     *)
(*                                                                         *)
(* From execute to a rollback, a run says what its own call came to,       *)
(* though it may have started from a thread that says what an earlier run  *)
(* submitted: verify and postmortem never read a result of another run.    *)
(*                                                                         *)
(* And whatever crashed, and whichever process saved it, a thread that     *)
(* says "submitted" is that of an incident one of whose own calls returned *)
(* a run, unless a rollback wrote a result of its own into it.             *)
(***************************************************************************)
OwnResult(w) ==
    \/ st[w].execution_result = "skipped" /\ submitted[w] = 0
    \/ st[w].execution_result = "dry_run" /\ submitted[w] = 1 /\ result[w] = None
    \/ st[w].execution_result = "submitted" /\ submitted[w] = 1 /\ result[w] \in launched

ResultsTellOfCalls ==
    /\ \A w \in Workers :
         "execute" \in visited[w] /\ "rollback" \notin visited[w] => OwnResult(w)
    /\ \A i \in Incidents :
         /\ checkpoint[i] # None /\ checkpoint[i].execution_result = "submitted"
         /\ i \notin rolled_back
         => i \in answered
=============================================================================
