# Verification of the pipeline-operations agent

The repository is an agent that watches Databricks pipelines, walks an
"incident graph" when one of them fails, asks an operator for approval, and
starts a repair job. This directory holds TLA+ models of it, TLC runs of small
instances, and proofs that TLAPS checks for instances of every size.

All paths below are relative to the repository's root, `src/` here.

Contents: [1 Inventory](#1-inventory), [2 Modules](#2-modules),
[3 Runs](#3-runs), [4 Findings](#4-disagreements-found),
[5 Proofs](#5-proofs), [6 Assumptions](#6-what-is-assumed-of-the-surroundings),
[7 Not modelled](#7-what-is-not-modelled), [8 Plan](#8-plan),
[9 Running it](#9-running-it).

## 1 Inventory

### 1.1 The parts, their state and their operations

| Part | Source | State | Operations |
|---|---|---|---|
| Incident graph | `graph/graph.py`, `graph/state.py` | one `AgentState` per run | five routers, the edges, the shim executor (100 nodes at most), the LangGraph adapter |
| Graph nodes | `graph/nodes/*.py` | none of their own; each reads and writes fields of `AgentState` | detect, collect, execute, report_only are implemented; analyze, triage, propose, verify, rollback, postmortem raise `NotImplementedError` |
| Agent runner, incident registry | `runtime/agent_runner.py` | SQLite file: LangGraph's checkpoint per thread, table `incident_registry` | `invoke`, `resume`, the upsert that ends both |
| Databricks job submission | `tools/databricks_jobs.py` | two retry budgets per call; the runs live in the service | `run_databricks_job`, `check_job_status` |
| LLM client, daily budget | `tools/llm_client.py` | SQLite table `llm_daily_usage` | `invoke_llm`: charge, then up to four requests |
| Alerting | `tools/alerting.py` | none; a retry counter per call | `emit_alert` |
| Watchdog, entrypoint | `runtime/watchdog.py`, `ops/entrypoint.py` | none | `run_once`, `pipelines_to_poll` |
| Action plan contract | `src/orchestrator/action_plan.py` | none | version classification, v1 and v2+ validation |
| Incident identity | `src/orchestrator/utils/incident.py` | none | incident id, fingerprint |
| Bad-records summary | `tools/bad_records_summarizer.py` | none | grouping, ranking, truncation |
| Secrets, settings | `src/orchestrator/utils/secrets.py`, `utils/config.py` | none | `get_secret`: environment, then secret scope |
| Weekly report | `scripts/weekly_report.py` | none; the page it is at | reads the merged pull requests page by page, and formats a report |
| Configuration loaders, time | `src/orchestrator/**` | none | lookups and parsing |
| Data collector, prompt registry, other scripts, skeleton tools | `tools/data_collector.py`, `llmops/`, `scripts/`, ... | none, or external services | SQL texts, prompt files, provisioning |

### 1.2 How they interact

```
 entrypoint -> watchdog (selects pipelines; does not start the graph yet)

 AgentRunner.invoke / resume
     |  initial state, or checkpoint + payload
     v
 incident graph:  detect -> collect -> analyze -> triage -> propose -> interrupt
                    |          \________________^             |  ^        |
                    v                                         |  +-modify-+
                 report_only <--------------------------------+        approve
                                                                          v
                   postmortem <- verify -> rollback          verify <- execute
     |                                                                    |
     |  final state                                  run_databricks_job --+--> Databricks
     v
 incident_registry (SQLite, shared by every process, same file as the checkpoints)
```

The runner calls the graph synchronously. The graph calls the nodes. `execute`
calls `run_databricks_job`, which talks to Databricks. Processes only meet in
the SQLite files (checkpoints, registry, daily LLM usage) and in the
Databricks job. `emit_alert` and `invoke_llm` have no caller among the
implemented nodes yet.

### 1.3 What is hard

* Unreliable delivery and retries. `run-now` has no idempotency token; a
  client timeout or a 5xx answer leaves open whether a run was started. The
  two kinds of failure have separate budgets and may alternate.
* Partial failure. The probe that protects a retry can itself fail.
* Interleaving. Two processes may run or resume one incident, and many
  processes charge one daily counter. The day is read before the lock.
* Crashes. A process may die between any two steps: after the run was
  started and before it was recorded, after the graph ended and before the
  registry was written, inside the transaction that charges the budget.
* Resumption. `resume` merges its payload into the thread's checkpoint and
  starts again at START, so what an earlier run left there is still in force:
  a decision, a plan, a result, a final status.
* State that is old when it is used: the status of a run that goes on, a list
  that shifts while it is read page by page.
* Two backends. The shim and LangGraph are meant to follow the same contract.
* Time. The watchdog keeps nothing between cycles, reads the clock in one time
  zone and its configuration in another, and may be started late.
* Loops. `modify` leads from interrupt to propose and back with the same
  decision.

`PROJECT.json` lists each of these at the line where it bites ("hazards"),
with the property that covers it or the reason why none does yet.

### 1.4 What makes each part correct

* Job submission: a call sends a bounded number of requests; it reports only
  runs that exist; when the probe works it neither duplicates its own run nor
  gives up while one is going; it ends.
* Budget: the counter is exactly the number of charged calls; a cap is never
  passed; a call is charged if and only if it reaches the model, once, to the
  day it was made.
* Graph: a job is submitted at most once per run, and only after that run made
  and proposed a plan and found an approval, its own or one an earlier payload
  left; every run ends; every source the caller supplies reaches detect.
* The agent with its job: a withdrawn approval submits nothing any more; the
  requests ever sent are bounded by the approvals; past execute, a run says of
  the job what its own call came to, whatever an earlier run left in the thread.
* Runner and registry: rows are not lost, a terminal status is not undone and
  reflects the latest run, a registered incident can be resumed, a timeout
  escalates.
* Action plans: only a plan within the contract is ever submitted.
* Alerting: an alert reported as sent was received; copies can be told from new
  alerts; an alert is given up only after every attempt; every call ends.
* Watchdog: each daily pipeline is polled each day soon after its time, and
  `pipeline_a` in every cycle.
* Job status: an answer that the run ended stays true; the environment decides
  between a live and a simulated call before the secret scope does.
* Incident identity: the fingerprint does not depend on the order of the issues,
  and joins no two failures.
* Bad-records summary: no record is left out without a flag; the types shown are
  the most frequent ones.
* Weekly report: it misses and repeats only what the order of the list, and the
  updates made meanwhile, explain.

## 2 Modules

| Module | What it is |
|---|---|
| `JobLaunch` | abstract: what a caller of `run_databricks_job` may rely on |
| `JobSubmission` | `tools/databricks_jobs.py` and the service behind it; implements `JobLaunch` |
| `JobSubmissionProofs` | theorems about `JobSubmission` |
| `DailyQuota` | abstract: what the daily budget promises |
| `LlmBudget` | `tools/llm_client.py` and its SQLite counter; implements `DailyQuota` |
| `LlmBudgetProofs` | theorems about `LlmBudget` |
| `Alerting` | `tools/alerting.py`, the network and the receiver |
| `AlertingProofs` | theorems about `Alerting` |
| `Watchdog` | `runtime/watchdog.py`, the clock and the scheduler |
| `ActionPlan` | `src/orchestrator/action_plan.py` as operators; extended by `AgentGraph` |
| `AgentGraph` | the nodes, routers and edges as operators on a graph state |
| `IncidentRegistry` | abstract: what readers of `incident_registry` may rely on |
| `AgentRunner` | runs of the graph by several processes; extends `AgentGraph`, implements `IncidentRegistry` |
| `AgentRunnerProofs` | theorems about `AgentRunner` |
| `Agent` | the composition: `AgentRunner` whose `execute` really calls the job, known by what `JobLaunch` promises |
| `AgentProofs` | theorems about `Agent`, the first of which is that it implements `AgentRunner` |
| `WatchdogProofs` | theorems about `Watchdog` |
| `JobStatus` | `check_job_status`, `utils/secrets.py`, and the life cycle of the run |
| `IncidentIdentity` | `utils/incident.py` over the detections made so far |
| `BadRecords` | `tools/bad_records_summarizer.py`, record by record |
| `WeeklyReport` | the paged read of `scripts/weekly_report.py`, and the list that shifts under it |
| `StatusAndReportProofs` | theorems about `JobStatus` and `WeeklyReport` |
| `SummaryAndIdentityProofs` | theorems about `BadRecords` and `IncidentIdentity` |
| `MCJobSubmission`, `MCLlmBudget`, `MCAgentRunner`, `MCAgent`, `MCAlerting`, `MCWatchdog` | instances for TLC: model values, observations, symmetry |
| `MCParts` | instances of the modules that share nothing with any other (`Watchdog`, `BadRecords`, `JobStatus`, `WeeklyReport`, `IncidentIdentity`): a behaviour is one of the part named by the variable `part`, while the others rest |

Definitions headed "Variant" are the code with one plausible bug (a dropped
guard, a swapped order, an uncounted retry). No specification uses them; each
stands beside the definition it would replace, and replacing it makes a named
property fail ("mutants" in `PROJECT.json`).

### 2.1 JobSubmission

A caller's `pc` is its place in `run_databricks_job`: `post` (about to send),
`awaiting` (the HTTP call is out), `probe` (an except branch that has asked,
or is asking, for an active run), or one of the outcomes. `retries_left`
holds `timeout_retries_left` and `api_5xx_retries_left`. `cause` is which of the
two except branches is running.

| Action | Code |
|---|---|
| `Invoke` | the checks at the head of the function, in their order (`Admission`), fresh budgets |
| `SendRunNow` | the POST |
| `RunNowSucceeds` | an answer with a run id |
| `RunNowAmbiguous` | `TimeoutError`, or an HTTP 5xx |
| `RunNowFails` | any other error: re-raised at once |
| `ProbeFindsRun`, `ProbeFindsNothing`, `ProbeFails` | `_find_active_run_id_for_job` and the `except Exception` that swallows its error |
| `RetryOrRaise` | the budget of this branch is compared with zero, then spent |
| `Crash` | the process dies; `Invoke` is also the call a resumed run makes |

The service: a request on the wire (`pending`) is applied or dropped, at any
time (`LateApply`) or only before its client gives up; runs end; other clients
start runs. `runs/list` asks for one run, so the probe returns any active one.
The sleep between retries is not a step: nothing is read or written around it.

`JobLaunch` promises at most `Limit` attempts per call, at most one run per
attempt, and an existing run behind every reported id. It does not promise
exactly-once. The mapping: the abstract budget is the sum of both retry budgets,
plus one while the request has not been sent.

### 2.2 LlmBudget

`Invoke` checks the cap and reads the day; `Insert` is the upsert, which waits
for SQLite's write lock and reads the row; `Commit` ends the transaction and
decides between charged (the request goes out) and capped. `DbFails` is any
sqlite3 error, `Crash` the death of the process; both roll back. Then
`Answered`, `PermanentFailure`, `TransientFailure` and `RetriesExhausted` are the
outcomes of one HTTP attempt. `Midnight` changes the day under everybody.
`charged` is a history variable: which calls each day paid for, under which
cap. The rows of the table are the function `request_count`; no row is 0.

`DailyQuota` grants a call at most once, on one day, below its cap, and leaves
open which day that is. The code reads the day before it waits for the lock
(`date_key`), so it is the day the call was made, not that of the commit;
`ChargedIffRequested` says so.

### 2.3 AgentGraph and AgentRunner

`AgentGraph` has no variables. A graph state holds the fields that decide the
control: the plan, the decision, the result, the final status, whether the
collected lists are empty, and `obs`, what the caller knows of the pipeline
(its failure, another pipeline's, the last success against the cutoff, the DQ
tags, the exception ledger, the bad records as far as collect refuses what is
not a list, the duplicate flag). Texts the nodes write are left
out. `Updates(node, st)` is what a node may leave, `Raises` when it raises,
`Successor` the router and the edge.

The six skeleton nodes are treated in two ways, chosen once per behaviour
(`stubs`): as they are, they raise; as they are specified to become, they write
any value to the fields in their `WRITE_FIELDS`, or leave them as they are: triage the
plan, verify the final status, rollback the final status and the execution result
(also "submitted", or a status execute never writes); the other fields are texts.
The plans and final statuses to choose from are constants (`Plans`, `FinalStatuses`).
The first set of behaviours is the program of today, the second checks the graph and
the runner around the nodes for whatever the nodes will decide.

`AgentRunner` adds workers (processes), the checkpoints and the registry.

| Action | Code |
|---|---|
| `Invoke`, `Resume` (`Begin`) | the start of `AgentRunner.invoke` and `resume`: which state the run starts from, by backend (`Base`), and what the payload overwrites in it (`Merged`): the decision, for `resume` also a plan the operator changed |
| `NodeReturns` (`Advance`) | a node returns; the state is saved (LangGraph); the router picks the next node, or the run ends |
| `NodeRaises`, `StepLimit` (`Overrun`) | an exception leaves the graph and the runner: no registry row |
| `SubmitJob`, `SubmitRaises` | `execute` calls `run_databricks_job`, which returns (a `NodeReturns`) or raises |
| `Record` | `_upsert_incident_registry` |
| `Crash` | the process dies, or the upsert fails |

`given`, `visited` and `submitted` are history variables that properties speak
about; no action reads them to decide. (`steps` is the executor's own counter.)

`ActionPlan` is part of `AgentGraph`. A plan is a record of what its JSON object
shows: which fields are there and of what kind, the version, the action, the names
of the parameters. `Executable` is the conjunction of the checks `execute` makes,
in the functions that make them: `Version` (`classify_action_plan_version`),
`MeetsContract`, the two presence checks, `MeetsSchema`. Their order
matters to the error text only. Whether a text is a date is an input.

### 2.4 Alerting

`pc` is `sending` (at the head of the loop), `awaiting` (the request is out) or
one of the outcomes. `EmitAlert` reads the settings and serializes the body, whose
`occurredAt` is the time of the call; `Send` is one attempt; `Accepted`,
`PermanentFailure` and `TransientFailure` are its outcomes, by the status or by
what `_classify_alert_error` makes of an exception. There is no wait between
attempts. The network (`wire`) delivers (`Receive`) or loses (`Lose`) a request
whenever it likes, after a timeout or a crash too. A failure says nothing of
whether the request was received; an accepted one was.

### 2.5 Watchdog

`RunOnce` is `run_once`: it picks `PipelinesToPoll(now)` and keeps nothing. The
scheduler asks for a run every `Period` minutes, and `Tick` lets a run be
`MaxDelay` late. `polled_on` is a history variable. Days, hours and the distance of
KST from UTC are constants, so a run can use short ones; the code compares
`HH:MM` texts, which for zero-padded times is the order of the minutes.

### 2.6 Agent

`Agent` is `AgentRunner` and `JobLaunch` side by side, each worker a caller. The
graph waits in `submitting` while its call is in progress.

| Action | Code |
|---|---|
| `BeginRun` | `Begin`, and what the operator said last (`standing`, `approved_runs`: history) |
| `RunnerStep` | any step of `AgentRunner` outside the call; a rollback is noted (`rolled_back`: history) |
| `CallJob` | `execute` calls `run_databricks_job`, which begins its requests, or refuses or simulates |
| `Request` | one `run-now` request of the call |
| `JobSubmitted`, `JobSimulated` | the call returns a run, or was simulated; `execute` writes the result; a run returned is noted (`answered`: history) |
| `JobRaises`, `ProcessDies` | the call, or its process, ends without one (`Abandoned`); its requests stay on the way |
| `ServiceStep` | a request takes effect, at any time later; somebody else starts a run |

Since `JobSubmission` implements `JobLaunch` (proved), what `Agent` shows of the job
holds of the retry loops and the probe of `tools/databricks_jobs.py`.

### 2.7 JobStatus, IncidentIdentity, BadRecords, WeeklyReport

`JobStatus`: `CheckJobStatus` reads the mode, then the host and the token, each by
`GetSecret` (environment, then scope, which may hold any value and may fail);
`ServiceAnswers` takes the run's state of that moment, `Received` maps it, and
`RunMoves` goes on with the run before, between and after. `CallFails` is any error
of the request, none of which is retried.

`IncidentIdentity`: a detection is made of a pipeline, a run, a time and a sequence
of issues; an issue is the rank of its JSON text. `sorted` is any reordering of the
issues that leaves them sorted (there is one result, which is proved). A hash is what is
hashed.

`BadRecords`: `Read` is one pass of the grouping loop, and `Summary` what the
function returns for the records read so far, so that every prefix is an input.
A text is a number in the alphabetical order. The order of the rows is that of
`Rank`, the number of types that the sort key puts before one, plus one.

`WeeklyReport`: the list of the closed pull requests is the place of each in it
(`place`, 0 for an open one), and a page is those whose places it covers. `ReadPage`
requests a page and selects from it, `Touch` is an update by somebody else that moves a
pull request to the front of the list. `results` tells on which page each one was read;
that the code sorts them at the end is left out.

## 3 Runs

"Pass" runs find no error; "violation" runs show a disagreement (section 4).

| Run | Shows | Distinct states |
|---|---|---|
| `job_retry` | in the worst environment: the retry budgets bound the requests, reported runs exist, calls end even if the service never settles a request, `JobLaunch` is implemented | 422,000 |
| `job_clean_probe` | with the configured retry budgets, a working probe and no late application: no duplicate, and nothing left running after giving up | 8.5 million |
| `runner` | two processes: one approved submission per run; the skeletons stop every run before remediation; registered threads are checkpointed; `IncidentRegistry` is implemented | 518,000 |
| `agent` | one process and its job: only plans within the contract are submitted, only under a standing approval, and approvals bound the requests; results tell what the calls came to; the registry follows the thread; every run ends, the modify loop included | 598,000 |
| `llm_budget` | charges are counted, capped, made once, each call ends, `DailyQuota` is implemented | 81,000 |
| `alerting` | what is reported as sent was received; copies are recognizable and bounded; every call ends | 51,000 |
| `parts` | the watchdog over three days; summaries of five bad records; a status call beside a moving run; a paged read of a list that shifts; pairs of detections | 72,000 |
| `job_probe_fails`, `timeout_escalates`, `langgraph_sources`, `type_count`, `watchdog_late` | the findings | |

### 3.1 Properties

Every module has one `TypeOK`. In `AgentRunner` and `LlmBudget` it is also the
check that a status nobody allowed never reaches the registry, and that a call
never makes a request too many. The others:

* `RetriesPayForPosts`: requests sent plus budget left is constant through a
  call, however timeouts and 5xx answers alternate.
* `SubmittedIffRunKnown`: an id is handed out exactly on "submitted", and it
  names a run that exists. A probe that fails or an answer that is lost makes no
  id up.
* `NoDuplicateActiveRun`, `ExhaustedLeavesNothingRunning`: what the probe is
  there for. They need a probe that answers and a service that does not apply a
  request after its client gave it up; `job_probe_fails` shows that the first
  condition is needed.
* `CountIsCharges`, `WithinCap`, `ChargedIffRequested`: the counter equals the
  charges; a day stays within the largest cap it was charged under (lowering
  the cap on one process takes nothing back); a call that reached the model
  was charged on exactly one day, the one it was made on even if it waited for the
  lock over midnight, and any other call on none.
* `OneApprovedSubmissionPerRun`: a submission comes after triage, propose and
  interrupt of the same run, with an approval, and there is one. The approval
  may be an old one that the checkpoint still holds; the next two properties
  say what that may lead to.
* `OnlyStandingApprovalsSubmit`: a request is sent only for an incident whose
  operator's last word is "approve". A checkpoint's approval is used again by
  every later run, but a resume that says otherwise withdraws it for good,
  whatever crashed in between.
* `JobsPaidByApprovals`: requests sent, and those the present call may still send,
  are at most `Limit` for each run that started under an approval. A loop of the
  graph, a retry or a crash in the call adds none.
* `ResultsTellOfCalls`: a run may start from a thread that says what an earlier run
  submitted; past execute and up to a rollback, its result is nevertheless that of its own
  call: skipped if it made none, simulated if no run came of it, submitted if one did.
  And a thread that says "submitted" is that of an incident one of whose own calls
  returned a run, whichever process saved it and whatever crashed, unless a rollback
  wrote the result. (A rollback may write what it likes, so nothing is said of it. The
  run a call returns may be somebody else's, because the probe adopts any active run
  of the job.)
* `SkeletonsBlockRemediation`: with the nodes as they are, every run ends in
  detect or report_only, or dies before it gets to triage.
* `RegistryMatchesCheckpoint`: when a run is recorded and its thread has a terminal
  status, the row gets that very status, whatever an earlier run left in the row or a
  later one inherited from the thread. It needs one process per incident: with
  two, an older run may be recorded after a newer one.
* `RegisteredThreadsAreCheckpointed`: with LangGraph, no crash leaves a
  registry row without a checkpoint to resume.
* `SubmittedPlansMeetContract`: what was submitted is within the contract of
  ADR-0003 and ADR-0013, which `ContractPlans` spells out action by action instead of
  check by check.
* `ReturnedMeansReceived`: `emit_alert` does not return unless an attempt of this
  very call was received, and a refused call sends nothing.
* `CopiesAreRecognizable`: the receiver may see an alert several times, late and
  out of order, but all copies bear one `occurredAt`, and there are at most as
  many as the setting allows.
* `TransientMeansAllAttempts`: giving up comes after exactly `max_retries + 1`
  attempts.
* `PolledInTime`: relates two days, two time zones and late runs: one period (and
  its delay) after its time, a daily pipeline has been polled today. The window
  after a time so late that the deadline is the next day is left out.
* `NothingLeftOutSilently`, `MostFrequentTypesShown`: the summary against the records,
  counted again: rows tell true counts, their samples are the first records,
  the flags tell exactly when something is missing; the rows come most frequent first, in
  an order that the reading does not change, and the cap drops only what comes after them.
* `EndedAnswersStay`: "finished" and "failed" are as true when used as when given,
  although the run moves on while the answer travels; "running" promises nothing.
* `EnvironmentOverridesScope`: of `check_job_status`, no request goes out, and nothing
  but "dry_run" is answered, where the environment says dry-run, whatever the secret
  scope holds. (In `run_databricks_job` the plan's parameters may override the mode;
  there the mode is an input, `JobSubmission!Admission`.)
* `MissingOnlyBehindOlder`: on a quiet list the report has each pull request of the
  week once, except those behind an older one, or past the last page. (The code
  stops at an older *merge* in a list ordered by *update*.)
* `OneRepeatPerTouch`: each update made by others while the pages are read makes at
  most one pull request count twice.
* `OneHiddenPerTouch`: and each hides at most one: of the pages read, the report misses
  only what moved to the front before its page was read.
* `FingerprintNamesFailure`: equal fingerprints are the same pipeline, run and
  collection of issues, in any order but with their repetitions; equal ids are the
  same pipeline, run and time.
* `CallEnds` (three modules) and `RunEnds`: liveness.
* `ImplementsJobLaunch`, `ImplementsDailyQuota`, `ImplementsIncidentRegistry`:
  the refinements.

### 3.2 Bounds, and why they are enough

* `MaxCalls`, `MaxRuns`, `MaxDay` bound the only counters that grow without end.
  Two calls or runs are what it takes for one to meet what another left behind;
  one midnight is enough for a stale day.
* Two callers or workers, one incident: the interference between two processes
  is on one job, one row, one thread. A second incident shares nothing with
  the first. `job_retry` and `agent` have one process, and a foreign run of the same
  job, because no process waits for another there and `runner` and
  `job_clean_probe` have the interference; three properties of `agent` hold for one
  process per incident only (section 5). The LLM budget's callers do
  wait for the lock, and `llm_budget` has two.
* Retry budgets are 1 and 1, or, in `job_clean_probe`, the 2 and 2 of the code:
  enough for each branch to retry, to run out, and for the causes to alternate.
  The proofs cover every value.
* `MaxAttempts = 2` instead of 4: one retry and exhaustion.
* `MaxSteps = 9` instead of 100 or 25: the longest
  path without the modify loop has 9 nodes (detect, collect, analyze, triage,
  propose, interrupt, execute, verify, postmortem), so 9 lets every path finish
  and still ends the loop by the limit.
* `AllObservations` has one observation for each outcome of detect and collect:
  failing, late, critical tag, critical exception, malformed source (one that decides
  the route, or the bad records, which decide nothing else), unparsable time, duplicate.
* `agent`: two runs, so that the second meets the first's checkpoint, row, approval and
  late requests; `Limit = 2`, a request and its retry.
* `AllPlans` (in `agent`) has a plan within each version's contract, a
  skip, and one plan for each way of breaking the contract; `runner` needs only
  one plan that is executed and one that is skipped.
* `alerting`: two alerts, settings 0 and 2 (the default), three instants: enough for
  a late copy of the first alert to arrive after the second.
* `parts`: five records with types and samples capped at two, so that both caps are
  passed; records with a mapping, a text that parses, a text that does not, and nothing.
  Six pull requests on pages of two, at most two pages and two updates by
  others. Two detections out of 36 that differ in time, run, and the order and
  number of the same issues.
* The watchdog in `parts`: days of 24 minutes and hours of 6 instead of 1440 and 60, a run every
  3 minutes and at most 2 late, KST one hour ahead, three days. One pipeline is due
  early (as all configured ones are), so that the UTC and the KST day differ when
  it is, one late. The first run is at any time of the first day.
* Symmetry among callers and workers is used in safety runs only.
* Deadlock is not checked: the programs may stop, and the bounds make them.

### 3.3 Fairness

`FairSpec` (`FairAgentSpec` in `Agent`) asks weak fairness of each process's own
steps (`CallerStep`, `CallStep`, `RunStep`, `AgentStep`), never of a crash, of the
service, of the network, of the clock or of a new call. The code justifies it: every request has a client timeout
(20 s for run-now, 10 s for runs/list, 60 s for the model, 5 s for an alert),
sleeps are finite, sqlite3 waits at most 5 s for a lock and then raises. The
mutants of `job_retry`'s and `alerting`'s `CallEnds` take the client timeout away,
and the call no longer ends. `Watchdog` needs no fairness: `PolledInTime` is a
safety property with a deadline, and `Tick` may not pass a run that is due.

## 4 Disagreements found

Five places where the code does not do what the repository's documents say.
`PROJECT.json` ("findings") quotes the lines.

1. `job_probe_fails`: a probe that raises is taken for "no active run", so the
   retry may start a second run (`tools/databricks_jobs.py:84` against
   `.specs/ai_agent_spec.md:808`).
2. `timeout_escalates`: the operator's timeout ends the run without
   `final_status = "escalated"` (`graph/graph.py:89` against the specification's
   lines 162 and 547).
3. `langgraph_sources`: `exception_ledger` and `dq_status` are not declared in
   `AgentState`, so on LangGraph they never reach detect; the shim keeps them.
4. `type_count`: the summary's `type_count` is the number of types shown, not the number
   before the cap (`tools/bad_records_summarizer.py:81` against lines 441 and 442).
   Line 430 of the same document bounds it by the cap, as the code does:
   the document disagrees with itself. `types_truncated` still tells that
   types were left out.
5. `watchdog_late`: a cycle that starts a minute late does not poll `pipeline_a`
   (`runtime/watchdog.py:23` against line 761).

## 5 Proofs

TLAPS checks these for every set of callers and runs and every value of the
bounds. The constants are only assumed to be of their types
(`SubmissionAssumption`, `BudgetAssumption`, `AlertingAssumption`, `RunnerAssumption`,
`AgentAssumption`, `WatchdogAssumption`, `ReportAssumption`, `SummaryAssumption`,
`DetectionAssumption`), and "none" to be different from the values it
stands beside (`StatusAssumption` asks no more).

`JobSubmissionProofs`:

* `TypeCorrect`, then `PostsBounded` and `SubmittedRunsExist`: `RetriesPayForPosts`
  and `SubmittedIffRunKnown` are inductive together with `TypeOK`.
* `CleanProbeNoDuplicate` and `CleanProbeExhausted`, assuming
  `~ProbeMayFail` and `~LateApply`: neither property is inductive. `ProbeInv`
  is: of the requests of the present call only the last can be alive (on the
  wire or active), it is settled when the probe looks, and nothing is alive when
  the call is about to send again or has given up.
* `Refinement`: `Spec => ImplementsJobLaunch`. Late application needs
  `PendingSent` (what is on the wire was sent), and the end of a call needs
  `SubmittedIffRunKnown`.

`LlmBudgetProofs`:

* `TypeCorrect`; then `BudgetInv`, which adds two facts to the three properties:
  `Locked`, that the caller inside the transaction holds the lock and has read the
  row as it still is, and `NoFutureCharge`, that no charge names a call that has
  not begun (so a new call is uncharged). `date_key` is fixed from the call to its end, which
  makes the day of the charge the day of the call. From it `ChargesCounted`, `CapHolds`,
  `ChargedOnce`.
* `Refinement`: `Spec => ImplementsDailyQuota`. A commit below the cap is a
  grant, every other step a stutter.

`AlertingProofs`:

* `TypeCorrect`; then `AlertingInv`, which adds to the three properties
  `AttemptsInv`, that between attempts the number of attempts is at most the setting
  and during one at most one more, and `RequestsInv`, that every request ever
  sent belongs to a call made so far and one of the present call bears its time. From it `ReturnedAlertsReceived`,
  `CopiesRecognizable` and `TransientAfterAllAttempts`.

`AgentRunnerProofs`, for every number of processes, incidents, plans and steps:

* `TypeCorrect`: lemmas say what each node may leave (`NodeStates`), where each edge
  leads (`Edges`) and what each step does to the types.
* `ApprovedSubmissions`, `ContractHolds`, `SkeletonsBlock`, from `RunInv`. None of
  the three is inductive: a worker at `execute` must be known to have passed triage,
  propose and interrupt. `Position` says what its node tells of the nodes behind it and
  of the submissions made; `Approved` and `Blocked` are the properties themselves.
  `ExecutablePlans` is the lemma that the four places where a plan is checked
  leave no gap.
* `RegisteredResumable`, from `ThreadInv`: a run in progress has saved its thread.
* `Refinement`: `Spec => ImplementsIncidentRegistry`. Recording is a `Write`, every
  other step a stutter.
* `RegistryFollowsThread`, for one process (`Alone`): a run and its thread hold the
  same state (`Synced`).

`AgentProofs`:

* `ImplementsRunner`: `AgentSpec => Spec`, so that every theorem above holds of the
  agent with its job; `AgentContractHolds` is one of them.
* `AgentTypeCorrect` and `ResultsTell`, for any number of processes, from `ClaimInv`. What a
  run says where it started is its thread's (`RunClaims`, `ThreadClaims`), so both must
  be known of each other. That it says its own past execute needs that execute is not
  visited twice (`Afterwards`), and that between the call and its record the run made one call,
  which has returned nothing yet (`Awaiting`).
* `ApprovalsPay` and `RequestsStand`, for one process, from `ApprovalInv`: what a run
  may still ask for (`Owed`) moves to the call's budget and from there to the
  requests (`Paid`); a run or a thread that holds an approval is for an incident whose
  operator said so last (`Stands`, `Threads`); a call is in progress only
  while its run waits for it (`Calling`).

  With two processes on one incident neither holds: one may save an approval
  back after the other was told to reject. The code does not serialize them.

`WatchdogProofs`, for every length of the day and the hour, every period, delay and
configuration:

* `TypeCorrect`; `PolledEveryDay`, from `NotLate` (a run is at most `MaxDelay` late) and
  `PolledAfterDue` (once the run that was due after a pipeline's time has taken place, the
  pipeline has been polled on that day). `OnlyDay` is the arithmetic behind it: a
  time fits one day only.

`StatusAndReportProofs`, for every list of pull requests, length of a page and number
of updates:

* `EndedAnswersLast` and `EnvironmentDecides`, from `StatusInv`: what is still on its
  way must be known. An ended state in it is the state of the run now, since an ended run
  never moves; and a process whose environment says dry-run has no request out.
* `FewRepeats`, from `ListInv` (the places are numbered without gaps, no two pull requests
  share one) and `RepeatInv`. Counting the repeats made is not inductive: an update
  first pushes a pull request over the end of a page, and only the next page repeats it.
  `RepeatInv` counts both, the repeats made and those that lie ahead; `RepeatTouched`
  shows that one update puts at most one more ahead, `RepeatRead` that reading turns
  what lies ahead into repeats one for one.
* `FewHidden`, from `HiddenInv`: reading a page hides nothing, and an update only what it
  moves itself (`HiddenTouched`), because all others move away from the front.
* `QuietReportComplete`, from `QuietInv`: without updates the results are exactly what the
  pages read so far show of the week, and only the last page read can be one that ends
  the reading. `NoEmptyPageBefore` rules out that an empty page hides later ones.

`SummaryAndIdentityProofs`, for all records, caps and lists of issues:

* `RanksNumber` is the lemma behind both parts: in a finite strict order, one more than
  the number of elements before each numbers them from 1 on without a gap. It replaces
  an induction over sequences by a bijection between finite sets.
* `FailuresKeepTheirNames`: `CanSort` (every list has a sorted reordering, by the ranks),
  `SortedIsUnique` (two sorted lists that are reorderings of one another are equal, by
  counting what is up to a value), and from them `CanonicalForgetsOrder`: two lists have
  one canonical form exactly if each is a reordering of the other.
* `SummaryLeavesNothingOut` and `CapDropsTheRarest`, from `SummaryInv`: each group counts
  its records, and its samples are the first of them, as many as the cap allows.
  `RankOfTypes` shows that the sort key orders the types strictly (`AlphabeticalOrder`),
  `RowsShown` that the rows are the types of the lowest ranks, each once, up to the cap.

Only model-checked: liveness (`CallEnds` of three modules and `RunEnds`), which is out of
this prover's reach. Every invariant, action property and refinement that a
passing run checks is proved. No proof is by induction over data; where the code loops over
a sequence (the grouping of records, the pages of the list), the model has one step
per pass, and the invariant of the steps takes the place of the induction.

## 6 What is assumed of the surroundings

Modelled as external, from how the code uses them:

* Databricks Jobs: a `run-now` request starts at most one run, or none. An answer
  with a run id means the run exists. `runs/list(active_only)` lists the runs
  that are active when it is answered.
* SQLite: one writer at a time; the lock is taken by the transaction's first
  write and released when it commits, fails or its process dies; a transaction
  is all or nothing.
* LangGraph: a mapping given to `invoke` is merged into the thread's checkpoint
  and the graph starts again at START; keys the state type does not declare are
  dropped; the state is saved after every node, and before the step limit is
  reported. A payload without a decision still starts the graph. Nothing serializes
  two processes on one thread.
* The network delivers an alert's request at most once, or never, at any time. A
  2xx answer, or an answer without a status, comes from the receiver.
* Databricks' life cycle: a run goes from state to state as `LifeCycle` says, and never
  out of TERMINATED, SKIPPED or INTERNAL_ERROR. An answer may lack a state.
* The secret scope holds any value or none, different ones at different times, and
  may fail.
* GitHub lists the closed pull requests by their last update, and an update or
  a closing moves one to the front at once.
* SHA-256 has no collisions, nor have the 16 digits an incident id keeps.
* The scheduler of the watchdog starts one run per period, late at times.
* A failed process loses its memory and nothing else.

## 7 What is not modelled

* Texts: prompts, reports, log lines, SQL, reasons of errors, and how the bad-records
  summary abbreviates a long text (rows are told apart before that).
* Configuration loaders (`databricks_jobs_config.py`, `pipeline_monitoring_config.py`,
  `validation_targets_config.py`): they read a YAML file and compare it with a fixed
  schema; a model would repeat that schema. Their failure is an input (a rejected call).
* `utils/time.py`: parsing of a timestamp. Its failure and the order of two timestamps
  are inputs of `AgentGraph` (`last_success`).
* The data collector builds SQL texts and executes none; the prompt registry reads
  files; nothing in the running agent calls either. The evaluation runner and the domain
  validator raise `NotImplementedError`. The shell scripts talk to external services.
* What triage, which is a skeleton, will do with a plan the operator changed and sent with a
  resume: the run starts at START, and in the model triage may keep the plan or write
  another over it, while `.specs/ai_agent_spec.md:919` asks that it be kept. A property would
  be about code that is not written.
* Whether `parameters.pipeline` of a plan is the incident's pipeline: nothing in the
  code compares them, and no document asks for it. The model keeps which
  parameters a plan has, not their values.
* The watchdog's poll of a pipeline: the code selects pipelines and does not
  poll them yet.
* The runner's fields `detected_at` and `fingerprint` follow the same rule
  as `pipeline` in the upsert, which stands for them.

## 8 What is left

Every component whose code has control of its own is modelled, and every safety
property of a passing run is proved (section 5). What would come next depends on code
that is not there yet:

1. When triage, propose, verify and rollback are implemented: their actions in place of
   what their `WRITE_FIELDS` allow, and the property that the plan executed is the one
   approved, or the one the operator wrote (`.specs/ai_agent_spec.md:919`, 942-947).
2. When the watchdog starts the graph: `Watchdog` composed with `Agent`, with the
   fingerprint of `IncidentIdentity` deciding what is a duplicate.
3. When a node calls `invoke_llm` or `emit_alert`: `Agent` with `DailyQuota` as it now
   has `JobLaunch`, so that a crash between the charge and the answer meets a
   resumed run.

## 9 Running it

    tlc -config job_retry.cfg MCJobSubmission.tla
    tlc -config job_clean_probe.cfg MCJobSubmission.tla
    tlc -config runner.cfg MCAgentRunner.tla
    tlc -config agent.cfg MCAgent.tla
    tlc -config llm_budget.cfg MCLlmBudget.tla
    tlc -config alerting.cfg MCAlerting.tla
    tlc -config parts.cfg MCParts.tla
    tlapm JobSubmissionProofs.tla      # and the seven other *Proofs modules

Each passing run takes a minute or so, each proof module a few minutes at most.
