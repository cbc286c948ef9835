---------------------------- MODULE JobSubmission ----------------------------
(***************************************************************************)
(* tools/databricks_jobs.py: run_databricks_job starts the refresh job of  *)
(* a pipeline over HTTP.  A run-now request whose answer is lost (client   *)
(* timeout, 5xx) may or may not have started a run, so before it retries   *)
(* the function asks the service for an active run of the job and adopts   *)
(* it.  Timeouts and 5xx answers have separate retry budgets.              *)
(*                                                                         *)
(* The Databricks service is modelled from how the code uses it: a request *)
(* on the wire is applied (a run appears) or dropped, independently of     *)
(* what the client has been told; runs end; other clients start runs.      *)
(* A caller may crash at any point of a call and may call again: resuming  *)
(* an incident runs the execute node again, with fresh budgets.            *)
(***************************************************************************)
EXTENDS Naturals, FiniteSets

CONSTANTS Callers,            \* processes that call run_databricks_job for the one job
          ForeignRuns,        \* runs of the job that other clients start
          MaxTimeoutRetries,  \* _MAX_TIMEOUT_RETRIES
          Max5xxRetries,      \* _MAX_5XX_RETRIES
          MaxCalls,           \* bound on the calls one process makes
          ProbeMayFail,       \* BOOLEAN: runs/list can fail
          LateApply,          \* BOOLEAN: a request can be applied after its client gave it up
          None

ASSUME SubmissionAssumption ==
    /\ MaxTimeoutRetries \in Nat
    /\ Max5xxRetries \in Nat
    /\ MaxCalls \in Nat
    /\ ProbeMayFail \in BOOLEAN
    /\ LateApply \in BOOLEAN
    /\ None \notin ForeignRuns
    /\ None \notin Callers \X Nat
    /\ ForeignRuns \cap (Callers \X Nat) = {}

VARIABLES
    pc,            \* where each caller is in run_databricks_job
    retries_left,  \* [Callers -> [Cause -> Nat]]: timeout_retries_left, api_5xx_retries_left
    cause,         \* which except branch the caller is in
    job_run_id,    \* the run the last call returned, or None
    calls,         \* calls made so far (bounded by MaxCalls)
    posts,         \* run-now requests sent by the current call
    sent,          \* run-now requests ever sent: numbers the requests
    pending,       \* requests on the wire, neither applied nor dropped
    active,        \* runs the service lists as active
    ended          \* runs that are over

callerVars == <<pc, retries_left, cause, job_run_id, calls, posts, sent>>
serviceVars == <<pending, active, ended>>
vars == <<callerVars, serviceVars>>

Cause == {"timeout", "5xx"}
Busy == {"post", "awaiting", "probe"}
Resting == {"idle", "rejected", "dry_run", "submitted", "failed", "exhausted", "crashed"}

\* A request is <<caller, number>>; the run it starts bears the same name.
Request == Callers \X Nat
Run == Request \cup ForeignRuns
Current(c) == <<c, sent[c]>>

\* The requests of c's present call.
Own(c) == {<<c, k>> : k \in (sent[c] - posts[c] + 1) .. sent[c]}

InitialRetries == [k \in Cause |-> IF k = "timeout" THEN MaxTimeoutRetries ELSE Max5xxRetries]
MaxPosts == 1 + MaxTimeoutRetries + Max5xxRetries

(***************************************************************************)
(* The checks before any request, in the order of the code: action,        *)
(* pipeline, execute mode, job id, the dry-run return, the credentials.    *)
(***************************************************************************)
Input == [action : {"backfill_silver", "retry_pipeline", "skip_and_report"},
          pipeline : {"configured", "unknown", "missing"},
          execute_mode : {"dry-run", "live", "unsupported"},
          credentials : BOOLEAN]

Admission(in) ==
    IF \/ in.action \notin {"backfill_silver", "retry_pipeline"}
       \/ in.pipeline # "configured"
       \/ in.execute_mode \notin {"dry-run", "live"}
    THEN "rejected"
    ELSE IF in.execute_mode = "dry-run" THEN "dry_run"
    ELSE IF ~in.credentials THEN "rejected"
    ELSE "post"

AdmissionOutcomes == {Admission(in) : in \in Input}

Init == /\ pc = [c \in Callers |-> "idle"]
        /\ retries_left = [c \in Callers |-> InitialRetries]
        /\ cause = [c \in Callers |-> None]
        /\ job_run_id = [c \in Callers |-> None]
        /\ calls = [c \in Callers |-> 0]
        /\ posts = [c \in Callers |-> 0]
        /\ sent = [c \in Callers |-> 0]
        /\ pending = {} /\ active = {} /\ ended = {}

-----------------------------------------------------------------------------
(* The caller. *)

\* A (new) call: nothing of an earlier one is remembered.
Invoke(c) ==
    /\ pc[c] \in Resting
    /\ calls[c] < MaxCalls
    /\ calls' = [calls EXCEPT ![c] = @ + 1]
    /\ \E out \in AdmissionOutcomes : pc' = [pc EXCEPT ![c] = out]
    /\ retries_left' = [retries_left EXCEPT ![c] = InitialRetries]
    /\ cause' = [cause EXCEPT ![c] = None]
    /\ job_run_id' = [job_run_id EXCEPT ![c] = None]
    /\ posts' = [posts EXCEPT ![c] = 0]
    /\ UNCHANGED <<sent, serviceVars>>

\* POST jobs/run-now.
SendRunNow(c) ==
    /\ pc[c] = "post"
    /\ pc' = [pc EXCEPT ![c] = "awaiting"]
    /\ sent' = [sent EXCEPT ![c] = @ + 1]
    /\ posts' = [posts EXCEPT ![c] = @ + 1]
    /\ pending' = pending \cup {<<c, sent[c] + 1>>}
    /\ UNCHANGED <<retries_left, cause, job_run_id, calls, active, ended>>

\* Variant: the answer is taken for a success without looking for run_id.
RunNowAnswered(c) ==
    /\ pc[c] = "awaiting"
    /\ pc' = [pc EXCEPT ![c] = "submitted"]
    /\ job_run_id' = [job_run_id EXCEPT ![c] = Current(c)]
    /\ UNCHANGED <<retries_left, cause, calls, posts, sent, serviceVars>>

\* The answer carries the run id.
RunNowSucceeds(c) ==
    /\ pc[c] = "awaiting"
    /\ Current(c) \in active \cup ended
    /\ pc' = [pc EXCEPT ![c] = "submitted"]
    /\ job_run_id' = [job_run_id EXCEPT ![c] = Current(c)]
    /\ UNCHANGED <<retries_left, cause, calls, posts, sent, serviceVars>>

\* Variant: no client timeout, so only a settled request is ever given up.
NeverGivesUp(c) == Current(c) \notin pending

\* Without late application the service has settled a request by the time the
\* client gives it up.
MayGiveUp(c) == LateApply \/ Current(c) \notin pending

\* Variant: every error is retried, and no budget pays for it.
RetryAnyFailure(c) ==
    /\ pc[c] = "awaiting"
    /\ MayGiveUp(c)
    /\ pc' = [pc EXCEPT ![c] = "post"]
    /\ UNCHANGED <<retries_left, cause, job_run_id, calls, posts, sent, serviceVars>>

\* A 4xx answer, a broken connection, an answer without run_id or not a JSON
\* object: re-raised at once, whatever became of the request.
RunNowFails(c) ==
    /\ pc[c] = "awaiting"
    /\ MayGiveUp(c)
    /\ pc' = [pc EXCEPT ![c] = "failed"]
    /\ UNCHANGED <<retries_left, cause, job_run_id, calls, posts, sent, serviceVars>>

\* Variant: the 5xx branch retries without asking for an active run first.
RetryBeforeProbe(c, why) ==
    /\ pc[c] = "awaiting"
    /\ MayGiveUp(c)
    /\ cause' = [cause EXCEPT ![c] = why]
    /\ IF why = "5xx" /\ retries_left[c][why] > 0
       THEN /\ pc' = [pc EXCEPT ![c] = "post"]
            /\ retries_left' = [retries_left EXCEPT ![c][why] = @ - 1]
       ELSE /\ pc' = [pc EXCEPT ![c] = "probe"]
            /\ UNCHANGED retries_left
    /\ UNCHANGED <<job_run_id, calls, posts, sent, serviceVars>>

\* Variant: the budget is looked at before the probe.
GiveUpBeforeProbe(c, why) ==
    /\ pc[c] = "awaiting"
    /\ MayGiveUp(c)
    /\ pc' = [pc EXCEPT ![c] = IF retries_left[c][why] = 0 THEN "exhausted" ELSE "probe"]
    /\ cause' = [cause EXCEPT ![c] = why]
    /\ UNCHANGED <<retries_left, job_run_id, calls, posts, sent, serviceVars>>

\* A client timeout or a 5xx answer: the two except branches that probe.
RunNowAmbiguous(c, why) ==
    /\ pc[c] = "awaiting"
    /\ MayGiveUp(c)
    /\ pc' = [pc EXCEPT ![c] = "probe"]
    /\ cause' = [cause EXCEPT ![c] = why]
    /\ UNCHANGED <<retries_left, job_run_id, calls, posts, sent, serviceVars>>

\* runs/list(active_only, limit 1) names an active run of the job, whoever
\* started it: the call returns it as its own.
ProbeFindsRun(c) ==
    /\ pc[c] = "probe"
    /\ pc' = [pc EXCEPT ![c] = "submitted"]
    /\ \E r \in active : job_run_id' = [job_run_id EXCEPT ![c] = r]
    /\ UNCHANGED <<retries_left, cause, calls, posts, sent, serviceVars>>

\* Variant: the budget is spent and never compared with zero.
RetryForever(c) ==
    /\ pc' = [pc EXCEPT ![c] = "post"]
    /\ retries_left' = [retries_left EXCEPT ![c][cause[c]] = @ - 1]
    /\ UNCHANGED <<cause, job_run_id, calls, posts, sent, serviceVars>>

\* Variant: a 5xx retry is not counted.
RetryUncounted5xx(c) ==
    /\ IF retries_left[c][cause[c]] = 0
       THEN /\ pc' = [pc EXCEPT ![c] = "exhausted"]
            /\ UNCHANGED retries_left
       ELSE /\ pc' = [pc EXCEPT ![c] = "post"]
            /\ retries_left' = [retries_left EXCEPT ![c]["timeout"] =
                                   IF cause[c] = "timeout" THEN @ - 1 ELSE @]
    /\ UNCHANGED <<cause, job_run_id, calls, posts, sent, serviceVars>>

\* Spend the budget of this kind of failure, or raise when it is gone.
RetryOrRaise(c) ==
    /\ IF retries_left[c][cause[c]] = 0
       THEN /\ pc' = [pc EXCEPT ![c] = "exhausted"]
            /\ UNCHANGED retries_left
       ELSE /\ pc' = [pc EXCEPT ![c] = "post"]
            /\ retries_left' = [retries_left EXCEPT ![c][cause[c]] = @ - 1]
    /\ UNCHANGED <<cause, job_run_id, calls, posts, sent, serviceVars>>

ProbeFindsNothing(c) ==
    /\ pc[c] = "probe"
    /\ active = {}
    /\ RetryOrRaise(c)

\* The probe's own error is swallowed and counts as "no active run".
ProbeFails(c) ==
    /\ pc[c] = "probe"
    /\ ProbeMayFail
    /\ RetryOrRaise(c)

Crash(c) ==
    /\ pc[c] \in Busy
    /\ pc' = [pc EXCEPT ![c] = "crashed"]
    /\ UNCHANGED <<retries_left, cause, job_run_id, calls, posts, sent, serviceVars>>

-----------------------------------------------------------------------------
(* The service and its other clients. *)

ApplyRunNow ==
    /\ \E r \in pending : /\ pending' = pending \ {r}
                          /\ active' = active \cup {r}
    /\ UNCHANGED <<callerVars, ended>>

DropRunNow ==
    /\ \E r \in pending : pending' = pending \ {r}
    /\ UNCHANGED <<callerVars, active, ended>>

EndRun ==
    /\ \E r \in active : /\ active' = active \ {r}
                         /\ ended' = ended \cup {r}
    /\ UNCHANGED <<callerVars, pending>>

ForeignRunStarts ==
    /\ \E f \in ForeignRuns \ (active \cup ended) : active' = active \cup {f}
    /\ UNCHANGED <<callerVars, pending, ended>>

-----------------------------------------------------------------------------
CallerStep(c) == \/ SendRunNow(c)
                 \/ RunNowSucceeds(c)
                 \/ RunNowFails(c)
                 \/ \E why \in Cause : RunNowAmbiguous(c, why)
                 \/ ProbeFindsRun(c)
                 \/ ProbeFindsNothing(c)
                 \/ ProbeFails(c)

ServiceStep == ApplyRunNow \/ DropRunNow \/ EndRun \/ ForeignRunStarts

Next == \/ \E c \in Callers : Invoke(c) \/ CallerStep(c) \/ Crash(c)
        \/ ServiceStep

Spec == Init /\ [][Next]_vars

(***************************************************************************)
(* Every HTTP call has a timeout (20 s for run-now, 10 s for runs/list)    *)
(* and the sleeps are finite, so a caller that has not crashed goes on.    *)
(* Nothing is assumed of the service.                                      *)
(***************************************************************************)
FairSpec == Spec /\ \A c \in Callers : WF_vars(CallerStep(c))

-----------------------------------------------------------------------------
TypeOK ==
    /\ pc \in [Callers -> Busy \cup Resting]
    /\ retries_left \in [Callers -> [Cause -> Nat]]
    /\ cause \in [Callers -> Cause \cup {None}]
    /\ job_run_id \in [Callers -> Run \cup {None}]
    /\ calls \in [Callers -> Nat]
    /\ posts \in [Callers -> Nat]
    /\ sent \in [Callers -> Nat]
    /\ pending \in SUBSET Request
    /\ active \in SUBSET Run
    /\ ended \in SUBSET Run
    /\ \A c \in Callers : pc[c] = "probe" => cause[c] \in Cause

(***************************************************************************)
(* The two budgets together pay for every request after the first: a       *)
(* caller mid-call has sent exactly the requests its spent retries account *)
(* for, so one call never sends more than MaxPosts (five as configured),   *)
(* however timeouts and 5xx answers alternate.                             *)
(***************************************************************************)
RetriesPayForPosts ==
    \A c \in Callers :
        /\ posts[c] <= MaxPosts
        /\ pc[c] \in Busy =>
             posts[c] + retries_left[c]["timeout"] + retries_left[c]["5xx"]
               = IF pc[c] = "post" THEN MaxPosts - 1 ELSE MaxPosts

(***************************************************************************)
(* A call that reports "submitted" hands out the id of a run that exists   *)
(* (or existed), and no other outcome hands out an id: neither a failed    *)
(* probe nor a lost answer produces an id out of nothing, and a run        *)
(* adopted by an earlier call is not carried into the next.                *)
(***************************************************************************)
SubmittedIffRunKnown ==
    \A c \in Callers : IF pc[c] = "submitted"
                       THEN job_run_id[c] \in active \cup ended
                       ELSE job_run_id[c] = None

(***************************************************************************)
(* One call never has two of its own runs going at once.  This is what the *)
(* probe before a retry is for; it holds when the probe answers and no     *)
(* request is applied after its client gave it up.                         *)
(***************************************************************************)
NoDuplicateActiveRun ==
    \A c \in Callers : \A r, s \in Own(c) \cap active : r = s

(***************************************************************************)
(* When a call raises "timed out after retries" or "failed with 5xx after  *)
(* retries", none of its requests has left a run going or can still start  *)
(* one: the last ambiguous request was probed too.  Same environment.      *)
(***************************************************************************)
ExhaustedLeavesNothingRunning ==
    \A c \in Callers : pc[c] = "exhausted" => Own(c) \cap (pending \cup active) = {}

\* Every call comes to an end (the process may crash instead).
CallEnds == \A c \in Callers : pc[c] \in Busy ~> pc[c] \in Resting

-----------------------------------------------------------------------------
(* The abstract specification this one implements. *)

Launch == INSTANCE JobLaunch WITH
    Limit <- MaxPosts,
    phase <- [c \in Callers |-> IF pc[c] \in Busy THEN "calling" ELSE "resting"],
    budget <- [c \in Callers |->
                 IF pc[c] \notin Busy THEN 0
                 ELSE retries_left[c]["timeout"] + retries_left[c]["5xx"]
                        + (IF pc[c] = "post" THEN 1 ELSE 0)],
    attempts <- sent,
    runs <- active \cup ended,
    result <- job_run_id

\* run_databricks_job keeps the promises of JobLaunch, whatever the service,
\* the other clients and crashes do.
ImplementsJobLaunch == Launch!Spec
=============================================================================
