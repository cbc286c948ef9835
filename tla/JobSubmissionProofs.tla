------------------------- MODULE JobSubmissionProofs -------------------------
(***************************************************************************)
(* Theorems about JobSubmission, for every number of callers and foreign   *)
(* runs, every pair of retry budgets and any number of calls.              *)
(***************************************************************************)
EXTENDS JobSubmission, TLAPS

USE SubmissionAssumption DEF Cause, Busy, Resting

\* The retries of a new call are naturals, and one more than them are its posts.
LEMMA InitialBudget ==
    /\ InitialRetries \in [Cause -> Nat]
    /\ InitialRetries["timeout"] + InitialRetries["5xx"] = MaxPosts - 1
    /\ MaxPosts \in Nat
  BY DEF InitialRetries, MaxPosts

\* What the checks before the first request may decide.
LEMMA AdmissionCases == AdmissionOutcomes \subseteq {"rejected", "dry_run", "post"}
  BY DEF AdmissionOutcomes, Admission

-----------------------------------------------------------------------------
(* Type correctness. *)

\* The type invariant holds at the start.
LEMMA TypeInit == Init => TypeOK
  BY InitialBudget DEF Init, TypeOK, Run, Request

\* Every step keeps the type invariant.
LEMMA TypeNext == TypeOK /\ [Next]_vars => TypeOK'
<1> SUFFICES ASSUME TypeOK, [Next]_vars PROVE TypeOK'
  OBVIOUS
<1> USE DEF TypeOK
<1>1. ASSUME NEW c \in Callers, Invoke(c) PROVE TypeOK'
  BY <1>1, InitialBudget, AdmissionCases DEF Invoke, serviceVars
<1>2. ASSUME NEW c \in Callers, SendRunNow(c) PROVE TypeOK'
  BY <1>2 DEF SendRunNow, Request
<1>3. ASSUME NEW c \in Callers, RunNowSucceeds(c) PROVE TypeOK'
  BY <1>3 DEF RunNowSucceeds, Current, serviceVars
<1>4. ASSUME NEW c \in Callers, RunNowFails(c) PROVE TypeOK'
  BY <1>4 DEF RunNowFails, serviceVars
<1>5. ASSUME NEW c \in Callers, NEW why \in Cause, RunNowAmbiguous(c, why) PROVE TypeOK'
  BY <1>5 DEF RunNowAmbiguous, serviceVars
<1>6. ASSUME NEW c \in Callers, ProbeFindsRun(c) PROVE TypeOK'
  BY <1>6 DEF ProbeFindsRun, serviceVars
<1>7. ASSUME NEW c \in Callers, pc[c] = "probe", RetryOrRaise(c) PROVE TypeOK'
  <2>1. CASE retries_left[c][cause[c]] = 0
    BY <1>7, <2>1 DEF RetryOrRaise, serviceVars
  <2>2. CASE retries_left[c][cause[c]] # 0
    <3>1. cause[c] \in Cause /\ retries_left[c][cause[c]] - 1 \in Nat
      BY <1>7, <2>2
    <3>2. retries_left' \in [Callers -> [Cause -> Nat]]
      BY <1>7, <2>2, <3>1 DEF RetryOrRaise
    <3>3. QED BY <1>7, <2>2, <3>2 DEF RetryOrRaise, serviceVars
  <2>3. QED BY <2>1, <2>2
<1>8. ASSUME NEW c \in Callers, Crash(c) PROVE TypeOK'
  BY <1>8 DEF Crash, serviceVars
<1>9. CASE ServiceStep
  BY <1>9 DEF ServiceStep, ApplyRunNow, DropRunNow, EndRun, ForeignRunStarts, callerVars, Run
<1>10. CASE UNCHANGED vars
  BY <1>10 DEF vars, callerVars, serviceVars
<1>11. QED
  BY <1>1, <1>2, <1>3, <1>4, <1>5, <1>6, <1>7, <1>8, <1>9, <1>10
     DEF Next, CallerStep, ProbeFindsNothing, ProbeFails

\* Every reachable state is well typed.
THEOREM TypeCorrect == Spec => []TypeOK
<1>1. QED BY TypeInit, TypeNext, PTL DEF Spec

-----------------------------------------------------------------------------
(* One call sends at most MaxPosts requests. *)

\* Every step keeps the books of requests and retries.
LEMMA BudgetNext == TypeOK /\ RetriesPayForPosts /\ [Next]_vars => RetriesPayForPosts'
<1> SUFFICES ASSUME TypeOK, RetriesPayForPosts, [Next]_vars PROVE RetriesPayForPosts'
  OBVIOUS
<1> USE DEF TypeOK, RetriesPayForPosts
<1>1. ASSUME NEW c \in Callers, Invoke(c) PROVE RetriesPayForPosts'
  BY <1>1, InitialBudget, AdmissionCases DEF Invoke
<1>2. ASSUME NEW c \in Callers, SendRunNow(c) PROVE RetriesPayForPosts'
  <2>1. /\ posts' = [posts EXCEPT ![c] = @ + 1]
        /\ pc' = [pc EXCEPT ![c] = "awaiting"]
        /\ retries_left' = retries_left
        /\ pc[c] = "post"
    BY <1>2 DEF SendRunNow
  <2>2. posts[c] + retries_left[c]["timeout"] + retries_left[c]["5xx"] = MaxPosts - 1
    BY <2>1
  <2>3. \A d \in Callers : /\ posts[d] \in Nat
                            /\ retries_left[d]["timeout"] \in Nat
                            /\ retries_left[d]["5xx"] \in Nat
    OBVIOUS
  <2>4. /\ posts'[c] <= MaxPosts
        /\ posts'[c] + retries_left'[c]["timeout"] + retries_left'[c]["5xx"] = MaxPosts
    <3>1. posts'[c] = posts[c] + 1
      BY <2>1
    <3>2. retries_left'[c] = retries_left[c]
      BY <2>1
    <3>3. MaxPosts \in Nat
      BY InitialBudget
    <3> HIDE DEF TypeOK, RetriesPayForPosts
    <3>4. QED BY <3>1, <3>2, <3>3, <2>2, <2>3
  <2>5. \A d \in Callers \ {c} : posts'[d] = posts[d] /\ pc'[d] = pc[d]
    BY <2>1
  <2>6. pc'[c] = "awaiting"
    BY <2>1
  <2>7. ASSUME NEW d \in Callers
        PROVE  /\ posts'[d] <= MaxPosts
               /\ pc'[d] \in Busy =>
                    posts'[d] + retries_left'[d]["timeout"] + retries_left'[d]["5xx"]
                      = IF pc'[d] = "post" THEN MaxPosts - 1 ELSE MaxPosts
    <3>1. CASE d = c
      BY <3>1, <2>4, <2>6
    <3>2. CASE d # c
      BY <3>2, <2>5, <2>1
    <3>3. QED BY <3>1, <3>2
  <2>8. QED BY <2>7
<1>3. ASSUME NEW c \in Callers, RunNowSucceeds(c) PROVE RetriesPayForPosts'
  BY <1>3 DEF RunNowSucceeds
<1>4. ASSUME NEW c \in Callers, RunNowFails(c) PROVE RetriesPayForPosts'
  BY <1>4 DEF RunNowFails
<1>5. ASSUME NEW c \in Callers, NEW why \in Cause, RunNowAmbiguous(c, why)
      PROVE RetriesPayForPosts'
  BY <1>5 DEF RunNowAmbiguous
<1>6. ASSUME NEW c \in Callers, ProbeFindsRun(c) PROVE RetriesPayForPosts'
  BY <1>6 DEF ProbeFindsRun
<1>7. ASSUME NEW c \in Callers, pc[c] = "probe", RetryOrRaise(c) PROVE RetriesPayForPosts'
  <2>1. CASE retries_left[c][cause[c]] = 0
    BY <1>7, <2>1 DEF RetryOrRaise
  <2>2. CASE retries_left[c][cause[c]] # 0
    <3>1. retries_left[c][cause[c]] \in Nat /\ cause[c] \in Cause
      BY <1>7
    <3>2. /\ pc' = [pc EXCEPT ![c] = "post"]
          /\ retries_left' = [retries_left EXCEPT ![c][cause[c]] = @ - 1]
          /\ posts' = posts
      BY <1>7, <2>2 DEF RetryOrRaise
    <3>3. retries_left'[c]["timeout"] + retries_left'[c]["5xx"]
            = retries_left[c]["timeout"] + retries_left[c]["5xx"] - 1
      BY <3>1, <3>2
    <3>4. posts[c] + retries_left[c]["timeout"] + retries_left[c]["5xx"] = MaxPosts
      BY <1>7
    <3>5. posts'[c] + retries_left'[c]["timeout"] + retries_left'[c]["5xx"] = MaxPosts - 1
      BY <3>2, <3>3, <3>4, InitialBudget
    <3>6. \A d \in Callers \ {c} : retries_left'[d] = retries_left[d] /\ pc'[d] = pc[d]
      BY <3>2
    <3>7. QED BY <3>2, <3>5, <3>6
  <2>3. QED BY <2>1, <2>2
<1>8. ASSUME NEW c \in Callers, Crash(c) PROVE RetriesPayForPosts'
  BY <1>8 DEF Crash
<1>9. CASE ServiceStep
  BY <1>9 DEF ServiceStep, ApplyRunNow, DropRunNow, EndRun, ForeignRunStarts, callerVars
<1>10. CASE UNCHANGED vars
  BY <1>10 DEF vars, callerVars
<1>11. QED
  BY <1>1, <1>2, <1>3, <1>4, <1>5, <1>6, <1>7, <1>8, <1>9, <1>10
     DEF Next, CallerStep, ProbeFindsNothing, ProbeFails

\* A call sends at most 1 + MaxTimeoutRetries + Max5xxRetries run-now requests,
\* and its spent retries account for every one of them.
THEOREM PostsBounded == Spec => []RetriesPayForPosts
<1>1. Init => RetriesPayForPosts
  BY InitialBudget DEF Init, RetriesPayForPosts
<1>2. QED BY <1>1, BudgetNext, TypeCorrect, PTL DEF Spec

-----------------------------------------------------------------------------
(* Calls report "submitted" exactly with a run that exists. *)

\* run_databricks_job hands out an id exactly when it reports "submitted", and the
\* id is that of a run that exists.
THEOREM SubmittedRunsExist == Spec => []SubmittedIffRunKnown
<1>1. Init => SubmittedIffRunKnown
  BY DEF Init, SubmittedIffRunKnown
<1>2. TypeOK /\ SubmittedIffRunKnown /\ [Next]_vars => SubmittedIffRunKnown'
  <2> SUFFICES ASSUME TypeOK, SubmittedIffRunKnown, [Next]_vars
               PROVE  SubmittedIffRunKnown'
    OBVIOUS
  <2> USE DEF TypeOK, SubmittedIffRunKnown
  <2>1. ASSUME NEW c \in Callers, Invoke(c) PROVE SubmittedIffRunKnown'
    BY <2>1, AdmissionCases DEF Invoke, serviceVars
  <2>2. ASSUME NEW c \in Callers, SendRunNow(c) PROVE SubmittedIffRunKnown'
    BY <2>2 DEF SendRunNow
  <2>3. ASSUME NEW c \in Callers, RunNowSucceeds(c) PROVE SubmittedIffRunKnown'
    BY <2>3 DEF RunNowSucceeds, serviceVars
  <2>4. ASSUME NEW c \in Callers, RunNowFails(c) PROVE SubmittedIffRunKnown'
    BY <2>4 DEF RunNowFails, serviceVars
  <2>5. ASSUME NEW c \in Callers, NEW why \in Cause, RunNowAmbiguous(c, why)
        PROVE SubmittedIffRunKnown'
    BY <2>5 DEF RunNowAmbiguous, serviceVars
  <2>6. ASSUME NEW c \in Callers, ProbeFindsRun(c) PROVE SubmittedIffRunKnown'
    BY <2>6 DEF ProbeFindsRun, serviceVars
  <2>7. ASSUME NEW c \in Callers, pc[c] = "probe", RetryOrRaise(c)
        PROVE SubmittedIffRunKnown'
    BY <2>7 DEF RetryOrRaise, serviceVars
  <2>8. ASSUME NEW c \in Callers, Crash(c) PROVE SubmittedIffRunKnown'
    BY <2>8 DEF Crash, serviceVars
  <2>9. CASE ServiceStep
    BY <2>9 DEF ServiceStep, ApplyRunNow, DropRunNow, EndRun, ForeignRunStarts, callerVars
  <2>10. CASE UNCHANGED vars
    BY <2>10 DEF vars, callerVars, serviceVars
  <2>11. QED
    BY <2>1, <2>2, <2>3, <2>4, <2>5, <2>6, <2>7, <2>8, <2>9, <2>10
       DEF Next, CallerStep, ProbeFindsNothing, ProbeFails
<1>3. QED BY <1>1, <1>2, TypeCorrect, PTL DEF Spec

-----------------------------------------------------------------------------
(***************************************************************************)
(* The probe before a retry.  The invariant behind NoDuplicateActiveRun:   *)
(* of a call's requests only the last may still be on the wire or running, *)
(* and none is when the call is about to send the next one or has raised   *)
(* because its retries are used up.                                        *)
(***************************************************************************)
Live == pending \cup active

ProbeInv ==
    \A c \in Callers :
        /\ posts[c] <= sent[c]
        /\ Own(c) \cap Live \subseteq {Current(c)}
        /\ pc[c] = "probe" => Current(c) \notin pending
        /\ pc[c] \in {"post", "exhausted"} => Own(c) \cap Live = {}

\* A new call has no requests; sending one adds just that one.
LEMMA OwnGrows ==
    ASSUME TypeOK, NEW c \in Callers
    PROVE  /\ posts'[c] = 0 /\ sent'[c] = sent[c] => Own(c)' = {}
           /\ posts'[c] = posts[c] + 1 /\ sent'[c] = sent[c] + 1
                => Own(c)' \subseteq Own(c) \cup {<<c, sent[c] + 1>>}
           /\ posts'[c] = posts[c] /\ sent'[c] = sent[c] => Own(c)' = Own(c)
<1>1. sent[c] \in Nat /\ posts[c] \in Nat
  BY DEF TypeOK
<1>2. Own(c)' = {<<c, k>> : k \in (sent'[c] - posts'[c] + 1) .. sent'[c]}
  BY DEF Own
<1>3. ASSUME posts'[c] = 0, sent'[c] = sent[c] PROVE Own(c)' = {}
  <2>1. (sent'[c] - posts'[c] + 1) .. sent'[c] = {}
    BY <1>1, <1>3
  <2>2. QED BY <1>2, <2>1
<1>4. ASSUME posts'[c] = posts[c] + 1, sent'[c] = sent[c] + 1
      PROVE  Own(c)' \subseteq Own(c) \cup {<<c, sent[c] + 1>>}
  <2>1. ASSUME NEW k \in (sent'[c] - posts'[c] + 1) .. sent'[c]
        PROVE  k \in (sent[c] - posts[c] + 1) .. sent[c] \/ k = sent[c] + 1
    BY <1>1, <1>4
  <2>2. QED BY <1>2, <2>1 DEF Own
<1>5. ASSUME posts'[c] = posts[c], sent'[c] = sent[c] PROVE Own(c)' = Own(c)
  BY <1>2, <1>5 DEF Own
<1>6. QED BY <1>3, <1>4, <1>5

\* The requests of a call are requests, never foreign runs.
LEMMA OwnIsRequest ==
    ASSUME TypeOK, ProbeInv, NEW c \in Callers
    PROVE  Own(c) \subseteq Request /\ Own(c) \cap ForeignRuns = {}
  BY DEF TypeOK, ProbeInv, Own, Request

\* Every step keeps it, in an environment where the probe always answers.
LEMMA ProbeInvNext ==
    ASSUME ~ProbeMayFail, ~LateApply
    PROVE  TypeOK /\ ProbeInv /\ [Next]_vars => ProbeInv'
<1> SUFFICES ASSUME TypeOK, ProbeInv, [Next]_vars PROVE ProbeInv'
  OBVIOUS
<1>typed. /\ pc \in [Callers -> Busy \cup Resting]
          /\ posts \in [Callers -> Nat]
          /\ sent \in [Callers -> Nat]
  BY DEF TypeOK
<1>1. ASSUME NEW c \in Callers, Invoke(c) PROVE ProbeInv'
  <2>1. posts'[c] = 0 /\ sent' = sent /\ UNCHANGED serviceVars
    BY <1>1, <1>typed DEF Invoke
  <2>2. \A d \in Callers \ {c} : posts'[d] = posts[d] /\ pc'[d] = pc[d]
    BY <1>1, <1>typed DEF Invoke
  <2>3. pc'[c] # "probe"
    BY <1>1, <1>typed, AdmissionCases DEF Invoke
  <2>4. Own(c)' = {}
    BY <2>1, OwnGrows
  <2>5. \A d \in Callers \ {c} : Own(d)' = Own(d)
    BY <2>1, <2>2, OwnGrows
  <2>6. QED
    BY <2>1, <2>2, <2>3, <2>4, <2>5, <1>typed DEF ProbeInv, Current, Live, serviceVars
<1>2. ASSUME NEW c \in Callers, SendRunNow(c) PROVE ProbeInv'
  <2>1. /\ posts'[c] = posts[c] + 1 /\ sent'[c] = sent[c] + 1
        /\ pending' = pending \cup {<<c, sent[c] + 1>>} /\ active' = active
        /\ pc[c] = "post" /\ pc'[c] = "awaiting"
    BY <1>2, <1>typed DEF SendRunNow
  <2>2. \A d \in Callers \ {c} : posts'[d] = posts[d] /\ sent'[d] = sent[d] /\ pc'[d] = pc[d]
    BY <1>2, <1>typed DEF SendRunNow
  <2>3. Own(c)' \subseteq Own(c) \cup {<<c, sent[c] + 1>>}
    BY <2>1, OwnGrows
  <2>4. \A d \in Callers \ {c} : Own(d)' = Own(d) /\ <<c, sent[c] + 1>> \notin Own(d)
    BY <2>2, OwnGrows DEF Own
  <2>5. Own(c) \cap Live = {}
    BY <2>1 DEF ProbeInv
  <2>6. Live' = Live \cup {<<c, sent[c] + 1>>}
    BY <2>1 DEF Live
  <2>7. Current(c)' = <<c, sent[c] + 1>>
    BY <2>1 DEF Current
  <2>8. Own(c)' \cap Live' \subseteq {Current(c)'}
    BY <2>3, <2>5, <2>6, <2>7
  <2>9. ASSUME NEW d \in Callers, d # c
        PROVE  /\ Own(d)' \cap Live' = Own(d) \cap Live
               /\ Current(d)' = Current(d)
               /\ Current(d) \notin pending => Current(d)' \notin pending'
    BY <2>1, <2>2, <2>4, <2>6, <2>9 DEF Current
  <2>10. posts'[c] <= sent'[c]
    BY <2>1, <1>typed DEF ProbeInv
  <2>11. QED
    BY <2>1, <2>2, <2>8, <2>9, <2>10 DEF ProbeInv
\* Steps of a caller that send nothing.
<1>3. ASSUME NEW c \in Callers, posts' = posts, sent' = sent, UNCHANGED serviceVars,
             \A d \in Callers \ {c} : pc'[d] = pc[d],
             pc'[c] = "probe" => Current(c) \notin pending,
             pc'[c] \in {"post", "exhausted"} => Own(c) \cap Live = {}
      PROVE  ProbeInv'
  <2>1. \A d \in Callers : Own(d)' = Own(d) /\ Current(d)' = Current(d)
    BY <1>3, OwnGrows DEF Current
  <2>2. Live' = Live /\ pending' = pending
    BY <1>3 DEF Live, serviceVars
  <2>3. QED BY <1>3, <2>1, <2>2 DEF ProbeInv
<1>4. ASSUME NEW c \in Callers,
             \/ RunNowSucceeds(c) \/ RunNowFails(c) \/ ProbeFindsRun(c) \/ Crash(c)
      PROVE  ProbeInv'
  <2>1. /\ posts' = posts /\ sent' = sent /\ UNCHANGED serviceVars
        /\ pc'[c] \in {"submitted", "failed", "crashed"}
        /\ \A d \in Callers \ {c} : pc'[d] = pc[d]
    BY <1>4, <1>typed DEF RunNowSucceeds, RunNowFails, ProbeFindsRun, Crash
  <2>2. QED BY <1>3, <2>1
<1>5. ASSUME NEW c \in Callers, NEW why \in Cause, RunNowAmbiguous(c, why) PROVE ProbeInv'
  <2>1. /\ posts' = posts /\ sent' = sent /\ UNCHANGED serviceVars
        /\ pc'[c] = "probe" /\ Current(c) \notin pending
        /\ \A d \in Callers \ {c} : pc'[d] = pc[d]
    BY <1>5, <1>typed DEF RunNowAmbiguous, MayGiveUp
  <2>2. QED BY <1>3, <2>1
<1>6. ASSUME NEW c \in Callers, ProbeFindsNothing(c) PROVE ProbeInv'
  <2>1. /\ posts' = posts /\ sent' = sent /\ UNCHANGED serviceVars
        /\ pc'[c] \in {"post", "exhausted"}
        /\ \A d \in Callers \ {c} : pc'[d] = pc[d]
    BY <1>6, <1>typed DEF ProbeFindsNothing, RetryOrRaise
  <2>2. Own(c) \cap Live = {}
    BY <1>6 DEF ProbeFindsNothing, ProbeInv, Live
  <2>3. QED BY <1>3, <2>1, <2>2
<1>7. CASE ServiceStep
  <2>1. UNCHANGED callerVars
    BY <1>7 DEF ServiceStep, ApplyRunNow, DropRunNow, EndRun, ForeignRunStarts
  <2>2. \A c \in Callers : Own(c)' = Own(c) /\ Current(c)' = Current(c)
    BY <2>1, OwnGrows DEF Current, callerVars
  <2>3. pending' \subseteq pending
    BY <1>7 DEF ServiceStep, ApplyRunNow, DropRunNow, EndRun, ForeignRunStarts
  <2>4. Live' \subseteq Live \cup ForeignRuns
    BY <1>7 DEF Live, ServiceStep, ApplyRunNow, DropRunNow, EndRun, ForeignRunStarts
  <2>5. \A c \in Callers : Own(c)' \cap Live' \subseteq Own(c) \cap Live
    BY <2>2, <2>4, OwnIsRequest
  <2>6. QED BY <2>1, <2>2, <2>3, <2>5 DEF ProbeInv, callerVars
<1>8. CASE UNCHANGED vars
  <2>1. \A c \in Callers : Own(c)' = Own(c) /\ Current(c)' = Current(c)
    BY <1>8, OwnGrows DEF Current, vars, callerVars
  <2>2. QED BY <1>8, <2>1 DEF ProbeInv, Live, vars, callerVars, serviceVars
<1>9. QED
  BY <1>1, <1>2, <1>4, <1>5, <1>6, <1>7, <1>8 DEF Next, CallerStep, ProbeFails

\* If the probe answers and no request is applied after its client gave it up,
\* a call never has two of its runs going at once.
THEOREM CleanProbeNoDuplicate ==
    ASSUME ~ProbeMayFail, ~LateApply
    PROVE  Spec => []NoDuplicateActiveRun
<1>1. Init => ProbeInv
  BY DEF Init, ProbeInv, Own, Live, Current
<1>2. ProbeInv => NoDuplicateActiveRun
  BY DEF ProbeInv, NoDuplicateActiveRun, Live
<1>3. QED BY <1>1, <1>2, ProbeInvNext, TypeCorrect, PTL DEF Spec

\* In the same environment, a call that raises after its retries has left no
\* run going and no request that could still start one.
THEOREM CleanProbeExhausted ==
    ASSUME ~ProbeMayFail, ~LateApply
    PROVE  Spec => []ExhaustedLeavesNothingRunning
<1>1. Init => ProbeInv
  BY DEF Init, ProbeInv, Own, Live, Current
<1>2. ProbeInv => ExhaustedLeavesNothingRunning
  BY DEF ProbeInv, ExhaustedLeavesNothingRunning, Live
<1>3. QED BY <1>1, <1>2, ProbeInvNext, TypeCorrect, PTL DEF Spec

-----------------------------------------------------------------------------
(***************************************************************************)
(* JobSubmission implements JobLaunch.                                     *)
(***************************************************************************)

\* Requests on the wire have been sent.
PendingSent == \A r \in pending : \E c \in Callers : \E k \in 1 .. sent[c] : r = <<c, k>>

\* Every step keeps it.
LEMMA PendingSentNext == TypeOK /\ PendingSent /\ [Next]_vars => PendingSent'
<1> SUFFICES ASSUME TypeOK, PendingSent, [Next]_vars PROVE PendingSent'
  OBVIOUS
<1>typed. sent \in [Callers -> Nat]
  BY DEF TypeOK
<1>1. ASSUME NEW c \in Callers, SendRunNow(c) PROVE PendingSent'
  <2>1. \A d \in Callers : 1 .. sent[d] \subseteq 1 .. sent'[d]
    BY <1>1, <1>typed DEF SendRunNow
  <2>2. sent[c] + 1 \in 1 .. sent'[c]
    BY <1>1, <1>typed DEF SendRunNow
  <2>3. pending' = pending \cup {<<c, sent[c] + 1>>}
    BY <1>1 DEF SendRunNow
  <2>4. QED BY <2>1, <2>2, <2>3 DEF PendingSent
<1>2. ASSUME pending' \subseteq pending, sent' = sent PROVE PendingSent'
  BY <1>2 DEF PendingSent
<1>3. CASE ~ \E c \in Callers : SendRunNow(c)
  <2>1. pending' \subseteq pending /\ sent' = sent
    BY <1>3 DEF Next, CallerStep, Invoke, RunNowSucceeds, RunNowFails, RunNowAmbiguous,
                ProbeFindsRun, ProbeFindsNothing, ProbeFails, RetryOrRaise, Crash,
                ServiceStep, ApplyRunNow, DropRunNow, EndRun, ForeignRunStarts,
                vars, callerVars, serviceVars
  <2>2. QED BY <1>2, <2>1
<1>4. QED BY <1>1, <1>3

\* What is on the wire was sent.
LEMMA PendingAlwaysSent == Spec => []PendingSent
<1>1. Init => PendingSent
  BY DEF Init, PendingSent
<1>2. QED BY <1>1, PendingSentNext, TypeCorrect, PTL DEF Spec

\* The variables of JobLaunch, as JobSubmission shows them.
phaseBar == [c \in Callers |-> IF pc[c] \in Busy THEN "calling" ELSE "resting"]
budgetBar == [c \in Callers |->
                IF pc[c] \notin Busy THEN 0
                ELSE retries_left[c]["timeout"] + retries_left[c]["5xx"]
                       + (IF pc[c] = "post" THEN 1 ELSE 0)]
runsBar == active \cup ended

\* Every step is a step of JobLaunch or leaves its variables alone.
LEMMA StepRefines ==
    TypeOK /\ SubmittedIffRunKnown /\ PendingSent /\ [Next]_vars
        => [Launch!Next]_(Launch!vars)
<1> SUFFICES ASSUME TypeOK, SubmittedIffRunKnown, PendingSent, [Next]_vars
             PROVE  Launch!Next \/ UNCHANGED Launch!vars
  BY DEF Launch!vars
<1>typed. /\ pc \in [Callers -> Busy \cup Resting]
          /\ retries_left \in [Callers -> [Cause -> Nat]]
          /\ job_run_id \in [Callers -> Run \cup {None}]
          /\ sent \in [Callers -> Nat]
  BY DEF TypeOK
<1> USE DEF phaseBar, budgetBar, runsBar
\* The step changes nothing JobLaunch can see.
<1>same. ASSUME phaseBar' = phaseBar, budgetBar' = budgetBar, runsBar' = runsBar,
                sent' = sent, job_run_id' = job_run_id
         PROVE  UNCHANGED Launch!vars
  BY <1>same DEF Launch!vars
\* The step ends the call of c.
<1>ends. ASSUME NEW c \in Callers, pc[c] \in Busy,
                phaseBar' = [phaseBar EXCEPT ![c] = "resting"],
                budgetBar' = [budgetBar EXCEPT ![c] = 0],
                runsBar' = runsBar, sent' = sent,
                NEW r \in runsBar \cup {None},
                job_run_id' = [job_run_id EXCEPT ![c] = r]
         PROVE  Launch!Next
  <2>1. Launch!Return(c)
    BY <1>ends DEF Launch!Return
  <2>2. QED BY <2>1 DEF Launch!Next
<1>1. ASSUME NEW c \in Callers, Invoke(c) PROVE Launch!Next
  <2>1. PICK out \in {"rejected", "dry_run", "post"} : pc' = [pc EXCEPT ![c] = out]
    BY <1>1, AdmissionCases DEF Invoke
  <2>2. /\ job_run_id' = [job_run_id EXCEPT ![c] = None]
        /\ retries_left' = [retries_left EXCEPT ![c] = InitialRetries]
        /\ sent' = sent /\ runsBar' = runsBar
        /\ pc[c] \in Resting
    BY <1>1 DEF Invoke, serviceVars
  <2>3. CASE out = "post"
    <3>1. phaseBar' = [phaseBar EXCEPT ![c] = "calling"]
      BY <2>1, <2>3, <1>typed
    <3>2. budgetBar' = [budgetBar EXCEPT ![c] = MaxPosts]
      <4>1. InitialRetries["timeout"] + InitialRetries["5xx"] + 1 = MaxPosts
        <5>1. InitialRetries["timeout"] \in Nat /\ InitialRetries["5xx"] \in Nat
          BY InitialBudget
        <5>2. QED BY <5>1, InitialBudget
      <4>2. pc'[c] = "post" /\ retries_left'[c] = InitialRetries
        BY <2>1, <2>2, <2>3, <1>typed
      <4>3. \A d \in Callers \ {c} : pc'[d] = pc[d] /\ retries_left'[d] = retries_left[d]
        BY <2>1, <2>2, <1>typed
      <4>4. budgetBar'[c] = MaxPosts
        BY <4>1, <4>2
      <4>5. \A d \in Callers \ {c} : budgetBar'[d] = budgetBar[d]
        BY <4>3
      <4>6. QED BY <4>4, <4>5
    <3>3. Launch!Call(c)
      BY <2>2, <3>1, <3>2, <1>typed DEF Launch!Call
    <3>4. QED BY <3>3 DEF Launch!Next
  <2>4. CASE out # "post"
    <3>1. phaseBar' = phaseBar
      BY <2>1, <2>2, <2>4, <1>typed
    <3>2. budgetBar' = budgetBar
      BY <2>1, <2>2, <2>4, <1>typed
    <3>3. Launch!Refuse(c)
      BY <2>2, <3>1, <3>2, <1>typed DEF Launch!Refuse
    <3>4. QED BY <3>3 DEF Launch!Next
  <2>5. QED BY <2>3, <2>4
<1>2. ASSUME NEW c \in Callers, SendRunNow(c) PROVE Launch!Next
  <2>1. /\ pc[c] = "post" /\ pc' = [pc EXCEPT ![c] = "awaiting"]
        /\ sent' = [sent EXCEPT ![c] = @ + 1]
        /\ retries_left' = retries_left
        /\ runsBar' = runsBar /\ job_run_id' = job_run_id
    BY <1>2 DEF SendRunNow
  <2>2. phaseBar' = phaseBar /\ phaseBar[c] = "calling"
    BY <2>1, <1>typed
  <2>3. /\ retries_left[c]["timeout"] \in Nat
        /\ retries_left[c]["5xx"] \in Nat
    BY <1>typed
  <2>4. budgetBar[c] = retries_left[c]["timeout"] + retries_left[c]["5xx"] + 1
    BY <2>1
  <2>5. budgetBar'[c] = retries_left[c]["timeout"] + retries_left[c]["5xx"] + 0
    BY <2>1, <1>typed
  <2>6. budgetBar' = [budgetBar EXCEPT ![c] = @ - 1] /\ budgetBar[c] > 0
    <3>1. budgetBar'[c] = budgetBar[c] - 1 /\ budgetBar[c] > 0
      <4> HIDE DEF budgetBar
      <4>1. QED BY <2>3, <2>4, <2>5
    <3>2. \A d \in Callers \ {c} : budgetBar'[d] = budgetBar[d]
      BY <2>1, <1>typed
    <3>3. QED BY <3>1, <3>2
  <2>7. Launch!Attempt(c)
    BY <2>1, <2>2, <2>6 DEF Launch!Attempt
  <2>8. QED BY <2>7 DEF Launch!Next
<1>3. ASSUME NEW c \in Callers,
             \/ RunNowSucceeds(c) \/ RunNowFails(c) \/ ProbeFindsRun(c) \/ Crash(c)
      PROVE  Launch!Next
  <2>1. /\ pc[c] \in Busy
        /\ \E out \in Resting : pc' = [pc EXCEPT ![c] = out]
        /\ retries_left' = retries_left /\ sent' = sent /\ runsBar' = runsBar
    BY <1>3 DEF RunNowSucceeds, RunNowFails, ProbeFindsRun, Crash, serviceVars
  <2>2. phaseBar' = [phaseBar EXCEPT ![c] = "resting"]
    BY <2>1, <1>typed
  <2>3. budgetBar' = [budgetBar EXCEPT ![c] = 0]
    BY <2>1, <1>typed
  <2>4. job_run_id[c] = None
    BY <2>1 DEF SubmittedIffRunKnown
  <2>5. \E r \in runsBar \cup {None} : job_run_id' = [job_run_id EXCEPT ![c] = r]
    BY <1>3, <2>4, <1>typed DEF RunNowSucceeds, RunNowFails, ProbeFindsRun, Crash
  <2>6. QED BY <1>ends, <2>1, <2>2, <2>3, <2>5
<1>4. ASSUME NEW c \in Callers, NEW why \in Cause, RunNowAmbiguous(c, why)
      PROVE  UNCHANGED Launch!vars
  BY <1>4, <1>same, <1>typed DEF RunNowAmbiguous, serviceVars
<1>5. ASSUME NEW c \in Callers, pc[c] = "probe", RetryOrRaise(c)
      PROVE  Launch!Next \/ UNCHANGED Launch!vars
  <2>1. /\ sent' = sent /\ job_run_id' = job_run_id /\ runsBar' = runsBar
    BY <1>5 DEF RetryOrRaise, serviceVars
  <2>2. CASE retries_left[c][cause[c]] = 0
    <3>1. pc' = [pc EXCEPT ![c] = "exhausted"] /\ retries_left' = retries_left
      BY <1>5, <2>2 DEF RetryOrRaise
    <3>2. phaseBar' = [phaseBar EXCEPT ![c] = "resting"]
      BY <3>1, <1>typed
    <3>3. budgetBar' = [budgetBar EXCEPT ![c] = 0]
      BY <3>1, <1>typed
    <3>4. job_run_id[c] = None
      BY <1>5 DEF SubmittedIffRunKnown
    <3>5. job_run_id' = [job_run_id EXCEPT ![c] = None]
      BY <2>1, <3>4, <1>typed
    <3>6. QED BY <1>ends, <1>5, <2>1, <3>2, <3>3, <3>5
  <2>3. CASE retries_left[c][cause[c]] # 0
    <3>1. /\ pc' = [pc EXCEPT ![c] = "post"]
          /\ retries_left' = [retries_left EXCEPT ![c][cause[c]] = @ - 1]
      BY <1>5, <2>3 DEF RetryOrRaise
    <3>2. phaseBar' = phaseBar
      BY <1>5, <3>1, <1>typed
    <3>3. cause[c] \in Cause
      BY <1>5 DEF TypeOK
    <3>4. retries_left'[c]["timeout"] + retries_left'[c]["5xx"] + 1
            = retries_left[c]["timeout"] + retries_left[c]["5xx"]
      BY <3>1, <3>3, <1>typed
    <3>5. ASSUME NEW d \in Callers PROVE budgetBar'[d] = budgetBar[d]
      BY <1>5, <3>1, <3>4, <1>typed
    <3>6. budgetBar' = budgetBar
      BY <3>5
    <3>7. QED BY <1>same, <2>1, <3>2, <3>6
  <2>4. QED BY <2>2, <2>3
<1>6. CASE ServiceStep
  <2>1. /\ phaseBar' = phaseBar /\ budgetBar' = budgetBar
        /\ sent' = sent /\ job_run_id' = job_run_id
    BY <1>6 DEF ServiceStep, ApplyRunNow, DropRunNow, EndRun, ForeignRunStarts, callerVars
  <2>2. CASE runsBar' = runsBar
    BY <1>same, <2>1, <2>2
  <2>3. CASE ApplyRunNow /\ runsBar' # runsBar
    <3>1. PICK r \in pending : runsBar' = runsBar \cup {r}
      BY <2>3 DEF ApplyRunNow
    <3>2. PICK c \in Callers : \E k \in 1 .. sent[c] : r = <<c, k>>
      BY DEF PendingSent
    <3>3. PICK k \in 1 .. sent[c] : r = <<c, k>>
      BY <3>2
    <3>4. <<c, k>> \notin runsBar
      BY <2>3, <3>1, <3>3
    <3>5. Launch!Launch
      BY <2>1, <3>1, <3>3, <3>4 DEF Launch!Launch
    <3>6. QED BY <3>5 DEF Launch!Next
  <2>4. CASE ForeignRunStarts
    <3>1. Launch!ForeignLaunch
      BY <2>1, <2>4 DEF ForeignRunStarts, Launch!ForeignLaunch
    <3>2. QED BY <3>1 DEF Launch!Next
  <2>5. CASE DropRunNow \/ EndRun
    <3>1. runsBar' = runsBar
      BY <2>5 DEF DropRunNow, EndRun
    <3>2. QED BY <3>1, <2>2
  <2>6. QED BY <1>6, <2>2, <2>3, <2>4, <2>5 DEF ServiceStep
<1>7. CASE UNCHANGED vars
  BY <1>7, <1>same DEF vars, callerVars, serviceVars
<1>8. QED
  BY <1>1, <1>2, <1>3, <1>4, <1>5, <1>6, <1>7
     DEF Next, CallerStep, ProbeFindsNothing, ProbeFails

\* Whatever the service, the other clients and crashes do, run_databricks_job
\* behaves as JobLaunch says.
THEOREM Refinement == Spec => ImplementsJobLaunch
<1>1. Init => Launch!Init
  BY DEF Init, Launch!Init
<1>2. QED
  BY <1>1, StepRefines, TypeCorrect, SubmittedRunsExist, PendingAlwaysSent, PTL
     DEF Spec, ImplementsJobLaunch, Launch!Spec
=============================================================================
