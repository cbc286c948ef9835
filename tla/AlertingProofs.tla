---------------------------- MODULE AlertingProofs ----------------------------
(* Proofs about Alerting, for every set of retry settings and every number of calls. *)
EXTENDS Alerting, TLAPS

\* The type invariant holds throughout.
THEOREM TypeCorrect == Spec => []TypeOK
<1>1. Init => TypeOK
  BY DEF Init, TypeOK, Resting
<1>2. TypeOK /\ [Next]_vars => TypeOK'
  <2> SUFFICES ASSUME TypeOK, [Next]_vars PROVE TypeOK'
    OBVIOUS
  <2> USE DEF TypeOK, Busy, Resting
  <2>1. CASE EmitAlert
    BY <2>1, AlertingAssumption DEF EmitAlert
  <2>2. CASE Send
    BY <2>2 DEF Send, Sent, Message
  <2>3. CASE Accepted
    BY <2>3 DEF Accepted, Conclude
  <2>4. CASE PermanentFailure
    BY <2>4 DEF PermanentFailure, Conclude
  <2>5. CASE TransientFailure
    BY <2>5 DEF TransientFailure, Conclude
  <2>6. CASE Crash
    BY <2>6 DEF Crash
  <2>7. CASE Receive
    BY <2>7 DEF Receive
  <2>8. CASE Lose
    BY <2>8 DEF Lose
  <2>9. CASE Tick
    BY <2>9 DEF Tick
  <2>10. CASE UNCHANGED vars
    BY <2>10 DEF vars
  <2> QED BY <2>1, <2>2, <2>3, <2>4, <2>5, <2>6, <2>7, <2>8, <2>9, <2>10 DEF Next, CallStep
<1> QED BY <1>1, <1>2, PTL DEF Spec

-----------------------------------------------------------------------------
(* What the properties need to be inductive. *)

Known == wire \cup inbox

\* A call makes at most max_retries + 1 attempts, and no setting but a valid one counts.
AttemptsInv ==
    /\ pc \in Busy => max_retries \in RetrySettings
    /\ pc = "sending" => attempt <= max_retries
    /\ pc = "awaiting" => attempt <= max_retries + 1

\* Every request bears the number of a call that was made; those of the present
\* call bear its occurredAt.
RequestsInv ==
    \A x \in Known : /\ x.alert <= calls
                     /\ x.alert = calls => x.occurred_at = occurred_at

AlertingInv ==
    /\ TypeOK /\ AttemptsInv /\ RequestsInv
    /\ ReturnedMeansReceived /\ CopiesAreRecognizable /\ TransientMeansAllAttempts

\* Steps of the network and the clock: no request comes into being.
LEMMA QuietStep ==
    ASSUME AlertingInv, TypeOK', Known' \subseteq Known, inbox \subseteq inbox',
           UNCHANGED <<pc, max_retries, attempt, occurred_at, calls>>
    PROVE  AlertingInv'
<1>1. AttemptsInv' /\ TransientMeansAllAttempts'
  BY DEF AlertingInv, AttemptsInv, TransientMeansAllAttempts
<1>2. RequestsInv'
  BY DEF AlertingInv, RequestsInv
<1>3. ReturnedMeansReceived'
  BY DEF AlertingInv, ReturnedMeansReceived, Copies, Known
<1>4. CopiesAreRecognizable'
  BY DEF AlertingInv, CopiesAreRecognizable, Known
<1> QED BY <1>1, <1>2, <1>3, <1>4 DEF AlertingInv

\* An attempt ends, or the process dies: only pc changes.
LEMMA EndOfAttempt ==
    ASSUME AlertingInv, TypeOK', pc \in Busy, pc' # "refused",
           pc' = "sending" => pc = "awaiting" /\ attempt <= max_retries,
           pc' = "transient" => pc = "awaiting" /\ attempt > max_retries,
           pc' = "returned" => Sent \in inbox,
           pc' # "awaiting",
           UNCHANGED <<max_retries, attempt, occurred_at, calls, wire, inbox>>
    PROVE  AlertingInv'
<1>1. AttemptsInv'
  BY DEF AlertingInv, AttemptsInv, Busy
<1>2. TransientMeansAllAttempts'
  <2> SUFFICES ASSUME pc' = "transient" PROVE attempt = max_retries + 1
    BY DEF TransientMeansAllAttempts
  <2>1. attempt > max_retries /\ attempt <= max_retries + 1
    BY DEF AlertingInv, AttemptsInv
  <2>2. attempt \in Nat /\ max_retries \in Nat
    BY AlertingAssumption DEF AlertingInv, TypeOK
  <2> QED BY <2>1, <2>2
<1>3. RequestsInv' /\ CopiesAreRecognizable'
  BY DEF AlertingInv, RequestsInv, CopiesAreRecognizable, Known
<1>4. ReturnedMeansReceived'
  BY DEF AlertingInv, ReturnedMeansReceived, Copies, Sent
<1> QED BY <1>1, <1>2, <1>3, <1>4 DEF AlertingInv

\* A new call has no requests yet.
LEMMA NewCall == AlertingInv /\ TypeOK' /\ EmitAlert => AlertingInv'
<1> SUFFICES ASSUME AlertingInv, TypeOK', EmitAlert PROVE AlertingInv'
  OBVIOUS
<1>1. \A x \in Known' : x \in Known /\ x.alert # calls' /\ x.alert <= calls'
  BY DEF AlertingInv, RequestsInv, Known, EmitAlert, TypeOK, Message
<1>2. AttemptsInv'
  <2>1. max_retries' \in RetrySettings /\ attempt' = 0 /\ pc' # "awaiting"
    BY DEF EmitAlert
  <2>2. max_retries' \in Nat
    BY <2>1, AlertingAssumption
  <2>3. attempt' <= max_retries'
    BY <2>1, <2>2
  <2> QED BY <2>1, <2>3 DEF AttemptsInv
<1>3. RequestsInv'
  BY <1>1 DEF RequestsInv
<1>4. ReturnedMeansReceived'
  BY <1>1 DEF ReturnedMeansReceived, EmitAlert, Known
<1>5. CopiesAreRecognizable'
  BY <1>1 DEF AlertingInv, CopiesAreRecognizable, Known
<1>6. TransientMeansAllAttempts'
  BY DEF TransientMeansAllAttempts, EmitAlert
<1> QED BY <1>2, <1>3, <1>4, <1>5, <1>6 DEF AlertingInv

\* A request bears the number and the occurredAt of its call.
LEMMA NewRequest == AlertingInv /\ TypeOK' /\ Send => AlertingInv'
<1> SUFFICES ASSUME AlertingInv, TypeOK', Send PROVE AlertingInv'
  OBVIOUS
<1> DEFINE new == [Sent EXCEPT !.attempt = attempt']
<1>1. /\ Known' = Known \cup {new} /\ pc = "sending" /\ pc' = "awaiting"
      /\ attempt' = attempt + 1
      /\ UNCHANGED <<max_retries, occurred_at, calls, inbox>>
  BY DEF Send, Known
<1>2. new.alert = calls /\ new.occurred_at = occurred_at /\ new.attempt = attempt + 1
  BY <1>1 DEF Sent
<1>3. attempt \in Nat /\ max_retries \in Nat /\ calls \in Nat
  BY AlertingAssumption DEF AlertingInv, TypeOK
<1>4. attempt + 1 <= max_retries + 1 /\ max_retries \in RetrySettings
  BY <1>1, <1>3 DEF AlertingInv, AttemptsInv, Busy
<1> HIDE DEF new
<1>5. AttemptsInv'
  BY <1>1, <1>4 DEF AttemptsInv
<1>6. RequestsInv'
  BY <1>1, <1>2, <1>3 DEF AlertingInv, RequestsInv
<1>7. ReturnedMeansReceived' /\ TransientMeansAllAttempts'
  BY <1>1 DEF ReturnedMeansReceived, TransientMeansAllAttempts
<1>8. CopiesAreRecognizable'
  <2> SUFFICES ASSUME NEW x \in Known', NEW y \in Known'
               PROVE  /\ x.alert = y.alert => x.occurred_at = y.occurred_at
                      /\ \E retries \in RetrySettings : x.attempt <= retries + 1
    BY DEF CopiesAreRecognizable, Known
  <2>1. \A z \in Known : z.alert = calls => z.occurred_at = occurred_at
    BY DEF AlertingInv, RequestsInv
  <2>2. x.alert = y.alert => x.occurred_at = y.occurred_at
    BY <1>1, <1>2, <2>1 DEF AlertingInv, CopiesAreRecognizable, Known
  <2>3. \E retries \in RetrySettings : x.attempt <= retries + 1
    BY <1>1, <1>2, <1>4 DEF AlertingInv, CopiesAreRecognizable, Known
  <2> QED BY <2>2, <2>3
<1> QED BY <1>5, <1>6, <1>7, <1>8 DEF AlertingInv

\* Every step keeps the invariant.
LEMMA AlertingNext == AlertingInv /\ TypeOK' /\ [Next]_vars => AlertingInv'
<1> SUFFICES ASSUME AlertingInv, TypeOK', [Next]_vars PROVE AlertingInv'
  OBVIOUS
<1>0. attempt \in Nat /\ max_retries \in Nat
  BY AlertingAssumption DEF AlertingInv, TypeOK
<1>1. CASE Accepted
  BY <1>1, EndOfAttempt DEF Accepted, AnsweredByReceiver, Conclude, Busy
<1>2. CASE PermanentFailure
  BY <1>2, EndOfAttempt DEF PermanentFailure, Conclude, Busy
<1>3. CASE TransientFailure
  BY <1>0, <1>3, EndOfAttempt DEF TransientFailure, Conclude, Busy
<1>4. CASE Crash
  BY <1>4, EndOfAttempt DEF Crash, Busy
<1>5. CASE Receive
  BY <1>5, QuietStep DEF Receive, Known
<1>6. CASE Lose
  BY <1>6, QuietStep DEF Lose, Known
<1>7. CASE Tick
  BY <1>7, QuietStep DEF Tick, Known
<1>8. CASE UNCHANGED vars
  BY <1>8, QuietStep DEF vars, Known
<1> QED BY <1>1, <1>2, <1>3, <1>4, <1>5, <1>6, <1>7, <1>8, NewCall, NewRequest
        DEF Next, CallStep

\* The invariant holds throughout.
LEMMA AlertingInvariant == Spec => []AlertingInv
<1>1. Init => TypeOK /\ AttemptsInv /\ RequestsInv
  BY DEF Init, TypeOK, AttemptsInv, RequestsInv, Known, Busy, Resting
<1>2. Init => ReturnedMeansReceived /\ CopiesAreRecognizable /\ TransientMeansAllAttempts
  BY DEF Init, ReturnedMeansReceived, CopiesAreRecognizable, TransientMeansAllAttempts
<1>3. Init => AlertingInv
  BY <1>1, <1>2 DEF AlertingInv
<1> QED BY <1>3, AlertingNext, TypeCorrect, PTL DEF Spec

\* An alert reported as sent was received; a refused one is nowhere.
THEOREM ReturnedAlertsReceived == Spec => []ReturnedMeansReceived
<1>1. AlertingInv => ReturnedMeansReceived
  BY DEF AlertingInv
<1> QED BY <1>1, AlertingInvariant, PTL

\* All copies of an alert bear one occurredAt, and there are no more than allowed.
THEOREM CopiesRecognizable == Spec => []CopiesAreRecognizable
<1>1. AlertingInv => CopiesAreRecognizable
  BY DEF AlertingInv
<1> QED BY <1>1, AlertingInvariant, PTL

\* The transient error is raised after max_retries + 1 attempts, no sooner or later.
THEOREM TransientAfterAllAttempts == Spec => []TransientMeansAllAttempts
<1>1. AlertingInv => TransientMeansAllAttempts
  BY DEF AlertingInv
<1> QED BY <1>1, AlertingInvariant, PTL
=============================================================================
