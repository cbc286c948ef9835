--------------------------- MODULE LlmBudgetProofs ---------------------------
(* Proofs about LlmBudget, for every number of callers, caps, calls and days. *)
EXTENDS LlmBudget, FiniteSetTheorems, TLAPS

\* What is left of a step that only ends or repeats HTTP requests.
RequestStep(c) == Answered(c) \/ PermanentFailure(c) \/ TransientFailure(c) \/ RetriesExhausted(c)

\* The statuses, one by one, and the facts about the bounds that typing needs.
LEMMA StatusFacts ==
    /\ Status = {"keyed", "writing", "idle", "misconfigured", "capped", "db_error", "requesting",
                 "answered", "rejected", "exhausted", "crashed"}
    /\ 0 \in Attempts /\ 1 \in Attempts /\ 0 \in CallNumbers /\ 0 \in Days
    /\ CallNumbers \subseteq Nat
  BY BudgetAssumption DEF Status, Charging, Uncharged, Charged, Attempts, CallNumbers, Days

\* The type invariant holds at the start.
LEMMA TypeInit == Init => TypeOK
  BY StatusFacts DEF Init, TypeOK

\* Every step keeps the type invariant.
LEMMA TypeNext == TypeOK /\ [Next]_vars => TypeOK'
<1> SUFFICES ASSUME TypeOK, [Next]_vars PROVE TypeOK'
  OBVIOUS
<1> USE StatusFacts
<1>1. ASSUME NEW c \in Callers, Invoke(c) PROVE TypeOK'
  <2>1. PICK limit \in Caps :
            /\ cap' = [cap EXCEPT ![c] = limit]
            /\ pc' = [pc EXCEPT ![c] = IF limit = 0 THEN "misconfigured" ELSE "keyed"]
    BY <1>1 DEF Invoke
  <2>2. calls[c] + 1 \in CallNumbers
    BY <1>1, BudgetAssumption DEF TypeOK, Invoke, CallNumbers
  <2>3. QED BY <1>1, <2>1, <2>2 DEF TypeOK, Invoke
<1>2. ASSUME NEW c \in Callers, Insert(c) PROVE TypeOK'
  BY <1>2 DEF TypeOK, Insert
<1>3. ASSUME NEW c \in Callers, Commit(c) PROVE TypeOK'
  <2>1. CASE ~BelowCap(c)
    BY <1>3, <2>1 DEF TypeOK, Commit
  <2>2. CASE BelowCap(c)
    <3>1. cap[c] \in Caps
      BY <2>2 DEF TypeOK, BelowCap
    <3>2. [call |-> Call(c), cap |-> cap[c]] \in Charge
      BY <3>1 DEF TypeOK, Charge, Call, Calls
    <3>3. charged' \in [Days -> SUBSET Charge]
      BY <1>3, <2>2, <3>2 DEF TypeOK, Commit
    <3>4. QED BY <1>3, <2>2, <3>3 DEF TypeOK, Commit
  <2>3. QED BY <2>1, <2>2
<1>4. ASSUME NEW c \in Callers, DbFails(c) PROVE TypeOK'
  BY <1>4 DEF TypeOK, DbFails, Release
<1>5. ASSUME NEW c \in Callers, Crash(c) PROVE TypeOK'
  BY <1>5 DEF TypeOK, Crash, Release
<1>6. ASSUME NEW c \in Callers, Answered(c) \/ PermanentFailure(c) \/ RetriesExhausted(c)
      PROVE TypeOK'
  BY <1>6 DEF TypeOK, Answered, PermanentFailure, RetriesExhausted, Finish
<1>7. ASSUME NEW c \in Callers, TransientFailure(c) PROVE TypeOK'
  <2>1. attempt[c] + 1 \in Attempts
    BY <1>7, BudgetAssumption DEF TypeOK, TransientFailure, Attempts
  <2>2. QED BY <1>7, <2>1 DEF TypeOK, TransientFailure
<1>8. CASE Midnight
  BY <1>8, BudgetAssumption DEF TypeOK, Midnight, Days
<1>9. CASE UNCHANGED vars
  BY <1>9 DEF TypeOK, vars
<1>10. QED
  BY <1>1, <1>2, <1>3, <1>4, <1>5, <1>6, <1>7, <1>8, <1>9 DEF Next, CallerStep

\* Type correctness.
THEOREM TypeCorrect == Spec => []TypeOK
  BY TypeInit, TypeNext, PTL DEF Spec

-----------------------------------------------------------------------------
(* The strengthening.  Only the holder of the lock is between its INSERT and *)
(* its commit, and what it read is still the committed count.                *)
Locked == \A c \in Callers : pc[c] = "writing" =>
              writer = c /\ seen[c] = request_count[date_key[c]]

\* No charge names a call that has not begun.
NoFutureCharge == \A d \in Days : \A x \in charged[d] :
                      x.call[2] <= calls[x.call[1]]

BudgetInv == TypeOK /\ Locked /\ NoFutureCharge /\ CountIsCharges /\ WithinCap
                    /\ ChargedIffRequested

\* The steps that change neither the charges nor any call's number, and move no
\* call between those that are charged and those that are not.
LEMMA QuietStep ==
    ASSUME BudgetInv, UNCHANGED <<request_count, charged, calls, date_key>>,
           \A c \in Callers : /\ pc'[c] \in Charged => pc[c] \in Charged
                              /\ pc'[c] \in Charging \cup Uncharged => pc[c] \in Charging \cup Uncharged
    PROVE  NoFutureCharge' /\ CountIsCharges' /\ WithinCap' /\ ChargedIffRequested'
<1>1. NoFutureCharge' /\ CountIsCharges' /\ WithinCap'
  BY DEF BudgetInv, NoFutureCharge, CountIsCharges, WithinCap
<1>2. ChargedIffRequested'
  BY Zenon DEF BudgetInv, ChargedIffRequested, ChargedFor, Call
<1> QED BY <1>1, <1>2

\* The invariant holds at the start.
LEMMA BudgetInit == Init => BudgetInv
<1> SUFFICES ASSUME Init PROVE BudgetInv
  OBVIOUS
<1>1. TypeOK
  BY TypeInit
<1>2. Locked /\ NoFutureCharge /\ WithinCap
  BY SMT DEF Init, Locked, NoFutureCharge, WithinCap
<1>3. CountIsCharges
  BY FS_EmptySet, SMT DEF Init, CountIsCharges
<1>4. ChargedIffRequested
  BY SMT DEF Init, ChargedIffRequested, ChargedFor, Charged
<1> QED BY <1>1, <1>2, <1>3, <1>4 DEF BudgetInv

\* What a charge names.
LEMMA ChargeNames ==
    ASSUME TypeOK, NEW d \in Days, NEW x \in charged[d]
    PROVE  x.call \in Callers \X Nat /\ x.call[1] \in Callers /\ x.call[2] \in Nat
<1>1. x \in Charge
  BY DEF TypeOK
<1>2. x.call \in Callers \X CallNumbers
  BY <1>1 DEF Charge, Calls
<1> QED BY <1>2, StatusFacts

\* Beginning a call: its number is new, so nothing was charged for it.
LEMMA InvokeInv ==
    ASSUME BudgetInv, TypeOK', NEW c \in Callers, Invoke(c) PROVE BudgetInv'
<1> USE DEF BudgetInv
<1>1. Locked'
  BY SMT DEF Locked, Invoke, TypeOK, Resting, Status
<1>2. \A b \in Callers : calls[b] \in Nat
  BY StatusFacts DEF TypeOK
<1>3. NoFutureCharge'
  <2> SUFFICES ASSUME NEW d \in Days, NEW x \in charged[d]
               PROVE x.call[2] <= calls'[x.call[1]]
    BY DEF NoFutureCharge, Invoke
  <2>1. x.call[1] \in Callers /\ x.call[2] \in Nat /\ x.call[2] <= calls[x.call[1]]
    BY ChargeNames DEF NoFutureCharge
  <2> QED BY <1>2, <2>1 DEF Invoke, TypeOK
<1>4. CountIsCharges' /\ WithinCap'
  BY DEF Invoke, CountIsCharges, WithinCap
<1>5. ChargedIffRequested'
  <2>1. ASSUME NEW b \in Callers, b # c
        PROVE /\ pc'[b] = pc[b] /\ date_key'[b] = date_key[b]
              /\ \A d \in Days : ChargedFor(b, d)' <=> ChargedFor(b, d)
    BY <2>1, SMT DEF Invoke, TypeOK, ChargedFor, Call
  <2>2. pc'[c] \in {"keyed", "misconfigured"} /\ calls'[c] = calls[c] + 1
    BY SMT DEF Invoke, TypeOK
  <2>3. ASSUME NEW d \in Days PROVE ~ChargedFor(c, d)'
    <3> SUFFICES ASSUME NEW x \in charged[d], x.call = <<c, calls[c] + 1>> PROVE FALSE
      BY <2>2 DEF ChargedFor, Call, Invoke
    <3>1. calls[c] + 1 <= calls[c]
      BY DEF NoFutureCharge
    <3> QED BY <3>1, <1>2, SMT
  <2> SUFFICES ASSUME NEW b \in Callers
               PROVE /\ pc'[b] \in Charged =>
                          \A d \in Days : ChargedFor(b, d)' <=> d = date_key'[b]
                     /\ pc'[b] \in Charging \cup Uncharged =>
                          \A d \in Days : ~ChargedFor(b, d)'
    BY DEF ChargedIffRequested
  <2>4. CASE b = c
    BY <2>2, <2>3, <2>4 DEF Charged
  <2>5. CASE b # c
    BY <2>1, <2>5 DEF ChargedIffRequested
  <2> QED BY <2>4, <2>5
<1> QED BY <1>1, <1>3, <1>4, <1>5

\* Committing a charge.
LEMMA CommitInv ==
    ASSUME BudgetInv, TypeOK', NEW c \in Callers, Commit(c), BelowCap(c) PROVE BudgetInv'
<1> USE DEF BudgetInv
<1> DEFINE day == date_key[c]
           new == [call |-> Call(c), cap |-> cap[c]]
<1>1. /\ pc[c] = "writing" /\ day \in Days /\ seen[c] = request_count[day] /\ writer = c
      /\ request_count[day] \in Nat /\ cap[c] \in Nat /\ request_count[day] < cap[c]
  <2>1. cap[c] \in Nat
    <3>1. cap[c] \in Caps \cup {0}
      BY Zenon DEF TypeOK
    <3>2. Caps \subseteq Nat
      BY BudgetAssumption, Zenon
    <3>3. 0 \in Nat
      OBVIOUS
    <3> QED BY <3>1, <3>2, <3>3, Zenon
  <2> QED BY <2>1, SMT DEF Commit, Locked, BelowCap, TypeOK
<1>2. /\ request_count' = [request_count EXCEPT ![day] = request_count[day] + 1]
      /\ charged' = [charged EXCEPT ![day] = charged[day] \cup {new}]
      /\ pc' = [pc EXCEPT ![c] = "requesting"]
      /\ UNCHANGED <<calls, date_key, seen>>
      /\ new.call = Call(c) /\ new.cap = cap[c]
  BY <1>1, Zenon DEF Commit
<1> HIDE DEF day, new
<1>3. ASSUME NEW d \in Days PROVE ~ChargedFor(c, d)
  BY <1>1, Zenon DEF ChargedIffRequested, Charging
<1>4. ASSUME NEW d \in Days, NEW x \in charged[d] PROVE x.call # Call(c)
  BY <1>3, <1>4 DEF ChargedFor
<1>5. ASSUME NEW d \in Days PROVE charged'[d] = IF d = day THEN charged[d] \cup {new} ELSE charged[d]
  <2>1. charged \in [Days -> SUBSET Charge]
    BY DEF TypeOK
  <2>2. charged' = [charged EXCEPT ![day] = charged[day] \cup {new}]
    BY <1>2
  <2> QED BY <2>1, <2>2, Zenon
<1>6. Locked'
  <2>1. ASSUME NEW b \in Callers, pc'[b] = "writing" PROVE FALSE
    BY <1>1, <1>2, <2>1, SMT DEF Locked, TypeOK
  <2> QED BY <2>1 DEF Locked
<1>7. NoFutureCharge'
  <2> SUFFICES ASSUME NEW d \in Days, NEW x \in charged'[d]
               PROVE x.call[2] <= calls[x.call[1]]
    BY <1>2 DEF NoFutureCharge
  <2>1. CASE x = new
    <3>1. x.call[1] = c /\ x.call[2] = calls[c]
      BY <1>2, <2>1 DEF Call
    <3>2. calls[c] \in Nat
      BY StatusFacts DEF TypeOK
    <3> QED BY <3>1, <3>2
  <2>2. CASE x # new
    BY <2>2, <1>5 DEF NoFutureCharge
  <2> QED BY <2>1, <2>2
<1>8. CountIsCharges'
  <2> SUFFICES ASSUME NEW d \in Days
               PROVE IsFiniteSet(charged'[d]) /\ request_count'[d] = Cardinality(charged'[d])
    BY DEF CountIsCharges
  <2>1. IsFiniteSet(charged[d]) /\ request_count[d] = Cardinality(charged[d])
    BY DEF CountIsCharges
  <2>2. CASE d # day
    BY <1>2, <1>5, <2>1, <2>2, SMT DEF TypeOK
  <2>3. CASE d = day
    <3>1. new \notin charged[d]
      BY <1>2, <1>4
    <3>2. IsFiniteSet(charged'[d]) /\ Cardinality(charged'[d]) = Cardinality(charged[d]) + 1
      <4>1. charged'[d] = charged[d] \cup {new}
        BY <1>5, <2>3
      <4>2. /\ IsFiniteSet(charged[d] \cup {new})
            /\ Cardinality(charged[d] \cup {new}) = Cardinality(charged[d]) + 1
        BY <2>1, <3>1, FS_AddElement
      <4> QED BY <4>1, <4>2
    <3>3. request_count'[d] = request_count[d] + 1
      BY <1>2, <2>3, SMT DEF TypeOK
    <3> QED BY <2>1, <3>2, <3>3
  <2> QED BY <2>2, <2>3
<1>9. WithinCap'
  <2> SUFFICES ASSUME NEW d \in Days, request_count'[d] > 0
               PROVE \E x \in charged'[d] : request_count'[d] <= x.cap
    BY DEF WithinCap
  <2>1. CASE d # day
    BY <1>2, <1>5, <2>1, SMT DEF WithinCap, TypeOK
  <2>2. CASE d = day
    <3>1. new \in charged'[d]
      BY <1>5, <2>2
    <3>2. request_count'[d] <= new.cap
      BY <1>1, <1>2, <2>2, SMT DEF TypeOK
    <3> QED BY <3>1, <3>2
  <2> QED BY <2>1, <2>2
<1>10. ChargedIffRequested'
  <2>1. ASSUME NEW b \in Callers, b # c, NEW d \in Days
        PROVE ChargedFor(b, d)' <=> ChargedFor(b, d)
    <3>1. new.call # Call(b)
      BY <1>2, <2>1 DEF Call
    <3>2. CASE d = day
      BY <1>2, <1>5, <3>1, <3>2 DEF ChargedFor, Call
    <3>3. CASE d # day
      BY <1>2, <1>5, <3>3 DEF ChargedFor, Call
    <3> QED BY <3>2, <3>3
  <2>2. ASSUME NEW d \in Days PROVE ChargedFor(c, d)' <=> d = day
    <3>1. CASE d = day
      <4>1. new \in charged'[d] /\ new.call = Call(c)
        BY <1>2, <1>5, <3>1
      <4> QED BY <1>2, <3>1, <4>1 DEF ChargedFor, Call
    <3>2. CASE d # day
      BY <1>2, <1>3, <1>5, <3>2 DEF ChargedFor, Call
    <3> QED BY <3>1, <3>2
  <2>3. ASSUME NEW b \in Callers, b # c PROVE pc'[b] = pc[b]
    BY <1>2, <2>3, SMT DEF TypeOK
  <2>4. pc'[c] = "requesting"
    BY <1>2, SMT DEF TypeOK
  <2> SUFFICES ASSUME NEW b \in Callers
               PROVE /\ pc'[b] \in Charged =>
                          \A d \in Days : ChargedFor(b, d)' <=> d = date_key'[b]
                     /\ pc'[b] \in Charging \cup Uncharged =>
                          \A d \in Days : ~ChargedFor(b, d)'
    BY DEF ChargedIffRequested
  <2>5. CASE b = c
    BY <1>2, <2>2, <2>4, <2>5 DEF Charging, Uncharged, day
  <2>6. CASE b # c
    BY <1>2, <2>1, <2>3, <2>6 DEF ChargedIffRequested
  <2> QED BY <2>5, <2>6
<1> QED BY <1>6, <1>7, <1>8, <1>9, <1>10

\* Every step keeps the invariant.
LEMMA BudgetNext == BudgetInv /\ [Next]_vars => BudgetInv'
<1> SUFFICES ASSUME BudgetInv, [Next]_vars PROVE BudgetInv'
  OBVIOUS
<1>0. TypeOK'
  BY TypeNext DEF BudgetInv
<1>1. ASSUME NEW c \in Callers, Invoke(c) PROVE BudgetInv'
  BY <1>0, <1>1, InvokeInv
<1>2. ASSUME NEW c \in Callers, Insert(c) PROVE BudgetInv'
  <2>1. Locked'
    BY <1>2, BudgetAssumption, SMT DEF BudgetInv, Locked, Insert, TypeOK
  <2>2. \A b \in Callers : /\ pc'[b] \in Charged => pc[b] \in Charged
                           /\ pc'[b] \in Charging \cup Uncharged => pc[b] \in Charging \cup Uncharged
    BY <1>2, SMT DEF BudgetInv, Insert, TypeOK, Charged, Charging, Uncharged
  <2> QED BY <1>0, <1>2, <2>1, <2>2, QuietStep DEF BudgetInv, Insert
<1>3. ASSUME NEW c \in Callers, Commit(c) PROVE BudgetInv'
  <2>1. CASE BelowCap(c)
    BY <1>0, <1>3, <2>1, CommitInv
  <2>2. CASE ~BelowCap(c)
    <3>1. Locked'
      BY <1>3, <2>2, SMT DEF BudgetInv, Locked, Commit, TypeOK
    <3>2. \A b \in Callers : /\ pc'[b] \in Charged => pc[b] \in Charged
                             /\ pc'[b] \in Charging \cup Uncharged => pc[b] \in Charging \cup Uncharged
      BY <1>3, <2>2, SMT DEF BudgetInv, Commit, TypeOK, Charged, Charging, Uncharged
    <3> QED BY <1>0, <1>3, <2>2, <3>1, <3>2, QuietStep DEF BudgetInv, Commit
  <2> QED BY <2>1, <2>2
<1>4. ASSUME NEW c \in Callers, DbFails(c) \/ Crash(c) PROVE BudgetInv'
  <2>1. Locked'
    BY <1>4, SMT DEF BudgetInv, Locked, DbFails, Crash, Release, TypeOK
  <2>2. \A b \in Callers : /\ pc'[b] \in Charged => pc[b] \in Charged
                           /\ pc'[b] \in Charging \cup Uncharged => pc[b] \in Charging \cup Uncharged
    BY <1>4, SMT DEF BudgetInv, DbFails, Crash, TypeOK, Charged, Charging, Uncharged
  <2> QED BY <1>0, <1>4, <2>1, <2>2, QuietStep DEF BudgetInv, DbFails, Crash
<1>5. ASSUME NEW c \in Callers, RequestStep(c) PROVE BudgetInv'
  <2> USE <1>5 DEF RequestStep, Answered, PermanentFailure, TransientFailure, RetriesExhausted,
                   Finish
  <2>1. Locked'
    BY SMT DEF BudgetInv, Locked, TypeOK
  <2>2. \A b \in Callers : /\ pc'[b] \in Charged => pc[b] \in Charged
                           /\ pc'[b] \in Charging \cup Uncharged => pc[b] \in Charging \cup Uncharged
    BY SMT DEF BudgetInv, TypeOK, Charged, Charging, Uncharged
  <2> QED BY <1>0, <2>1, <2>2, QuietStep DEF BudgetInv
<1>6. CASE Midnight \/ UNCHANGED vars
  <2>1. Locked'
    BY <1>6, Zenon DEF BudgetInv, Locked, Midnight, vars
  <2> QED BY <1>0, <1>6, <2>1, QuietStep DEF BudgetInv, Midnight, vars
<1> QED BY <1>1, <1>2, <1>3, <1>4, <1>5, <1>6 DEF Next, CallerStep, RequestStep

\* The invariant holds throughout.
LEMMA BudgetInvariant == Spec => []BudgetInv
  BY BudgetInit, BudgetNext, PTL DEF Spec

\* No charge is lost and none is made up, for any number of processes.
THEOREM ChargesCounted == Spec => []CountIsCharges
<1>1. BudgetInv => CountIsCharges
  BY DEF BudgetInv
<1> QED BY <1>1, BudgetInvariant, PTL

\* A day's count stays within a cap it was charged under.
THEOREM CapHolds == Spec => []WithinCap
<1>1. BudgetInv => WithinCap
  BY DEF BudgetInv
<1> QED BY <1>1, BudgetInvariant, PTL

\* A call reaches the model exactly if it was charged, once, on the day it was made.
THEOREM ChargedOnce == Spec => []ChargedIffRequested
<1>1. BudgetInv => ChargedIffRequested
  BY DEF BudgetInv
<1> QED BY <1>1, BudgetInvariant, PTL

-----------------------------------------------------------------------------
\* A step that charges is a grant of the quota; every other step stutters.
LEMMA StepGrants == BudgetInv /\ BudgetInv' /\ [Next]_vars => [Quota!Next]_(Quota!vars)
<1> SUFFICES ASSUME BudgetInv, BudgetInv', [Next]_vars PROVE [Quota!Next]_(Quota!vars)
  OBVIOUS
<1>1. CASE UNCHANGED <<request_count, charged>>
  BY <1>1 DEF Quota!vars, ChargedCalls
<1>2. ASSUME NEW c \in Callers, Commit(c), BelowCap(c) PROVE Quota!Next
  <2> DEFINE day == date_key[c]
             new == [call |-> Call(c), cap |-> cap[c]]
  <2>1. /\ pc[c] = "writing" /\ day \in Days /\ seen[c] = request_count[day]
        /\ request_count[day] < cap[c] /\ cap[c] \in Caps
    BY <1>2, BudgetAssumption, SMT DEF BudgetInv, Commit, Locked, BelowCap, TypeOK
  <2>2. Call(c) \in Calls
    BY DEF BudgetInv, TypeOK, Call, Calls
  <2>3. \A e \in Days : Call(c) \notin ChargedCalls(e)
    <3>1. \A e \in Days : ~ChargedFor(c, e)
      BY <2>1, Zenon DEF BudgetInv, ChargedIffRequested, Charging
    <3> QED BY <3>1, Zenon DEF ChargedFor, ChargedCalls
  <2>4. request_count' = [request_count EXCEPT ![day] = request_count[day] + 1]
    BY <1>2, <2>1, Zenon DEF Commit
  <2>5. ASSUME NEW d \in Days
        PROVE ChargedCalls(d)' = IF d = day THEN ChargedCalls(d) \cup {Call(c)} ELSE ChargedCalls(d)
    <3>1. charged'[d] = IF d = day THEN charged[d] \cup {new} ELSE charged[d]
      BY <1>2, SMT DEF Commit, BudgetInv, TypeOK
    <3>2. ChargedCalls(d)' = {x.call : x \in charged'[d]}
      BY DEF ChargedCalls
    <3>3. new.call = Call(c)
      OBVIOUS
    <3>4. CASE d = day
      BY <3>1, <3>2, <3>3, <3>4, Zenon DEF ChargedCalls
    <3>5. CASE d # day
      BY <3>1, <3>2, <3>5 DEF ChargedCalls
    <3> QED BY <3>4, <3>5
  <2>6. [d \in Days |-> ChargedCalls(d)]'
          = [[d \in Days |-> ChargedCalls(d)] EXCEPT ![day] = @ \cup {Call(c)}]
    BY <2>1, <2>5
  <2>7. Quota!Grant(day, Call(c), cap[c])
    BY <2>1, <2>3, <2>4, <2>6 DEF Quota!Grant
  <2> QED BY <2>1, <2>2, <2>7 DEF Quota!Next
<1>3. UNCHANGED <<request_count, charged>> \/ \E c \in Callers : Commit(c) /\ BelowCap(c)
  BY Zenon DEF Next, vars, CallerStep, Invoke, Insert, Commit, DbFails, Answered, PermanentFailure,
         TransientFailure, RetriesExhausted, Finish, Crash, Midnight
<1> QED BY <1>1, <1>2, <1>3

\* LlmBudget implements DailyQuota.
THEOREM Refinement == Spec => ImplementsDailyQuota
<1>1. Init => Quota!Init
  BY SMT DEF Init, Quota!Init, ChargedCalls
<1> QED BY <1>1, StepGrants, BudgetInvariant, PTL DEF Spec, ImplementsDailyQuota, Quota!Spec
=============================================================================
