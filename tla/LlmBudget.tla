------------------------------ MODULE LlmBudget ------------------------------
(***************************************************************************)
(* tools/llm_client.py: invoke_llm charges a logical call to a daily       *)
(* counter in SQLite, then makes up to MaxAttempts HTTP requests for it.   *)
(* Several processes share the counter.  The day is read before the        *)
(* transaction begins; the transaction's INSERT takes SQLite's write lock, *)
(* which is held until the commit (external, as the code uses it).         *)
(***************************************************************************)
EXTENDS Naturals, FiniteSets

CONSTANTS Callers,      \* processes that call invoke_llm
          Caps,         \* values LLM_DAILY_CAP may have; 0: any value that is rejected
          MaxAttempts,  \* len(RETRY_DELAYS_SECONDS) + 1
          MaxCalls,     \* bound on the calls one process makes
          MaxDay,       \* bound on the days
          None

ASSUME BudgetAssumption ==
    /\ Caps \subseteq Nat
    /\ MaxAttempts \in Nat \ {0}
    /\ MaxCalls \in Nat
    /\ MaxDay \in Nat
    /\ None \notin Callers

VARIABLES
    today,          \* the calendar day in KST
    request_count,  \* llm_daily_usage, as committed; 0: no row
    writer,         \* the caller that holds the write lock, or None
    pc, cap, date_key,
    seen,           \* request_count of the caller's day, read by its INSERT
    attempt,        \* HTTP requests of the present call
    calls,          \* calls begun; the k-th call of c is <<c, k>>
    charged         \* history: the calls each day was charged for, with their cap

vars == <<today, request_count, writer, pc, cap, date_key, seen, attempt, calls, charged>>

Days == 0 .. MaxDay
Call(c) == <<c, calls[c]>>
Attempts == 0 .. MaxAttempts
CallNumbers == 0 .. MaxCalls
Calls == Callers \X CallNumbers
Charge == [call : Calls, cap : Caps]
ChargedCalls(d) == {x.call : x \in charged[d]}
ChargedFor(c, d) == \E x \in charged[d] : x.call = Call(c)

Charging == {"keyed", "writing"}
Uncharged == {"idle", "misconfigured", "capped", "db_error"}
Charged == {"requesting", "answered", "rejected", "exhausted"}
Status == Charging \cup Uncharged \cup Charged \cup {"crashed"}
Resting == Status \ {"keyed", "writing", "requesting"}

Init == /\ today = 0
        /\ request_count = [d \in Days |-> 0]
        /\ writer = None
        /\ pc = [c \in Callers |-> "idle"]
        /\ cap = [c \in Callers |-> 0]
        /\ date_key = [c \in Callers |-> 0]
        /\ seen = [c \in Callers |-> 0]
        /\ attempt = [c \in Callers |-> 0]
        /\ calls = [c \in Callers |-> 0]
        /\ charged = [d \in Days |-> {}]

-----------------------------------------------------------------------------
\* The cap is checked first, then the day is read.
Invoke(c) ==
    /\ pc[c] \in Resting
    /\ calls[c] < MaxCalls
    /\ calls' = [calls EXCEPT ![c] = @ + 1]
    /\ \E limit \in Caps :
         /\ cap' = [cap EXCEPT ![c] = limit]
         /\ pc' = [pc EXCEPT ![c] = IF limit = 0 THEN "misconfigured" ELSE "keyed"]
    /\ date_key' = [date_key EXCEPT ![c] = today]
    /\ attempt' = [attempt EXCEPT ![c] = 0]
    /\ UNCHANGED <<today, request_count, writer, seen, charged>>

\* Variant: the count is read before the transaction takes the lock.
InsertUnlocked(c) ==
    /\ pc[c] = "keyed"
    /\ writer' = c
    /\ seen' = [seen EXCEPT ![c] = request_count[date_key[c]]]
    /\ pc' = [pc EXCEPT ![c] = "writing"]
    /\ UNCHANGED <<today, request_count, cap, date_key, attempt, calls, charged>>

\* INSERT ... ON CONFLICT DO UPDATE: waits for the write lock, reads the row.
Insert(c) ==
    /\ pc[c] = "keyed"
    /\ writer = None
    /\ writer' = c
    /\ seen' = [seen EXCEPT ![c] = request_count[date_key[c]]]
    /\ pc' = [pc EXCEPT ![c] = "writing"]
    /\ UNCHANGED <<today, request_count, cap, date_key, attempt, calls, charged>>

\* Variant: "<=" for "<".
UpToCap(c) == seen[c] <= cap[c]

BelowCap(c) == seen[c] < cap[c]

\* Leaving the "with" block commits.  rowcount tells whether the row was
\* changed: if so the call is paid for and its first request goes out.
Commit(c) ==
    /\ pc[c] = "writing"
    /\ writer' = None
    /\ IF BelowCap(c)
       THEN /\ request_count' = [request_count EXCEPT ![date_key[c]] = seen[c] + 1]
            /\ charged' = [charged EXCEPT ![date_key[c]] =
                              @ \cup {[call |-> Call(c), cap |-> cap[c]]}]
            /\ pc' = [pc EXCEPT ![c] = "requesting"]
            /\ attempt' = [attempt EXCEPT ![c] = 1]
       ELSE /\ pc' = [pc EXCEPT ![c] = "capped"]
            /\ UNCHANGED <<request_count, charged, attempt>>
    /\ UNCHANGED <<today, cap, date_key, seen, calls>>

Release(c) == writer' = IF writer = c THEN None ELSE writer

\* Variant: the database error leaves the increment behind.
DbFailsHalfway(c) ==
    /\ pc[c] \in Charging
    /\ Release(c)
    /\ pc' = [pc EXCEPT ![c] = "db_error"]
    /\ request_count' = [request_count EXCEPT ![date_key[c]] =
                            IF pc[c] = "writing" /\ BelowCap(c) THEN @ + 1 ELSE @]
    /\ UNCHANGED <<today, cap, date_key, seen, attempt, calls, charged>>

\* Variant: a database error is ignored and the request goes out.
DbErrorIgnored(c) ==
    /\ pc[c] \in Charging
    /\ Release(c)
    /\ pc' = [pc EXCEPT ![c] = "requesting"]
    /\ UNCHANGED <<today, request_count, cap, date_key, seen, attempt, calls, charged>>

\* "database is locked" or another sqlite3 error, before or at the commit: the
\* transaction is rolled back and the error leaves invoke_llm as it is.
DbFails(c) ==
    /\ pc[c] \in Charging
    /\ Release(c)
    /\ pc' = [pc EXCEPT ![c] = "db_error"]
    /\ UNCHANGED <<today, request_count, cap, date_key, seen, attempt, calls, charged>>

-----------------------------------------------------------------------------
(* The HTTP requests.  Nothing gives the charge back. *)

Finish(c, outcome) ==
    /\ pc[c] = "requesting"
    /\ pc' = [pc EXCEPT ![c] = outcome]
    /\ UNCHANGED <<today, request_count, writer, cap, date_key, seen, attempt, calls, charged>>

\* A 2xx answer that parses.
Answered(c) == Finish(c, "answered")

\* A 4xx status, an answer that does not parse, any other exception.
PermanentFailure(c) == Finish(c, "rejected")

\* Variants: the loop runs once more than there are delays; it starts over.
OneRetryTooMany(c) ==
    /\ pc[c] = "requesting"
    /\ attempt[c] <= MaxAttempts
    /\ attempt' = [attempt EXCEPT ![c] = @ + 1]
    /\ UNCHANGED <<today, request_count, writer, pc, cap, date_key, seen, calls, charged>>

RetryForever(c) ==
    /\ pc[c] = "requesting"
    /\ attempt' = [attempt EXCEPT ![c] = IF @ = MaxAttempts THEN 1 ELSE @ + 1]
    /\ UNCHANGED <<today, request_count, writer, pc, cap, date_key, seen, calls, charged>>

\* A retryable status or a connection error, with attempts left.
TransientFailure(c) ==
    /\ pc[c] = "requesting"
    /\ attempt[c] < MaxAttempts
    /\ attempt' = [attempt EXCEPT ![c] = @ + 1]
    /\ UNCHANGED <<today, request_count, writer, pc, cap, date_key, seen, calls, charged>>

RetriesExhausted(c) == attempt[c] = MaxAttempts /\ Finish(c, "exhausted")

\* The process dies; SQLite rolls back a transaction it had open.
Crash(c) ==
    /\ pc[c] \notin Resting
    /\ Release(c)
    /\ pc' = [pc EXCEPT ![c] = "crashed"]
    /\ UNCHANGED <<today, request_count, cap, date_key, seen, attempt, calls, charged>>

Midnight ==
    /\ today < MaxDay
    /\ today' = today + 1
    /\ UNCHANGED <<request_count, writer, pc, cap, date_key, seen, attempt, calls, charged>>

-----------------------------------------------------------------------------
CallerStep(c) == \/ Insert(c) \/ Commit(c) \/ DbFails(c)
                 \/ Answered(c) \/ PermanentFailure(c)
                 \/ TransientFailure(c) \/ RetriesExhausted(c)

Next == \/ \E c \in Callers : Invoke(c) \/ CallerStep(c) \/ Crash(c)
        \/ Midnight

Spec == Init /\ [][Next]_vars

\* A caller waits at most sqlite3's 5 s for the lock and 60 s for an answer.
FairSpec == Spec /\ \A c \in Callers : WF_vars(CallerStep(c))

-----------------------------------------------------------------------------
TypeOK ==
    /\ today \in Days
    /\ request_count \in [Days -> Nat]
    /\ writer \in Callers \cup {None}
    /\ pc \in [Callers -> Status]
    /\ cap \in [Callers -> Caps \cup {0}]
    /\ date_key \in [Callers -> Days]
    /\ seen \in [Callers -> Nat]
    /\ attempt \in [Callers -> Attempts]
    /\ calls \in [Callers -> CallNumbers]
    /\ charged \in [Days -> SUBSET Charge]

(***************************************************************************)
(* The counter of a day is the number of calls charged to it: concurrent   *)
(* processes lose no charge, and neither a failed or interrupted           *)
(* transaction nor a retried request adds one.                             *)
(***************************************************************************)
CountIsCharges ==
    \A d \in Days : IsFiniteSet(charged[d]) /\ request_count[d] = Cardinality(charged[d])

(***************************************************************************)
(* A day never exceeds the largest cap it was charged under, even when     *)
(* processes are configured with different caps.  (It may exceed the       *)
(* smallest: lowering the cap takes nothing back.)                         *)
(***************************************************************************)
WithinCap ==
    \A d \in Days : request_count[d] > 0 => \E x \in charged[d] : request_count[d] <= x.cap

(***************************************************************************)
(* A call that reached the model was charged exactly once, whatever its    *)
(* number of requests, and on the day it was made, even if it waited for   *)
(* the lock over midnight; a call that was refused was not charged at all. *)
(***************************************************************************)
ChargedIffRequested ==
    \A c \in Callers :
        /\ pc[c] \in Charged => \A d \in Days : ChargedFor(c, d) <=> d = date_key[c]
        /\ pc[c] \in Charging \cup Uncharged => \A d \in Days : ~ChargedFor(c, d)

\* Every call comes to an end (the process may crash instead).
CallEnds == \A c \in Callers : pc[c] \notin Resting ~> pc[c] \in Resting

-----------------------------------------------------------------------------
Quota == INSTANCE DailyQuota WITH
    used <- request_count,
    granted <- [d \in Days |-> ChargedCalls(d)]

\* The transaction makes the charge look atomic, stale days and crashes included.
ImplementsDailyQuota == Quota!Spec
=============================================================================
