------------------------------- MODULE Alerting -------------------------------
(***************************************************************************)
(* tools/alerting.py: emit_alert posts one event and retries what it takes *)
(* for a transient failure, at once and with the same body.                *)
(*                                                                         *)
(* The receiver and the network are modelled from how the code uses them:  *)
(* a request on the wire is received or lost at any time, whatever the     *)
(* sender has been told of it.                                             *)
(***************************************************************************)
EXTENDS Integers

CONSTANTS RetrySettings,  \* values ALERTING_MAX_RETRIES may have that are accepted
          MaxCalls,       \* bound on the calls of emit_alert
          MaxTime         \* bound on the clock

ASSUME AlertingAssumption ==
    /\ RetrySettings \subseteq Nat
    /\ MaxCalls \in Nat
    /\ MaxTime \in Nat

VARIABLES
    now,          \* the clock
    pc, max_retries,
    attempt,      \* requests sent by the present call
    occurred_at,  \* occurredAt in the body of the present call
    calls,        \* calls made; numbers the alerts
    wire,         \* requests neither received nor lost
    inbox         \* requests received

vars == <<now, pc, max_retries, attempt, occurred_at, calls, wire, inbox>>

Busy == {"sending", "awaiting"}
Resting == {"idle", "refused", "returned", "transient", "permanent", "crashed"}
Message == [alert : Nat, attempt : Nat, occurred_at : Nat]
Copies(alert) == {x \in inbox : x.alert = alert}
Sent == [alert |-> calls, attempt |-> attempt, occurred_at |-> occurred_at]

Init == /\ now = 0
        /\ pc = "idle" /\ max_retries = 0 /\ attempt = 0 /\ occurred_at = 0 /\ calls = 0
        /\ wire = {} /\ inbox = {}

-----------------------------------------------------------------------------
\* Variant: a negative retry count is accepted; the loop then makes no attempt
\* and the function returns.
EmitWithAnyCount ==
    /\ pc \in Resting
    /\ calls < MaxCalls
    /\ calls' = calls + 1
    /\ max_retries' \in RetrySettings \cup {-1}
    /\ pc' \in IF max_retries' < 0 THEN {"returned"} ELSE {"sending", "refused"}
    /\ occurred_at' = now
    /\ attempt' = 0
    /\ UNCHANGED <<now, wire, inbox>>

\* The settings are checked and the body is serialized, once.  "refused": a bad
\* timeout or retry count, a missing endpoint, a detail JSON cannot express.
EmitAlert ==
    /\ pc \in Resting
    /\ calls < MaxCalls
    /\ calls' = calls + 1
    /\ pc' \in {"sending", "refused"}
    /\ max_retries' \in RetrySettings
    /\ occurred_at' = now
    /\ attempt' = 0
    /\ UNCHANGED <<now, wire, inbox>>

\* Variant: the body is serialized again for every attempt.
SendFreshBody ==
    /\ pc = "sending"
    /\ pc' = "awaiting"
    /\ attempt' = attempt + 1
    /\ occurred_at' = now
    /\ wire' = wire \cup {[Sent EXCEPT !.attempt = attempt', !.occurred_at = now]}
    /\ UNCHANGED <<now, max_retries, calls, inbox>>

Send ==
    /\ pc = "sending"
    /\ pc' = "awaiting"
    /\ attempt' = attempt + 1
    /\ wire' = wire \cup {[Sent EXCEPT !.attempt = attempt']}
    /\ UNCHANGED <<now, max_retries, occurred_at, calls, inbox>>

\* Variant: the request has no timeout, so its fate is known when it ends.
ConcludeSettled(outcome) ==
    /\ pc = "awaiting"
    /\ Sent \notin wire
    /\ pc' = outcome
    /\ UNCHANGED <<now, max_retries, attempt, occurred_at, calls, wire, inbox>>

\* The attempt ends, one way or another.
Conclude(outcome) ==
    /\ pc = "awaiting"
    /\ pc' = outcome
    /\ UNCHANGED <<now, max_retries, attempt, occurred_at, calls, wire, inbox>>

\* Variant: any answer that is not an exception is a success.
AnyAnswer == TRUE

\* A success is an answer to this very request.
AnsweredByReceiver == Sent \in inbox

\* A 2xx answer, or an answer without a status.
Accepted == AnsweredByReceiver /\ Conclude("returned")

\* Another status, or an exception that is neither of a transient type nor has
\* one of the transient markers in its text.
PermanentFailure == Conclude("permanent")

\* Variant: the last attempt is counted twice.
GivesUpEarly ==
    Conclude(IF attempt + 1 <= max_retries THEN "sending" ELSE "transient")

\* 408, 429, 5xx, a timeout, a broken connection: retried while attempts are
\* left, whether or not the request was received.
TransientFailure ==
    Conclude(IF attempt <= max_retries THEN "sending" ELSE "transient")

Crash ==
    /\ pc \in Busy
    /\ pc' = "crashed"
    /\ UNCHANGED <<now, max_retries, attempt, occurred_at, calls, wire, inbox>>

-----------------------------------------------------------------------------
(* The network, the receiver and the clock. *)

Receive ==
    /\ \E x \in wire : wire' = wire \ {x} /\ inbox' = inbox \cup {x}
    /\ UNCHANGED <<now, pc, max_retries, attempt, occurred_at, calls>>

Lose ==
    /\ \E x \in wire : wire' = wire \ {x}
    /\ UNCHANGED <<now, pc, max_retries, attempt, occurred_at, calls, inbox>>

Tick ==
    /\ now < MaxTime
    /\ now' = now + 1
    /\ UNCHANGED <<pc, max_retries, attempt, occurred_at, calls, wire, inbox>>

-----------------------------------------------------------------------------
CallStep == Send \/ Accepted \/ PermanentFailure \/ TransientFailure

Next == EmitAlert \/ CallStep \/ Crash \/ Receive \/ Lose \/ Tick

Spec == Init /\ [][Next]_vars

\* The request has a timeout (5 s unless configured otherwise), so an attempt
\* ends; nothing is assumed of the receiver.
FairSpec == Spec /\ WF_vars(CallStep)

-----------------------------------------------------------------------------
TypeOK ==
    /\ now \in Nat
    /\ pc \in Busy \cup Resting
    /\ max_retries \in RetrySettings \cup {0}
    /\ attempt \in Nat
    /\ occurred_at \in Nat
    /\ calls \in Nat
    /\ wire \subseteq Message
    /\ inbox \subseteq Message

(***************************************************************************)
(* An alert that emit_alert reports as sent was received; one that it      *)
(* refused, because of its settings, is nowhere.                           *)
(***************************************************************************)
ReturnedMeansReceived ==
    /\ pc = "returned" => Copies(calls) # {}
    /\ pc = "refused" => \A x \in wire \cup inbox : x.alert # calls

(***************************************************************************)
(* Retries may make the receiver see an alert several times, also after    *)
(* later alerts.  All its copies bear the same occurredAt, so they can be  *)
(* told from a new alert, and there are never more than the attempts a     *)
(* setting allows.                                                         *)
(***************************************************************************)
CopiesAreRecognizable ==
    \A x, y \in wire \cup inbox :
        /\ x.alert = y.alert => x.occurred_at = y.occurred_at
        /\ \E retries \in RetrySettings : x.attempt <= retries + 1

\* The transient error is raised only when every attempt was made: no sooner,
\* and no later.
TransientMeansAllAttempts == pc = "transient" => attempt = max_retries + 1

\* Every call comes to an end (the process may crash instead).
CallEnds == pc \in Busy ~> pc \in Resting
=============================================================================
