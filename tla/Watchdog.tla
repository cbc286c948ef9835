------------------------------- MODULE Watchdog -------------------------------
(***************************************************************************)
(* runtime/watchdog.py: run_once picks the pipelines to poll from the      *)
(* clock.  A scheduler (external: a job that runs every few minutes)       *)
(* starts it, some minutes late at times; nothing is kept between runs.    *)
(*                                                                         *)
(* Time is in minutes.  Clock times of the configuration are minutes of a  *)
(* day in KST, which is KstOffset ahead of UTC.                            *)
(***************************************************************************)
EXTENDS Integers

CONSTANTS Day, Hour,    \* their lengths
          KstOffset,    \* a whole number of hours
          Period,       \* of the scheduler
          MaxDelay,     \* how late a run may start
          PollEvery,    \* pipeline_a.poll_every_minutes
          PollAfter,    \* [daily pipelines -> minute of the day]: poll_after_kst
          Targets,      \* TARGET_PIPELINES; may name unknown pipelines
          MaxTime,      \* bound on the clock
          Never

ASSUME WatchdogAssumption ==
    /\ Day \in Nat \ {0} /\ Hour \in Nat \ {0} /\ Period \in Nat \ {0}
    /\ PollEvery \in Nat \ {0}
    /\ KstOffset \in Nat /\ KstOffset % Hour = 0
    /\ MaxDelay \in Nat /\ MaxTime \in Nat
    /\ PollAfter \in [DOMAIN PollAfter -> 0 .. Day - 1]
    /\ "pipeline_a" \notin DOMAIN PollAfter
    /\ Never \notin Nat

VARIABLES
    now,       \* UTC
    due,       \* when the scheduler starts the next run, if it is not late
    deployed,  \* when the first run was due
    polled,    \* what the last run polled, or Never
    polled_on  \* history: the day (in KST) each daily pipeline was last polled

vars == <<now, due, deployed, polled, polled_on>>

Daily == DOMAIN PollAfter

\* Variant: the clock is read in UTC.
HhmmUtc(t) == t % Day

\* now_utc.astimezone(KST).strftime("%H:%M")
Hhmm(t) == (t + KstOffset) % Day
Today(t) == (t + KstOffset) \div Day

IsMicrobatchPollDue(t) == (t % Hour) % PollEvery = 0
IsDailyBatchPollDue(p, t) == Hhmm(t) >= PollAfter[p]

\* Variant: an unknown target is polled like any other.
UnknownPolledToo(t) ==
    {p \in Targets : CASE p = "pipeline_a" -> IsMicrobatchPollDue(t)
                       [] p \in Daily      -> IsDailyBatchPollDue(p, t)
                       [] OTHER            -> TRUE}

\* An unknown target is skipped.
PipelinesToPoll(t) ==
    {p \in Targets : \/ p = "pipeline_a" /\ IsMicrobatchPollDue(t)
                     \/ p \in Daily /\ IsDailyBatchPollDue(p, t)}

Init == /\ deployed \in {t \in 0 .. Day - 1 : t % Period = 0}
        /\ due = deployed
        /\ now = deployed
        /\ polled = Never
        /\ polled_on = [p \in Daily |-> Never]

RunOnce ==
    /\ now >= due
    /\ due' = due + Period
    /\ polled' = PipelinesToPoll(now)
    /\ polled_on' = [p \in Daily |-> IF p \in PipelinesToPoll(now) THEN Today(now)
                                     ELSE polled_on[p]]
    /\ UNCHANGED <<now, deployed>>

\* Time passes, but a run is never later than MaxDelay.
Tick ==
    /\ now < MaxTime
    /\ now < due + MaxDelay
    /\ now' = now + 1
    /\ UNCHANGED <<due, deployed, polled, polled_on>>

Next == RunOnce \/ Tick

Spec == Init /\ [][Next]_vars

-----------------------------------------------------------------------------
TypeOK ==
    /\ now \in Nat
    /\ due \in Nat
    /\ deployed \in Nat
    /\ polled \in {Never} \cup (SUBSET (Daily \cup {"pipeline_a"}))
    /\ polled_on \in [Daily -> Nat \cup {Never}]

(***************************************************************************)
(* Every day in KST, each daily pipeline that is a target has been polled  *)
(* one scheduler period (and its delay) after poll_after_kst, whatever the *)
(* time in UTC, the other targets and the delays of earlier runs.          *)
(***************************************************************************)
PolledInTime ==
    \A p \in Daily \cap Targets :
        (/\ Hhmm(now) > PollAfter[p] + Period + MaxDelay
         /\ now - (Hhmm(now) - PollAfter[p]) >= deployed)
            => polled_on[p] = Today(now)

\* pipeline_a is checked in every cycle of the watchdog.
MicrobatchEveryCycle ==
    polled # Never /\ "pipeline_a" \in Targets => "pipeline_a" \in polled
=============================================================================
