---------------------------- MODULE WatchdogProofs ----------------------------
(* Proofs about Watchdog, for every length of a day, period, delay and configuration. *)
EXTENDS Watchdog, TLAPS

\* The bounds as numbers, and what a configured time is.
LEMMA Numbers ==
    /\ Day \in Nat /\ Day > 0 /\ Period \in Nat /\ Period > 0
    /\ KstOffset \in Nat /\ MaxDelay \in Nat
    /\ \A p \in Daily : PollAfter[p] \in Nat /\ PollAfter[p] < Day
    /\ "pipeline_a" \notin Daily
  BY WatchdogAssumption DEF Daily

\* The day and the minute of the day of a time, and the only day that fits a time.
LEMMA DayAndMinute ==
    ASSUME NEW t \in Nat
    PROVE  /\ Today(t) \in Nat /\ Hhmm(t) \in Nat /\ Hhmm(t) < Day
           /\ t + KstOffset = Day * Today(t) + Hhmm(t)
  BY Numbers DEF Today, Hhmm

LEMMA OnlyDay ==
    ASSUME NEW t \in Nat, NEW d \in Nat, NEW h \in Nat,
           Day * d + h <= t + KstOffset, t + KstOffset < Day * d + Day
    PROVE  Today(t) = d /\ Hhmm(t) >= h
<1> DEFINE e == Today(t)
           m == Hhmm(t)
<1>1. /\ e \in Nat /\ m \in Nat /\ m < Day /\ t + KstOffset = Day * e + m
  BY DayAndMinute
<1> HIDE DEF e, m
<1>2. ASSUME e < d PROVE FALSE
  <2>1. Day * (e + 1) <= Day * d
    BY <1>1, <1>2, Numbers
  <2>2. Day * (e + 1) = Day * e + Day
    BY <1>1, Numbers
  <2>3. Day * e \in Nat /\ Day * d \in Nat
    BY <1>1, Numbers
  <2> QED BY <1>1, <2>1, <2>2, <2>3, Numbers
<1>3. ASSUME e > d PROVE FALSE
  <2>1. Day * (d + 1) <= Day * e
    BY <1>1, <1>3, Numbers
  <2>2. Day * (d + 1) = Day * d + Day
    BY Numbers
  <2>3. Day * e \in Nat /\ Day * d \in Nat
    BY <1>1, Numbers
  <2> QED BY <1>1, <2>1, <2>2, <2>3, Numbers
<1>4. e = d
  BY <1>1, <1>2, <1>3
<1>5. m >= h
  <2>1. Day * d \in Nat
    BY Numbers
  <2> QED BY <1>1, <1>4, <2>1, Numbers
<1> QED BY <1>4, <1>5 DEF e, m

-----------------------------------------------------------------------------
\* The type invariant holds at the start.
LEMMA TypeInit == Init => TypeOK
<1> SUFFICES ASSUME Init PROVE TypeOK
  OBVIOUS
<1>1. deployed \in Nat /\ due = deployed /\ now = deployed
  BY Numbers DEF Init
<1>2. polled \in {Never} \cup (SUBSET (Daily \cup {"pipeline_a"}))
  BY DEF Init
<1>3. polled_on \in [Daily -> Nat \cup {Never}]
  BY DEF Init
<1> QED BY <1>1, <1>2, <1>3 DEF TypeOK

\* Type correctness: no run polls anything but the known pipelines.
THEOREM TypeCorrect == Spec => []TypeOK
<1>1. Init => TypeOK
  BY TypeInit
<1>2. TypeOK /\ [Next]_vars => TypeOK'
  <2> SUFFICES ASSUME TypeOK, [Next]_vars PROVE TypeOK'
    OBVIOUS
  <2>1. CASE RunOnce
    <3>1. PipelinesToPoll(now) \subseteq Daily \cup {"pipeline_a"}
      BY DEF PipelinesToPoll
    <3>2. Today(now) \in Nat
      BY DayAndMinute DEF TypeOK
    <3> QED BY <2>1, <3>1, <3>2, Numbers DEF TypeOK, RunOnce
  <2>2. CASE Tick
    BY <2>2 DEF TypeOK, Tick
  <2>3. CASE UNCHANGED vars
    BY <2>3 DEF TypeOK, vars
  <2> QED BY <2>1, <2>2, <2>3 DEF Next
<1> QED BY <1>1, <1>2, PTL DEF Spec

-----------------------------------------------------------------------------
(* The strengthening. *)

\* No run is later than MaxDelay.
NotLate == now <= due + MaxDelay

\* Once a run that was due after a pipeline's time of day d has taken place, the
\* pipeline has been polled on that day, as long as the day lasts.
PolledAfterDue ==
    \A p \in Daily \cap Targets, d \in Nat :
        (/\ deployed + KstOffset <= Day * d + PollAfter[p]
         /\ Day * d + PollAfter[p] <= due - Period + KstOffset
         /\ now + KstOffset < Day * d + Day)
            => polled_on[p] = d

WatchdogInv == TypeOK /\ NotLate /\ PolledAfterDue

LEMMA WatchdogInvInit == Init => WatchdogInv
<1> SUFFICES ASSUME Init PROVE WatchdogInv
  OBVIOUS
<1>1. TypeOK
  BY TypeInit
<1>2. NotLate
  BY <1>1, Numbers DEF Init, NotLate, TypeOK
<1>3. PolledAfterDue
  <2> SUFFICES ASSUME NEW p \in Daily \cap Targets, NEW d \in Nat,
                      deployed + KstOffset <= Day * d + PollAfter[p],
                      Day * d + PollAfter[p] <= due - Period + KstOffset
               PROVE FALSE
    BY DEF PolledAfterDue
  <2>1. Day * d \in Nat
    BY Numbers
  <2> QED BY <1>1, <2>1, Numbers DEF Init, TypeOK
<1> QED BY <1>1, <1>2, <1>3 DEF WatchdogInv

LEMMA WatchdogInvNext == WatchdogInv /\ TypeOK' /\ [Next]_vars => WatchdogInv'
<1> SUFFICES ASSUME WatchdogInv, TypeOK', [Next]_vars PROVE NotLate' /\ PolledAfterDue'
  BY DEF WatchdogInv
<1> USE DEF WatchdogInv, TypeOK
<1>1. CASE RunOnce
  <2>1. NotLate'
    BY <1>1, Numbers DEF RunOnce, NotLate
  <2>2. PolledAfterDue'
    <3> SUFFICES ASSUME NEW p \in Daily \cap Targets, NEW d \in Nat,
                        Day * d + PollAfter[p] <= due' - Period + KstOffset,
                        now + KstOffset < Day * d + Day
                 PROVE polled_on'[p] = d
      BY <1>1 DEF RunOnce, PolledAfterDue
    <3>1. Day * d \in Nat
      BY Numbers
    <3>2. Day * d + PollAfter[p] <= now + KstOffset
      BY <1>1, <3>1, Numbers DEF RunOnce
    <3>3. Today(now) = d /\ Hhmm(now) >= PollAfter[p]
      BY <3>2, OnlyDay, Numbers
    <3>4. p \in PipelinesToPoll(now)
      BY <3>3 DEF PipelinesToPoll, IsDailyBatchPollDue
    <3> QED BY <1>1, <3>3, <3>4 DEF RunOnce
  <2> QED BY <2>1, <2>2
<1>2. CASE Tick
  <2>1. NotLate'
    BY <1>2, Numbers DEF Tick, NotLate
  <2>2. PolledAfterDue'
    <3> SUFFICES ASSUME NEW p \in Daily \cap Targets, NEW d \in Nat,
                        deployed + KstOffset <= Day * d + PollAfter[p],
                        Day * d + PollAfter[p] <= due - Period + KstOffset,
                        now + 1 + KstOffset < Day * d + Day
                 PROVE polled_on[p] = d
      BY <1>2 DEF Tick, PolledAfterDue
    <3>1. Day * d \in Nat
      BY Numbers
    <3>2. now + KstOffset < Day * d + Day
      BY <3>1, Numbers
    <3> QED BY <3>2 DEF PolledAfterDue
  <2> QED BY <2>1, <2>2
<1>3. CASE UNCHANGED vars
  BY <1>3 DEF vars, NotLate, PolledAfterDue
<1> QED BY <1>1, <1>2, <1>3 DEF Next

\* Every day, each daily target has been polled one period and one delay after its time,
\* whatever the lengths of the day and the period, the delays and the other targets.
THEOREM PolledEveryDay == Spec => []PolledInTime
<1>1. WatchdogInv => PolledInTime
  <2> SUFFICES ASSUME WatchdogInv, NEW p \in Daily \cap Targets,
                      Hhmm(now) > PollAfter[p] + Period + MaxDelay,
                      now - (Hhmm(now) - PollAfter[p]) >= deployed
               PROVE polled_on[p] = Today(now)
    BY DEF PolledInTime
  <2> USE DEF WatchdogInv, TypeOK
  <2> DEFINE d == Today(now)
             h == Hhmm(now)
             a == PollAfter[p]
  <2>1. /\ d \in Nat /\ h \in Nat /\ h < Day /\ now + KstOffset = Day * d + h
        /\ a \in Nat /\ now \in Nat /\ due \in Nat /\ deployed \in Nat
    BY DayAndMinute, Numbers
  <2>2. h > a + Period + MaxDelay /\ now - (h - a) >= deployed /\ now <= due + MaxDelay
    BY DEF NotLate
  <2>3. Day * d \in Nat
    BY <2>1, Numbers
  <2> HIDE DEF d, h, a
  <2>4. /\ deployed + KstOffset <= Day * d + a
        /\ Day * d + a <= due - Period + KstOffset
        /\ now + KstOffset < Day * d + Day
    BY <2>1, <2>2, <2>3, Numbers
  <2> QED BY <2>1, <2>4 DEF PolledAfterDue, a, d
<1> QED BY <1>1, WatchdogInvInit, WatchdogInvNext, TypeCorrect, PTL DEF Spec
=============================================================================
