------------------------- MODULE StatusAndReportProofs -------------------------
(***************************************************************************)
(* Proofs about JobStatus and WeeklyReport, the two components that read   *)
(* from a service which goes on meanwhile: for every answer of a secret    *)
(* scope, and for every list of pull requests, every length of a page and  *)
(* every number of updates by others.                                      *)
(***************************************************************************)
EXTENDS JobStatus, WeeklyReport, FiniteSetTheorems, FunctionTheorems, TLAPS

-----------------------------------------------------------------------------
(* The status of a job. *)

Ended == {"TERMINATED", "SKIPPED", "INTERNAL_ERROR"}

(***************************************************************************)
(* What makes the answers lasting: an ended state that the service has     *)
(* read of the run is still the state of the run when it arrives; and the  *)
(* calls of a process whose environment is set never leave its mode.       *)
(***************************************************************************)
StatusInv ==
    /\ env \in [Keys -> Values \cup {None}]
    /\ life_cycle \in DOMAIN LifeCycle
    /\ request \in {None, "sent", "UNKNOWN"} \cup DOMAIN LifeCycle
    /\ request \in Ended => request = life_cycle
    /\ EndedAnswersStay
    /\ EnvironmentOverridesScope

LEMMA StatusNames ==
    /\ DOMAIN LifeCycle = {"QUEUED", "BLOCKED", "PENDING", "RUNNING", "WAITING_FOR_RETRY",
                           "TERMINATING", "TERMINATED", "SKIPPED", "INTERNAL_ERROR"}
    /\ None \notin DOMAIN LifeCycle
    /\ \A n \in {"sent", "UNKNOWN", "dry_run", "finished", "failed", "raised", "live", "dry-run"} : None # n
<1>1. DOMAIN LifeCycle = {"QUEUED", "BLOCKED", "PENDING", "RUNNING", "WAITING_FOR_RETRY",
                           "TERMINATING", "TERMINATED", "SKIPPED", "INTERNAL_ERROR"}
  BY DEF LifeCycle
<1> QED BY <1>1, StatusAssumption DEF Values, Answers

\* A run that has ended stays where it is; the others move within the life cycle.
LEMMA EndedIsFinal ==
    ASSUME NEW s \in DOMAIN LifeCycle, NEW t \in LifeCycle[s]
    PROVE  s \notin Ended /\ t \in DOMAIN LifeCycle
  BY DEF LifeCycle, Ended

LEMMA StatusOfState ==
    ASSUME NEW s
    PROVE  /\ MapLifecycleToStatus(s) = "finished" => s = "TERMINATED"
           /\ MapLifecycleToStatus(s) = "failed" => s \in {"SKIPPED", "INTERNAL_ERROR"}
           /\ MapLifecycleToStatus(s) \notin {"dry_run", "raised"}
  BY DEF MapLifecycleToStatus

LEMMA StatusInitial == StatusInit => StatusInv
<1> SUFFICES ASSUME StatusInit PROVE StatusInv
  OBVIOUS
<1> QED
  BY StatusNames DEF StatusInit, StatusInv, Ended, EndedAnswersStay, EnvironmentOverridesScope

\* The mode of a call is the environment's, if it has one.
LEMMA ModeOfCall ==
    ASSUME StatusInv, NEW mode \in GetSecret("agent-execute-mode")
    PROVE  \/ env["agent-execute-mode"] = None
           \/ mode = env["agent-execute-mode"]
  BY DEF GetSecret

LEMMA StatusStep == StatusInv /\ [StatusNext]_status_vars => StatusInv'
<1> SUFFICES ASSUME StatusInv, [StatusNext]_status_vars PROVE StatusInv'
  OBVIOUS
<1> USE DEF StatusInv, EndedAnswersStay, EnvironmentOverridesScope
<1>1. CASE CheckJobStatus
  <2>1. PICK mode \in GetSecret("agent-execute-mode") :
           \/ mode = "dry-run" /\ Return("dry_run")
           \/ mode \notin {"live", "dry-run"} /\ Return("raised")
           \/ /\ mode = "live"
              /\ \/ Return("raised")
                 \/ request' = "sent" /\ UNCHANGED <<env, scope, life_cycle, job_status>>
    BY <1>1 DEF CheckJobStatus
  <2>2. \/ env["agent-execute-mode"] = None
        \/ mode = env["agent-execute-mode"]
    BY ModeOfCall
  <2>3. None # "dry-run" /\ None # "live"
    BY StatusNames
  <2>4. CASE mode = "dry-run" /\ Return("dry_run")
    BY <2>2, <2>3, <2>4, StatusNames DEF Return, Ended
  <2>5. CASE mode \notin {"live", "dry-run"} /\ Return("raised")
    BY <2>2, <2>3, <2>5, StatusNames DEF Return, Ended
  <2>6. CASE mode = "live" /\ Return("raised")
    BY <2>2, <2>3, <2>6, StatusNames DEF Return, Ended
  <2>7. CASE mode = "live" /\ request' = "sent" /\ UNCHANGED <<env, scope, life_cycle, job_status>>
    BY <2>2, <2>3, <2>7, StatusNames DEF Ended
  <2> QED BY <2>1, <2>4, <2>5, <2>6, <2>7
<1>2. CASE ServiceAnswers
  <2>1. env["agent-execute-mode"] # "dry-run"
    BY <1>2, StatusNames DEF ServiceAnswers
  <2> QED BY <1>2, <2>1, StatusNames DEF ServiceAnswers, Ended
<1>3. CASE Received
  <2>1. env["agent-execute-mode"] # "dry-run" /\ request # None
    BY <1>3, StatusNames DEF Received
  <2> DEFINE s == MapLifecycleToStatus(request)
  <2>2. /\ s = "finished" => life_cycle = "TERMINATED"
        /\ s = "failed" => life_cycle \in {"SKIPPED", "INTERNAL_ERROR"}
        /\ s # "dry_run"
    BY StatusOfState DEF Ended
  <2>3. job_status' = s /\ request' = None /\ UNCHANGED <<env, life_cycle>>
    BY <1>3 DEF Received, Return
  <2> HIDE DEF s
  <2> QED BY <2>1, <2>2, <2>3, StatusNames DEF Ended
<1>4. CASE CallFails
  <2>1. env["agent-execute-mode"] # "dry-run"
    BY <1>4 DEF CallFails
  <2> QED BY <1>4, <2>1, StatusNames DEF CallFails, Return, Ended
<1>5. CASE RunMoves
  <2>1. life_cycle \notin Ended /\ life_cycle' \in DOMAIN LifeCycle
    BY <1>5, EndedIsFinal DEF RunMoves
  <2> QED BY <1>5, <2>1, StatusNames DEF RunMoves, Ended
<1>6. CASE UNCHANGED status_vars
  BY <1>6 DEF status_vars
<1> QED BY <1>1, <1>2, <1>3, <1>4, <1>5, <1>6 DEF StatusNext

(***************************************************************************)
(* check_job_status says "finished" or "failed" only of a run that ended   *)
(* so, however late the answer is used.                                    *)
(***************************************************************************)
THEOREM EndedAnswersLast == StatusSpec => []EndedAnswersStay
<1>1. StatusInv => EndedAnswersStay
  BY DEF StatusInv
<1> QED BY <1>1, StatusInitial, StatusStep, PTL DEF StatusSpec

(***************************************************************************)
(* A process set to dry-run asks no service, and one set to live is not    *)
(* answered "dry_run", whatever the secret scope holds.                    *)
(***************************************************************************)
THEOREM EnvironmentDecides == StatusSpec => []EnvironmentOverridesScope
<1>1. StatusInv => EnvironmentOverridesScope
  BY DEF StatusInv
<1> QED BY <1>1, StatusInitial, StatusStep, PTL DEF StatusSpec

-----------------------------------------------------------------------------
(* Pages of the list. *)

\* How many places come before the page.
Skipped(n) == (n - 1) * PerPage

LEMMA ReportNumbers ==
    /\ PerPage \in Nat /\ PerPage > 0 /\ MaxPages \in Nat /\ MaxPages > 0 /\ MaxTouches \in Nat
    /\ IsFiniteSet(PullRequests)
  BY ReportAssumption

LEMMA SkippedIsNat ==
    ASSUME NEW n \in Nat \ {0}
    PROVE  Skipped(n) \in Nat /\ Skipped(n + 1) = Skipped(n) + PerPage
<1> DEFINE m == n - 1
<1>1. m \in Nat /\ n = m + 1
  OBVIOUS
<1> HIDE DEF m
<1>2. m * PerPage \in Nat /\ (m + 1) * PerPage = m * PerPage + PerPage
  BY <1>1, ReportNumbers
<1>3. Skipped(n) = m * PerPage /\ Skipped(n + 1) = (m + 1) * PerPage
  BY <1>1 DEF Skipped
<1> QED BY <1>2, <1>3

LEMMA FirstPageSkipsNone == Skipped(1) = 0
  BY ReportNumbers DEF Skipped

LEMMA SkippedGrows ==
    ASSUME NEW m \in Nat \ {0}, NEW n \in Nat \ {0}, m < n
    PROVE  Skipped(m) + PerPage <= Skipped(n)
<1> DEFINE k == n - 1
<1>1. k \in Nat /\ m <= k
  OBVIOUS
<1> HIDE DEF k
<1>2. m * PerPage <= k * PerPage
  BY <1>1, ReportNumbers
<1>3. Skipped(m + 1) = m * PerPage /\ Skipped(n) = k * PerPage
  BY DEF Skipped, k
<1> QED BY <1>2, <1>3, SkippedIsNat

\* The places are numbers, no two pull requests have one place, and no place before
\* an occupied one is empty; what was merged by the end of the week is in the list.
ListInv ==
    /\ place \in [PullRequests -> Nat]
    /\ \A p, q \in PullRequests : place[p] = place[q] /\ place[p] > 0 => p = q
    /\ \A p \in PullRequests : \A i \in 1 .. place[p] : \E q \in PullRequests : place[q] = i
    /\ \A p \in MergedBy({"before", "within"}) : place[p] > 0

LEMMA OnPage ==
    ASSUME ListInv, NEW n \in Nat \ {0}, NEW p \in PullRequests
    PROVE  p \in Page(n) <=> Skipped(n) < place[p] /\ place[p] <= Skipped(n) + PerPage
<1>1. place[p] \in Nat
  BY DEF ListInv
<1>2. Skipped(n) \in Nat /\ Skipped(n + 1) = Skipped(n) + PerPage
  BY SkippedIsNat
<1>3. p \in Page(n) <=> Skipped(n) + 1 <= place[p] /\ place[p] <= Skipped(n + 1)
  BY DEF Page, Between, Skipped
<1> QED BY <1>1, <1>2, <1>3, ReportNumbers

LEMMA OnOnePage ==
    ASSUME ListInv, NEW m \in Nat \ {0}, NEW n \in Nat \ {0}, NEW p \in Page(m), p \in Page(n)
    PROVE  m = n
<1>1. p \in PullRequests /\ place[p] \in Nat
  BY DEF Page, Between, ListInv
<1>2. Skipped(m) < place[p] /\ place[p] <= Skipped(m) + PerPage
  BY <1>1, OnPage
<1>3. Skipped(n) < place[p] /\ place[p] <= Skipped(n) + PerPage
  BY <1>1, OnPage
<1>4. Skipped(m) \in Nat /\ Skipped(n) \in Nat
  BY SkippedIsNat
<1>5. ~(m < n)
  BY <1>1, <1>2, <1>3, <1>4, SkippedGrows, ReportNumbers
<1>6. ~(n < m)
  BY <1>1, <1>2, <1>3, <1>4, SkippedGrows, ReportNumbers
<1> QED BY <1>5, <1>6

\* A listed pull request is on the page that its place says.
LEMMA OnItsPage ==
    ASSUME ListInv, NEW p \in PullRequests, place[p] > 0
    PROVE  PageOf(p) \in Nat \ {0} /\ p \in Page(PageOf(p))
<1> DEFINE a == place[p] - 1
           d == a \div PerPage
<1>1. a \in Nat /\ place[p] = a + 1
  BY DEF ListInv
<1> HIDE DEF a
<1>2. d \in Nat /\ d * PerPage <= a /\ a < d * PerPage + PerPage
  BY <1>1, ReportNumbers
<1>3. PageOf(p) = d + 1
  BY DEF PageOf, a
<1> HIDE DEF d
<1>4. Skipped(d + 1) = d * PerPage
  BY <1>2 DEF Skipped
<1>5. d * PerPage \in Nat
  BY <1>2, ReportNumbers
<1>6. d + 1 \in Nat \ {0}
  BY <1>2
<1>7. Skipped(d + 1) < place[p] /\ place[p] <= Skipped(d + 1) + PerPage
  BY <1>1, <1>2, <1>4, <1>5, ReportNumbers
<1>8. p \in Page(d + 1)
  BY <1>6, <1>7, OnPage
<1> QED BY <1>3, <1>6, <1>8

LEMMA ListInitial == ReportInit => ListInv
<1> SUFFICES ASSUME ReportInit PROVE ListInv
  OBVIOUS
<1>0. PICK open \in SUBSET MergedBy({"after", "never"}) :
        \E order \in Bijection(PullRequests \ open, 1 .. Cardinality(PullRequests \ open)) :
            place = [p \in PullRequests |-> IF p \in open THEN 0 ELSE order[p]]
  BY DEF ReportInit
<1> DEFINE closed == PullRequests \ open
           last == Cardinality(closed)
           places == 1 .. last
<1>1. PICK order \in Bijection(closed, places) :
        place = [p \in PullRequests |-> IF p \in open THEN 0 ELSE order[p]]
  BY <1>0
<1>2. IsFiniteSet(closed)
  BY ReportNumbers, FS_Subset
<1>3. last \in Nat
  BY <1>2, FS_CardinalityType
<1>4. /\ order \in [closed -> places]
      /\ \A p, q \in closed : order[p] = order[q] => p = q
      /\ \A i \in places : \E p \in closed : order[p] = i
  <2> HIDE DEF places
  <2> QED BY <1>1, Fun_BijectionProperties
<1> HIDE DEF last
<1>5. \A p \in PullRequests : /\ p \in open => place[p] = 0
                              /\ p \notin open => place[p] = order[p] /\ order[p] \in 1 .. last
  BY <1>1, <1>4
<1>6. place \in [PullRequests -> Nat]
  BY <1>1, <1>3, <1>4
<1>7. \A p, q \in PullRequests : place[p] = place[q] /\ place[p] > 0 => p = q
  BY <1>3, <1>4, <1>5
<1>8. ASSUME NEW p \in PullRequests, NEW i \in 1 .. place[p]
      PROVE  \E q \in PullRequests : place[q] = i
  <2>1. i \in 1 .. last
    BY <1>3, <1>5
  <2> QED BY <2>1, <1>4, <1>5
<1>9. ASSUME NEW p \in MergedBy({"before", "within"}) PROVE place[p] > 0
  <2>1. p \in PullRequests /\ p \notin open
    BY DEF MergedBy
  <2> QED BY <2>1, <1>3, <1>5
<1> QED BY <1>6, <1>7, <1>8, <1>9 DEF ListInv

\* A pull request moves to the front, and those that were before it move on by one.
LEMMA ListTouched == ListInv /\ Touch => ListInv'
<1> SUFFICES ASSUME ListInv, Touch PROVE ListInv'
  OBVIOUS
<1>1. PICK p \in PullRequests :
        LET pushed == {q \in PullRequests \ {p} : place[q] > 0 /\ (place[p] = 0 \/ place[q] < place[p])}
        IN place' = [q \in PullRequests |-> IF q = p THEN 1
                                            ELSE IF q \in pushed THEN place[q] + 1 ELSE place[q]]
  BY DEF Touch
<1> DEFINE pushed(q) == q # p /\ place[q] > 0 /\ (place[p] = 0 \/ place[q] < place[p])
<1>2. \A q \in PullRequests : place[q] \in Nat
  BY DEF ListInv
<1>3. /\ place'[p] = 1
      /\ \A q \in PullRequests \ {p} : place'[q] = IF pushed(q) THEN place[q] + 1 ELSE place[q]
  BY <1>1
<1>4. place' \in [PullRequests -> Nat]
  BY <1>1, <1>2
<1>5. ASSUME NEW q \in PullRequests, NEW r \in PullRequests, place'[q] = place'[r], place'[q] > 0
      PROVE  q = r
  BY <1>2, <1>3, <1>5 DEF ListInv
<1>6. ASSUME NEW q \in PullRequests, NEW i \in 1 .. place'[q]
      PROVE  \E r \in PullRequests : place'[r] = i
  <2>1. CASE i = 1
    BY <2>1, <1>3
  <2>2. CASE i > 1 /\ (place[p] = 0 \/ i <= place[p])
    <3>1. \E s \in PullRequests : i - 1 \in 1 .. place[s]
      BY <1>2, <1>3, <2>2
    <3>2. PICK r \in PullRequests : place[r] = i - 1
      BY <3>1 DEF ListInv
    <3>3. r # p /\ pushed(r)
      BY <2>2, <3>2, <1>2
    <3> QED BY <3>2, <3>3, <1>2, <1>3
  <2>3. CASE i > 1 /\ place[p] > 0 /\ i > place[p]
    <3>1. i \in 1 .. place[q] /\ q # p
      BY <1>2, <1>3, <2>3
    <3>2. PICK r \in PullRequests : place[r] = i
      BY <3>1 DEF ListInv
    <3>3. r # p /\ ~pushed(r)
      BY <2>3, <3>2, <1>2
    <3> QED BY <3>2, <3>3, <1>3
  <2> QED BY <2>1, <2>2, <2>3, <1>2
<1>7. ASSUME NEW q \in MergedBy({"before", "within"}) PROVE place'[q] > 0
  BY <1>2, <1>3 DEF ListInv, MergedBy
<1> QED BY <1>4, <1>5, <1>6, <1>7 DEF ListInv

-----------------------------------------------------------------------------
(* Repeats. *)

\* Those in the report that the next pages will show once more.
Ahead == {p \in Seen : place[p] > Skipped(page)}

(***************************************************************************)
(* Every repeat, and every pull request in the report that is about to be  *)
(* read again, was pushed over the end of a page by an update of its own.  *)
(***************************************************************************)
RepeatInv ==
    /\ page \in Nat \ {0}
    /\ touches \in Nat
    /\ results \subseteq PullRequests \X (1 .. page - 1)
    /\ \A entry \in results : Reported(entry[1])
    /\ Cardinality(results) - Cardinality(Seen) + Cardinality(Ahead) <= touches

LEMMA ReadsAreFinite ==
    ASSUME RepeatInv
    PROVE  /\ IsFiniteSet(results) /\ Cardinality(results) \in Nat
           /\ Seen \subseteq PullRequests /\ IsFiniteSet(Seen) /\ Cardinality(Seen) \in Nat
           /\ IsFiniteSet(Ahead) /\ Cardinality(Ahead) \in Nat
<1>1. IsFiniteSet(1 .. page - 1)
  <2>1. page - 1 \in Int /\ 1 \in Int
    BY DEF RepeatInv
  <2> QED BY <2>1, FS_Interval
<1>2. IsFiniteSet(PullRequests \X (1 .. page - 1))
  BY <1>1, ReportNumbers, FS_Product
<1>3. IsFiniteSet(results)
  BY <1>2, FS_Subset DEF RepeatInv
<1>4. Seen \subseteq PullRequests /\ Ahead \subseteq PullRequests
  BY DEF Seen, Ahead, RepeatInv
<1>5. IsFiniteSet(Seen) /\ IsFiniteSet(Ahead)
  BY <1>4, ReportNumbers, FS_Subset
<1> QED BY <1>3, <1>4, <1>5, FS_CardinalityType

LEMMA RepeatInitial == ReportInit => RepeatInv
<1> SUFFICES ASSUME ReportInit PROVE RepeatInv
  OBVIOUS
<1>1. page = 1 /\ results = {} /\ touches = 0
  BY DEF ReportInit
<1>2. Seen = {} /\ Ahead = {}
  BY <1>1 DEF Seen, Ahead
<1> QED BY <1>1, <1>2, FS_EmptySet DEF RepeatInv

\* Reading a page adds what it shows of the week.
LEMMA SeenOnceRead == ReadPage => Seen' = Seen \cup Selected(Page(page))
<1> SUFFICES ASSUME ReadPage PROVE Seen' = Seen \cup Selected(Page(page))
  OBVIOUS
<1> DEFINE new == Selected(Page(page))
           entries == new \X {page}
<1>1. \A p : p \in Seen' <=> \E entry \in results \cup entries : entry[1] = p
  BY DEF Seen, ReadPage
<1>2. \A p : p \in new <=> \E entry \in entries : entry[1] = p
  <2>1. \A p \in new : <<p, page>> \in entries /\ <<p, page>>[1] = p
    OBVIOUS
  <2>2. \A entry \in entries : entry[1] \in new
    OBVIOUS
  <2> QED BY <2>1, <2>2
<1>3. \A p : p \in Seen <=> \E entry \in results : entry[1] = p
  BY DEF Seen
<1> HIDE DEF entries, new
<1>4. Seen' = Seen \cup new
  BY <1>1, <1>2, <1>3
<1> QED BY <1>4 DEF new

LEMMA RepeatRead == ListInv /\ RepeatInv /\ ReadPage => RepeatInv'
<1> SUFFICES ASSUME ListInv, RepeatInv, ReadPage PROVE RepeatInv'
  OBVIOUS
<1> DEFINE new == Selected(Page(page))
           entries == new \X {page}
           again == Seen \cap new
<1>1. /\ results' = results \cup entries /\ page' = page + 1
      /\ place' = place /\ touches' = touches
  BY DEF ReadPage
<1>2. /\ page \in Nat \ {0} /\ touches \in Nat
      /\ results \subseteq PullRequests \X (1 .. page - 1)
      /\ \A entry \in results : Reported(entry[1])
      /\ Cardinality(results) - Cardinality(Seen) + Cardinality(Ahead) <= touches
  BY DEF RepeatInv
<1>3. new \subseteq PullRequests /\ \A p \in new : Reported(p) /\ p \in Page(page)
  BY DEF Selected, Page, Between
<1>4. IsFiniteSet(new) /\ Cardinality(new) \in Nat
  BY <1>3, ReportNumbers, FS_Subset, FS_CardinalityType
<1>5. IsFiniteSet(entries) /\ Cardinality(entries) = Cardinality(new)
  <2>1. IsFiniteSet({page}) /\ Cardinality({page}) = 1
    BY FS_Singleton
  <2>2. IsFiniteSet(entries) /\ Cardinality(entries) = Cardinality(new) * Cardinality({page})
    BY <1>4, <2>1, FS_Product
  <2> QED BY <1>4, <2>1, <2>2
<1>6. Cardinality(results') = Cardinality(results) + Cardinality(new)
  <2>1. results \cap entries = {}
    BY <1>2
  <2>2. Cardinality(results \cup entries)
          = Cardinality(results) + Cardinality(entries) - Cardinality(results \cap entries)
    BY <1>5, ReadsAreFinite, FS_Union
  <2>3. Cardinality({}) = 0
    BY FS_EmptySet
  <2> QED BY <1>1, <1>4, <1>5, <2>1, <2>2, <2>3, ReadsAreFinite
<1>7. Seen' = Seen \cup new
  BY SeenOnceRead
<1>8. Cardinality(Seen') = Cardinality(Seen) + Cardinality(new) - Cardinality(again)
  BY <1>4, <1>7, ReadsAreFinite, FS_Union
<1>9. Ahead = Ahead' \cup again /\ Ahead' \cap again = {}
  <2>1. Skipped(page) \in Nat /\ Skipped(page + 1) = Skipped(page) + PerPage
    BY <1>2, SkippedIsNat
  <2>2. \A p : p \in Ahead' <=> p \in Seen \cup new /\ place[p] > Skipped(page + 1)
    BY <1>1, <1>7 DEF Ahead, Skipped
  <2>3. \A p \in PullRequests : /\ place[p] \in Nat
                                /\ p \in Page(page) <=> /\ Skipped(page) < place[p]
                                                        /\ place[p] <= Skipped(page) + PerPage
    BY <1>2, OnPage DEF ListInv
  <2>4. \A p \in Seen : p \in PullRequests /\ Reported(p)
    BY <1>2 DEF Seen
  <2>5. \A p : p \in Ahead <=> p \in Seen /\ place[p] > Skipped(page)
    BY DEF Ahead
  <2>6. \A p : p \in again <=> p \in Seen /\ p \in Page(page)
    BY <2>4 DEF Selected
  <2>7. \A p \in new : place[p] <= Skipped(page + 1)
    BY <1>3, <2>1, <2>3
  <2>8. \A p : p \in Ahead' <=> p \in Seen /\ place[p] > Skipped(page + 1)
    <3>1. Skipped(page + 1) \in Nat
      BY <2>1, ReportNumbers
    <3> HIDE DEF new
    <3> QED BY <1>3, <2>2, <2>3, <2>7, <3>1
  <2> HIDE DEF again, new
  <2> QED BY <2>1, <2>3, <2>4, <2>5, <2>6, <2>8, ReportNumbers
<1>10. Cardinality(Ahead) = Cardinality(Ahead') + Cardinality(again)
  <2>1. IsFiniteSet(Ahead') /\ IsFiniteSet(again)
    BY <1>9, ReadsAreFinite, FS_Subset
  <2>2. Cardinality(Ahead' \cup again)
          = Cardinality(Ahead') + Cardinality(again) - Cardinality(Ahead' \cap again)
    BY <2>1, FS_Union
  <2>3. Cardinality(Ahead') \in Nat /\ Cardinality(again) \in Nat /\ Cardinality({}) = 0
    BY <2>1, FS_CardinalityType, FS_EmptySet
  <2>4. Cardinality(Ahead) = Cardinality(Ahead' \cup again)
    BY <1>9
  <2>5. Cardinality(Ahead' \cap again) = 0
    BY <1>9, <2>3
  <2> HIDE DEF again, new
  <2> QED BY <2>2, <2>3, <2>4, <2>5
<1>11. Cardinality(Ahead') \in Nat /\ Cardinality(again) \in Nat
  BY <1>9, ReadsAreFinite, FS_Subset, FS_CardinalityType
<1>12. results' \subseteq PullRequests \X (1 .. page' - 1)
  BY <1>1, <1>2, <1>3
<1>13. \A entry \in results' : Reported(entry[1])
  BY <1>1, <1>2, <1>3
<1>14. Cardinality(results') - Cardinality(Seen') + Cardinality(Ahead') <= touches'
  <2> HIDE DEF again, new, entries
  <2> QED BY <1>1, <1>2, <1>4, <1>6, <1>8, <1>10, <1>11, ReadsAreFinite
<1> QED BY <1>1, <1>2, <1>12, <1>13, <1>14 DEF RepeatInv

\* An update pushes at most one pull request over the end of the last page read.
LEMMA RepeatTouched == ListInv /\ RepeatInv /\ Touch => RepeatInv'
<1> SUFFICES ASSUME ListInv, RepeatInv, Touch PROVE RepeatInv'
  OBVIOUS
<1>1. /\ results' = results /\ page' = page /\ touches' = touches + 1
      /\ page \in Nat \ {0} /\ touches \in Nat
      /\ results \subseteq PullRequests \X (1 .. page - 1)
      /\ \A entry \in results : Reported(entry[1])
      /\ Cardinality(results) - Cardinality(Seen) + Cardinality(Ahead) <= touches
  BY DEF Touch, RepeatInv
<1>2. Seen' = Seen /\ Ahead' = {p \in Seen : place'[p] > Skipped(page)}
  BY <1>1 DEF Seen, Ahead, Skipped
<1> DEFINE border == {p \in PullRequests : place[p] > 0 /\ place[p] = Skipped(page)}
<1>3. Ahead' \subseteq Ahead \cup border
  <2>1. PICK p \in PullRequests :
          /\ place'[p] = 1
          /\ \A q \in PullRequests \ {p} :
                 \/ place'[q] = place[q]
                 \/ place'[q] = place[q] + 1 /\ place[q] > 0
    BY DEF Touch
  <2>2. Seen \subseteq PullRequests /\ \A q \in PullRequests : place[q] \in Nat
    BY ReadsAreFinite DEF ListInv
  <2>3. Skipped(page) \in Nat
    BY <1>1, SkippedIsNat
  <2>4. Seen # {} => Skipped(page) >= 1
    <3>1. Seen # {} => page > 1
      BY <1>1 DEF Seen
    <3>2. page > 1 => Skipped(1) + PerPage <= Skipped(page)
      BY <1>1, SkippedGrows
    <3> QED BY <3>1, <3>2, <2>3, FirstPageSkipsNone, ReportNumbers
  <2>5. ASSUME NEW q \in Ahead' PROVE q \in Ahead \cup border
    <3>1. q \in Seen /\ q \in PullRequests /\ place'[q] > Skipped(page)
      BY <1>2, <2>2
    <3>2. q # p
      BY <2>1, <2>3, <2>4, <3>1
    <3>3. \/ place[q] > Skipped(page)
          \/ place[q] = Skipped(page) /\ place[q] > 0
      BY <2>1, <2>2, <2>3, <3>1, <3>2
    <3> QED BY <3>1, <3>3 DEF Ahead
  <2> QED BY <2>5
<1>4. IsFiniteSet(border) /\ Cardinality(border) <= 1 /\ Cardinality(border) \in Nat
  <2>1. \A p, q \in border : p = q
    BY DEF ListInv
  <2>2. CASE border = {}
    BY <2>2, FS_EmptySet
  <2>3. CASE \E p : p \in border
    <3>1. PICK p : p \in border
      BY <2>3
    <3>2. border = {p}
      BY <2>1, <3>1
    <3>3. IsFiniteSet({p}) /\ Cardinality({p}) = 1
      BY FS_Singleton
    <3> HIDE DEF border
    <3> QED BY <3>2, <3>3
  <2> QED BY <2>2, <2>3
<1>5. Cardinality(Ahead') <= Cardinality(Ahead) + 1
  <2>1. /\ IsFiniteSet(Ahead \cup border)
        /\ Cardinality(Ahead \cup border)
             = Cardinality(Ahead) + Cardinality(border) - Cardinality(Ahead \cap border)
    BY <1>4, ReadsAreFinite, FS_Union
  <2>2. Cardinality(Ahead \cap border) \in Nat
    BY ReadsAreFinite, FS_Intersection, FS_CardinalityType
  <2>3. Cardinality(Ahead') <= Cardinality(Ahead \cup border) /\ Cardinality(Ahead') \in Nat
    BY <1>3, <2>1, FS_Subset, FS_CardinalityType
  <2> HIDE DEF border
  <2> QED BY <1>4, <2>1, <2>2, <2>3, ReadsAreFinite
<1>6. Cardinality(Ahead') \in Nat
  BY <1>3, <1>4, ReadsAreFinite, FS_Union, FS_Subset, FS_CardinalityType
<1>7. Cardinality(results') - Cardinality(Seen') + Cardinality(Ahead') <= touches'
  BY <1>1, <1>2, <1>5, <1>6, ReadsAreFinite
<1> QED BY <1>1, <1>7 DEF RepeatInv

LEMMA ListStep == ListInv /\ [ReportNext]_report_vars => ListInv'
<1> SUFFICES ASSUME ListInv, [ReportNext]_report_vars PROVE ListInv'
  OBVIOUS
<1>1. CASE Touch
  BY <1>1, ListTouched
<1>2. CASE place' = place
  BY <1>2 DEF ListInv
<1> QED BY <1>1, <1>2 DEF ReportNext, ReadPage, RequestFails, report_vars

LEMMA RepeatStep == ListInv /\ RepeatInv /\ [ReportNext]_report_vars => RepeatInv'
<1> SUFFICES ASSUME ListInv, RepeatInv, [ReportNext]_report_vars PROVE RepeatInv'
  OBVIOUS
<1>1. CASE ReadPage
  BY <1>1, RepeatRead
<1>2. CASE Touch
  BY <1>2, RepeatTouched
<1>3. CASE UNCHANGED <<place, page, results, touches>>
  BY <1>3 DEF RepeatInv, Seen, Ahead, Skipped
<1> QED BY <1>1, <1>2, <1>3 DEF ReportNext, RequestFails, report_vars

(***************************************************************************)
(* The weekly report counts only what is of the week, and repeats at most  *)
(* one pull request for each update that others make while it reads.       *)
(***************************************************************************)
THEOREM FewRepeats == ReportSpec => []OneRepeatPerTouch
<1>1. RepeatInv => OneRepeatPerTouch
  <2> SUFFICES ASSUME RepeatInv PROVE OneRepeatPerTouch
    OBVIOUS
  <2> QED BY ReadsAreFinite DEF RepeatInv, OneRepeatPerTouch, Seen
<1> QED BY <1>1, ListInitial, ListStep, RepeatInitial, RepeatStep, PTL DEF ReportSpec

-----------------------------------------------------------------------------
(* What the pages read should have shown. *)

Hidden == {p \in Between(1, Skipped(page)) : Reported(p)} \ Seen

LEMMA HiddenFacts ==
    ASSUME ListInv, RepeatInv
    PROVE  /\ Hidden \subseteq PullRequests
           /\ IsFiniteSet(Hidden) /\ Cardinality(Hidden) \in Nat
           /\ \A p \in PullRequests :
                p \in Hidden <=> /\ 1 <= place[p] /\ place[p] <= Skipped(page)
                                 /\ Reported(p) /\ p \notin Seen
<1>1. Hidden \subseteq PullRequests
  BY DEF Hidden, Between
<1>2. IsFiniteSet(Hidden) /\ Cardinality(Hidden) \in Nat
  BY <1>1, ReportNumbers, FS_Subset, FS_CardinalityType
<1> QED BY <1>1, <1>2 DEF Hidden, Between

HiddenInv == Cardinality(Hidden) <= touches

LEMMA HiddenInitial == ReportInit => HiddenInv
<1> SUFFICES ASSUME ReportInit PROVE HiddenInv
  OBVIOUS
<1>1. page = 1 /\ touches = 0
  BY DEF ReportInit
<1>2. ListInv
  BY ListInitial
<1>3. Hidden = {}
  BY <1>1, <1>2, FirstPageSkipsNone DEF Hidden, Between, ListInv
<1> QED BY <1>1, <1>3, FS_EmptySet DEF HiddenInv

\* What is of the week on a page that is read is in the report.
LEMMA HiddenRead == ListInv /\ RepeatInv /\ HiddenInv /\ ReadPage => HiddenInv'
<1> SUFFICES ASSUME ListInv, RepeatInv, HiddenInv, ReadPage PROVE HiddenInv'
  OBVIOUS
<1>1. /\ results' = results \cup (Selected(Page(page)) \X {page}) /\ page' = page + 1
      /\ place' = place /\ touches' = touches
  BY DEF ReadPage
<1>2. /\ page \in Nat \ {0} /\ touches \in Nat /\ Skipped(page) \in Nat
      /\ Skipped(page') = Skipped(page) + PerPage
  BY <1>1, SkippedIsNat DEF RepeatInv
<1>3. Seen' = Seen \cup Selected(Page(page))
  BY SeenOnceRead
<1>4. ASSUME NEW p \in Hidden' PROVE p \in Hidden
  <2>1. /\ p \in PullRequests /\ 1 <= place[p] /\ place[p] <= Skipped(page) + PerPage
        /\ Reported(p) /\ p \notin Seen'
    BY <1>1, <1>2 DEF Hidden, Between, Skipped
  <2>2. place[p] \in Nat
    BY <2>1 DEF ListInv
  <2>3. p \notin Page(page)
    BY <1>3, <2>1 DEF Selected
  <2>4. place[p] <= Skipped(page)
    BY <1>2, <2>1, <2>2, <2>3, OnPage
  <2> QED BY <1>3, <2>1, <2>4, HiddenFacts
<1>5. Hidden' \subseteq Hidden
  BY <1>4
<1>6. Cardinality(Hidden') <= Cardinality(Hidden) /\ Cardinality(Hidden') \in Nat
  BY <1>5, HiddenFacts, FS_Subset, FS_CardinalityType
<1> QED BY <1>1, <1>2, <1>6, HiddenFacts DEF HiddenInv

\* An update brings one pull request to the front; the others only move away from it.
LEMMA HiddenTouched == ListInv /\ RepeatInv /\ HiddenInv /\ Touch => HiddenInv'
<1> SUFFICES ASSUME ListInv, RepeatInv, HiddenInv, Touch PROVE HiddenInv'
  OBVIOUS
<1>1. /\ results' = results /\ page' = page /\ touches' = touches + 1
      /\ page \in Nat \ {0} /\ touches \in Nat
  BY DEF Touch, RepeatInv
<1>2. PICK p \in PullRequests :
        \A q \in PullRequests \ {p} :
            \/ place'[q] = place[q]
            \/ place'[q] = place[q] + 1 /\ place[q] > 0
  BY DEF Touch
<1>3. \A q \in PullRequests : place[q] \in Nat
  BY DEF ListInv
<1>4. Skipped(page) \in Nat /\ Skipped(page') = Skipped(page)
  BY <1>1, SkippedIsNat
<1>5. ASSUME NEW q \in Hidden', q # p PROVE q \in Hidden
  <2>1. /\ q \in PullRequests /\ 1 <= place'[q] /\ place'[q] <= Skipped(page)
        /\ Reported(q) /\ q \notin Seen
    BY <1>1 DEF Hidden, Between, Skipped, Seen
  <2>2. 1 <= place[q] /\ place[q] <= Skipped(page)
    BY <1>2, <1>3, <1>4, <1>5, <2>1
  <2> QED BY <2>1, <2>2, HiddenFacts
<1>6. Hidden' \subseteq (Hidden \cup {p})
  BY <1>5
<1>7. IsFiniteSet(Hidden \cup {p}) /\ Cardinality(Hidden \cup {p}) <= Cardinality(Hidden) + 1
  <2>1. CASE p \in Hidden
    <3>1. Hidden \cup {p} = Hidden
      BY <2>1
    <3> QED BY <3>1, HiddenFacts
  <2>2. CASE p \notin Hidden
    <3>1. IsFiniteSet(Hidden)
      BY HiddenFacts
    <3>2. IsFiniteSet(Hidden \cup {p}) /\ Cardinality(Hidden \cup {p}) = Cardinality(Hidden) + 1
      BY <2>2, <3>1, FS_AddElement
    <3> QED BY <3>2, HiddenFacts
  <2> QED BY <2>1, <2>2
<1>8. Cardinality(Hidden') <= Cardinality(Hidden \cup {p}) /\ Cardinality(Hidden') \in Nat
  BY <1>6, <1>7, FS_Subset, FS_CardinalityType
<1>9. Cardinality(Hidden \cup {p}) \in Nat
  BY <1>7, FS_CardinalityType
<1> QED BY <1>1, <1>7, <1>8, <1>9, HiddenFacts DEF HiddenInv

LEMMA HiddenStep == ListInv /\ RepeatInv /\ HiddenInv /\ [ReportNext]_report_vars => HiddenInv'
<1> SUFFICES ASSUME ListInv, RepeatInv, HiddenInv, [ReportNext]_report_vars PROVE HiddenInv'
  OBVIOUS
<1>1. CASE ReadPage
  BY <1>1, HiddenRead
<1>2. CASE Touch
  BY <1>2, HiddenTouched
<1>3. CASE UNCHANGED <<place, page, results, touches>>
  BY <1>3 DEF HiddenInv, Hidden, Between, Seen, Skipped
<1> QED BY <1>1, <1>2, <1>3 DEF ReportNext, RequestFails, report_vars

(***************************************************************************)
(* Of the pages the weekly report has read it misses no pull request of    *)
(* the week, but at most one for each update that others make meanwhile.   *)
(***************************************************************************)
THEOREM FewHidden == ReportSpec => []OneHiddenPerTouch
<1>1. HiddenInv => OneHiddenPerTouch
  BY DEF HiddenInv, Hidden, OneHiddenPerTouch, Skipped
<1> QED BY <1>1, ListInitial, ListStep, RepeatInitial, RepeatStep, HiddenInitial, HiddenStep, PTL
        DEF ReportSpec

-----------------------------------------------------------------------------
(* A quiet list. *)

\* The page is not the one that ends the reading, unless it is the last that may be read.
Passed(n) == Page(n) # {} /\ ~ReachedOlderWindow(Page(n))

(***************************************************************************)
(* While nobody touches anything, the results are exactly what the pages   *)
(* read so far show of the week, and only the last of them can be one that *)
(* ends the reading.                                                       *)
(***************************************************************************)
QuietInv ==
    touches = 0 =>
        /\ results = {entry \in PullRequests \X (1 .. page - 1) :
                         Reported(entry[1]) /\ entry[1] \in Page(entry[2])}
        /\ page - 1 <= MaxPages
        /\ \A n \in 1 .. page - 2 : Passed(n)
        /\ report = "reading" => page <= MaxPages /\ \A n \in 1 .. page - 1 : Passed(n)
        /\ report = "made" => page > 1 /\ (page - 1 = MaxPages \/ ~Passed(page - 1))

LEMMA QuietInitial == ReportInit => QuietInv
<1> SUFFICES ASSUME ReportInit PROVE QuietInv
  OBVIOUS
<1>1. page = 1 /\ results = {} /\ report = "reading"
  BY DEF ReportInit
<1>2. {entry \in PullRequests \X (1 .. page - 1) :
          Reported(entry[1]) /\ entry[1] \in Page(entry[2])} = {}
  BY <1>1
<1> QED BY <1>1, <1>2, ReportNumbers DEF QuietInv

LEMMA QuietRead == RepeatInv /\ QuietInv /\ ReadPage => QuietInv'
<1> SUFFICES ASSUME RepeatInv, QuietInv, ReadPage, touches' = 0
    PROVE  (/\ results = {entry \in PullRequests \X (1 .. page - 1) :
                             Reported(entry[1]) /\ entry[1] \in Page(entry[2])}
            /\ page - 1 <= MaxPages
            /\ \A n \in 1 .. page - 2 : Passed(n)
            /\ report = "reading" => page <= MaxPages /\ \A n \in 1 .. page - 1 : Passed(n)
            /\ report = "made" => page > 1 /\ (page - 1 = MaxPages \/ ~Passed(page - 1)))'
  BY DEF QuietInv
<1>1. /\ page \in Nat \ {0} /\ touches = 0 /\ report = "reading" /\ page' = page + 1
      /\ results' = results \cup (Selected(Page(page)) \X {page})
      /\ place' = place
      /\ report' = IF Passed(page) /\ page # MaxPages THEN "reading" ELSE "made"
  BY DEF ReadPage, RepeatInv, Passed
<1>2. /\ results = {entry \in PullRequests \X (1 .. page - 1) :
                       Reported(entry[1]) /\ entry[1] \in Page(entry[2])}
      /\ page <= MaxPages
      /\ \A n \in 1 .. page - 1 : Passed(n)
  BY <1>1 DEF QuietInv
<1>3. \A n : Page(n)' = Page(n) /\ Passed(n)' = Passed(n)
  BY <1>1 DEF Page, Between, Passed, ReachedOlderWindow
<1>4. (results = {entry \in PullRequests \X (1 .. page - 1) :
                     Reported(entry[1]) /\ entry[1] \in Page(entry[2])})'
  <2>1. \A p, n : <<p, n>> \in results' <=>
                     p \in PullRequests /\ n \in 1 .. page /\ Reported(p) /\ p \in Page(n)
    <3>1. \A p, n : <<p, n>> \in results <=>
                     p \in PullRequests /\ n \in 1 .. page - 1 /\ Reported(p) /\ p \in Page(n)
      BY <1>2
    <3>2. \A p, n : <<p, n>> \in Selected(Page(page)) \X {page} <=>
                     n = page /\ Reported(p) /\ p \in Page(page)
      BY DEF Selected
    <3>3. \A p : p \in Page(page) => p \in PullRequests
      BY DEF Page, Between
    <3>4. \A n : n \in 1 .. page <=> n \in 1 .. page - 1 \/ n = page
      BY <1>1
    <3>5. \A p, n : <<p, n>> \in results' <=>
                       <<p, n>> \in results \/ <<p, n>> \in Selected(Page(page)) \X {page}
      BY <1>1
    <3> QED BY <3>1, <3>2, <3>3, <3>4, <3>5
  <2>2. results' \subseteq PullRequests \X (1 .. page)
    <3>1. Selected(Page(page)) \subseteq PullRequests
      BY DEF Selected, Page, Between
    <3> QED BY <1>1, <1>2, <3>1
  <2>3. page' - 1 = page
    BY <1>1
  <2> QED BY <1>3, <2>1, <2>2, <2>3
<1>5. \A n \in 1 .. page' - 2 : Passed(n)'
  BY <1>1, <1>2, <1>3
<1>6. report' = "reading" => page' <= MaxPages /\ \A n \in 1 .. page' - 1 : Passed(n)'
  <2> SUFFICES ASSUME report' = "reading"
               PROVE  page' <= MaxPages /\ \A n \in 1 .. page' - 1 : Passed(n)'
    OBVIOUS
  <2>1. Passed(page) /\ page # MaxPages
    BY <1>1
  <2> QED BY <1>1, <1>2, <1>3, <2>1, ReportNumbers
<1>7. (report = "made" => page > 1 /\ (page - 1 = MaxPages \/ ~Passed(page - 1)))'
  <2>1. page' - 1 = page /\ page' > 1
    BY <1>1
  <2>2. report' = "made" => page = MaxPages \/ ~Passed(page)
    BY <1>1
  <2>3. Passed(page - 1)' = Passed(page)
    BY <1>1, <2>1 DEF Passed, Page, Between, ReachedOlderWindow
  <2> QED BY <2>1, <2>2, <2>3
<1>8. page' - 1 <= MaxPages
  BY <1>1, <1>2
<1> QED BY <1>4, <1>5, <1>6, <1>7, <1>8

LEMMA QuietStep == RepeatInv /\ QuietInv /\ [ReportNext]_report_vars => QuietInv'
<1> SUFFICES ASSUME RepeatInv, QuietInv, [ReportNext]_report_vars PROVE QuietInv'
  OBVIOUS
<1>1. CASE ReadPage
  BY <1>1, QuietRead
<1>2. CASE Touch
  <2>1. touches' # 0
    BY <1>2 DEF Touch, RepeatInv
  <2> QED BY <2>1 DEF QuietInv
<1>3. CASE RequestFails
  <2>1. /\ place' = place /\ page' = page /\ results' = results /\ touches' = touches
        /\ report' = "failed"
    BY <1>3 DEF RequestFails
  <2> QED BY <2>1 DEF QuietInv, Passed, Page, Between, ReachedOlderWindow
<1>4. CASE UNCHANGED report_vars
  BY <1>4 DEF report_vars, QuietInv, Passed, Page, Between, ReachedOlderWindow
<1> QED BY <1>1, <1>2, <1>3, <1>4 DEF ReportNext

\* A page before an occupied place is not empty.
LEMMA NoEmptyPageBefore ==
    ASSUME ListInv, NEW p \in PullRequests, NEW n \in Nat \ {0}, place[p] > Skipped(n) + PerPage
    PROVE  Page(n) # {}
<1>1. Skipped(n) \in Nat
  BY SkippedIsNat
<1>2. place[p] \in Nat /\ Skipped(n) + 1 \in 1 .. place[p]
  BY <1>1, ReportNumbers DEF ListInv
<1>3. PICK q \in PullRequests : place[q] = Skipped(n) + 1
  BY <1>2 DEF ListInv
<1>4. Skipped(n) < place[q] /\ place[q] <= Skipped(n) + PerPage
  BY <1>1, <1>3, ReportNumbers
<1>5. q \in Page(n)
  BY <1>4, OnPage
<1> QED BY <1>5

\* On a quiet list, a pull request was read if no older page comes before its own.
LEMMA ReadUnlessBehindOlder ==
    ASSUME ListInv, RepeatInv, QuietInv, report = "made", touches = 0,
           NEW p \in PullRequests, place[p] > 0
    PROVE  PageOf(p) \in 1 .. page - 1 <=>
             /\ PageOf(p) <= MaxPages
             /\ \A q \in MergedBy({"before"}) : PageOf(q) >= PageOf(p)
<1> DEFINE k == PageOf(p)
           last == page - 1
<1>1. k \in Nat \ {0} /\ p \in Page(k)
  BY OnItsPage
<1>2. /\ last \in Nat \ {0} /\ last <= MaxPages
      /\ \A n \in 1 .. last - 1 : Passed(n)
      /\ last = MaxPages \/ ~Passed(last)
  BY DEF QuietInv, RepeatInv
<1>3. \A q \in MergedBy({"before"}) :
        q \in PullRequests /\ Merged[q] = "before" /\ place[q] > 0
        /\ PageOf(q) \in Nat \ {0} /\ q \in Page(PageOf(q))
  <2>1. \A q \in MergedBy({"before"}) : q \in PullRequests /\ Merged[q] = "before" /\ place[q] > 0
    BY DEF MergedBy, ListInv
  <2> QED BY <2>1, OnItsPage
<1> HIDE DEF k, last
<1>4. ASSUME k <= last, NEW q \in MergedBy({"before"}) PROVE PageOf(q) >= k
  <2> SUFFICES ASSUME PageOf(q) < k PROVE FALSE
    BY <1>1, <1>3
  <2>1. PageOf(q) \in 1 .. last - 1
    BY <1>1, <1>2, <1>3, <1>4
  <2>2. Passed(PageOf(q))
    BY <1>2, <2>1
  <2> QED BY <1>3, <2>2 DEF Passed, ReachedOlderWindow
<1>5. ASSUME k > last, last # MaxPages
      PROVE  \E q \in MergedBy({"before"}) : PageOf(q) < k
  <2>1. Page(last) # {}
    <3>1. Skipped(last) + PerPage <= Skipped(k) /\ Skipped(k) \in Nat /\ Skipped(last) \in Nat
      BY <1>1, <1>2, <1>5, SkippedGrows, SkippedIsNat
    <3>2. Skipped(k) < place[p] /\ place[p] \in Nat
      BY <1>1, OnPage DEF ListInv
    <3>3. place[p] > Skipped(last) + PerPage
      BY <3>1, <3>2, ReportNumbers
    <3> QED BY <1>2, <3>3, NoEmptyPageBefore
  <2>2. PICK q \in Page(last) : Merged[q] = "before"
    BY <1>2, <1>5, <2>1 DEF Passed, ReachedOlderWindow
  <2>3. q \in MergedBy({"before"})
    BY <2>2 DEF MergedBy, Page, Between
  <2>4. PageOf(q) = last
    BY <1>2, <1>3, <2>3, OnOnePage
  <2> QED BY <1>5, <2>3, <2>4
<1>6. k \in 1 .. last <=> k <= last
  BY <1>1, <1>2
<1>7. k \in 1 .. last <=> k <= MaxPages /\ \A q \in MergedBy({"before"}) : PageOf(q) >= k
  BY <1>1, <1>2, <1>3, <1>4, <1>5, <1>6, ReportNumbers
<1> QED BY <1>7 DEF k, last

\* What the report of a quiet list has of each pull request.
LEMMA CopiesOfQuietList ==
    ASSUME ListInv, RepeatInv, QuietInv, report = "made", touches = 0, NEW p \in PullRequests
    PROVE  Copies(p) = IF Reported(p) /\ PageOf(p) \in 1 .. page - 1 THEN 1 ELSE 0
<1> DEFINE pages == {n \in 1 .. MaxPages : <<p, n>> \in results}
<1>1. \A n : <<p, n>> \in results <=> n \in 1 .. page - 1 /\ Reported(p) /\ p \in Page(n)
  BY DEF QuietInv
<1>2. page - 1 \in Nat /\ page - 1 <= MaxPages
  BY DEF QuietInv, RepeatInv
<1>3. CASE Reported(p)
  <2>1. place[p] > 0
    BY <1>3 DEF Reported, ListInv, MergedBy
  <2>2. PageOf(p) \in Nat \ {0} /\ p \in Page(PageOf(p))
    BY <2>1, OnItsPage
  <2>3. \A n \in 1 .. page - 1 : p \in Page(n) <=> n = PageOf(p)
    BY <1>2, <2>2, OnOnePage
  <2>4. CASE PageOf(p) \in 1 .. page - 1
    <3>1. pages = {PageOf(p)}
      BY <1>1, <1>2, <1>3, <2>2, <2>3, <2>4, ReportNumbers
    <3>2. Cardinality({PageOf(p)}) = 1
      BY FS_Singleton
    <3> QED BY <1>3, <2>4, <3>1, <3>2 DEF Copies
  <2>5. CASE PageOf(p) \notin 1 .. page - 1
    <3>1. pages = {}
      BY <1>1, <2>3, <2>5
    <3> QED BY <2>5, <3>1, FS_EmptySet DEF Copies
  <2> QED BY <2>4, <2>5
<1>4. CASE ~Reported(p)
  <2>1. pages = {}
    BY <1>1, <1>4
  <2> QED BY <1>4, <2>1, FS_EmptySet DEF Copies
<1> QED BY <1>3, <1>4

(***************************************************************************)
(* If nobody touches a pull request while the report reads, it counts each *)
(* one of the week once, but those behind an older page and those past the *)
(* last page it may read.                                                  *)
(***************************************************************************)
THEOREM QuietReportComplete == ReportSpec => []MissingOnlyBehindOlder
<1>1. ListInv /\ RepeatInv /\ QuietInv => MissingOnlyBehindOlder
  <2> SUFFICES ASSUME ListInv, RepeatInv, QuietInv, report = "made", touches = 0,
                      NEW p \in PullRequests
               PROVE  Copies(p) = IF /\ Reported(p) /\ PageOf(p) <= MaxPages
                                     /\ \A q \in MergedBy({"before"}) : PageOf(q) >= PageOf(p)
                                  THEN 1 ELSE 0
    BY DEF MissingOnlyBehindOlder
  <2>1. Copies(p) = IF Reported(p) /\ PageOf(p) \in 1 .. page - 1 THEN 1 ELSE 0
    BY CopiesOfQuietList
  <2>2. Reported(p) => place[p] > 0
    BY DEF Reported, ListInv, MergedBy
  <2>3. Reported(p) => (PageOf(p) \in 1 .. page - 1 <=>
                          /\ PageOf(p) <= MaxPages
                          /\ \A q \in MergedBy({"before"}) : PageOf(q) >= PageOf(p))
    BY <2>2, ReadUnlessBehindOlder
  <2> QED BY <2>1, <2>3
<1> QED
  BY <1>1, ListInitial, ListStep, RepeatInitial, RepeatStep, QuietInitial, QuietStep, PTL DEF ReportSpec
=============================================================================
