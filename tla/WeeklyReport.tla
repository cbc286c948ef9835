----------------------------- MODULE WeeklyReport -----------------------------
(***************************************************************************)
(* fetch_merged_ai_prs of scripts/weekly_report.py: the closed pull        *)
(* requests are read page by page, last updated first, until a page shows  *)
(* one that was merged before the reported week.  GitHub (external) goes   *)
(* on while the pages are read: a pull request that somebody touches, or   *)
(* closes, moves to the front of the list.                                 *)
(***************************************************************************)
EXTENDS Integers, FiniteSets, Functions

CONSTANTS Merged,       \* [pull requests -> {"before", "within", "after", "never"}] the week
          AiGenerated,  \* those with the label
          PerPage,      \* 100
          MaxPages,     \* MAX_PULLS_PAGES
          MaxTouches    \* bound on the updates by others

VARIABLES place,    \* [PullRequests -> Nat]: in the list of the closed ones, last
                    \* updated first; 0 for an open one
          page,     \* the page to read next
          results,  \* {<<pull request, page it was read on>>}
          report,   \* "reading", "made" or "failed"
          touches   \* updates by others so far

report_vars == <<place, page, results, report, touches>>

PullRequests == DOMAIN Merged
MergedBy(times) == {p \in PullRequests : Merged[p] \in times}

ASSUME ReportAssumption ==
    /\ IsFiniteSet(PullRequests)
    /\ Merged \in [PullRequests -> {"before", "within", "after", "never"}]
    /\ PerPage \in Nat \ {0} /\ MaxPages \in Nat \ {0} /\ MaxTouches \in Nat

Reported(p) == Merged[p] = "within" /\ p \in AiGenerated

\* The list when the report begins: any order of updates; what is not merged, or
\* only after the week, may still be open.
ReportInit ==
    /\ \E open \in SUBSET MergedBy({"after", "never"}) :
         LET closed == PullRequests \ open
         IN \E order \in Bijection(closed, 1 .. Cardinality(closed)) :
                place = [p \in PullRequests |-> IF p \in open THEN 0 ELSE order[p]]
    /\ page = 1
    /\ results = {}
    /\ report = "reading"
    /\ touches = 0

Between(first, last) == {p \in PullRequests : first <= place[p] /\ place[p] <= last}

\* Variant: pages are counted from 0, which GitHub takes for the first.
PagesFromZero(n) ==
    LET asked == IF n <= 2 THEN 1 ELSE n - 1
    IN Between((asked - 1) * PerPage + 1, asked * PerPage)

\* Variant: the last pull request of each page is not asked for.
ShortPage(n) == Between((n - 1) * PerPage + 1, n * PerPage - 1)

Page(n) == Between((n - 1) * PerPage + 1, n * PerPage)

ReachedOlderWindow(pulls) == \E p \in pulls : Merged[p] = "before"

\* Variant: the rest of the page is not looked at after an older pull request.
UntilOlder(pulls) ==
    {p \in pulls : Reported(p) /\ \A q \in pulls : Merged[q] = "before" => place[p] < place[q]}

Selected(pulls) == {p \in pulls : Reported(p)}

ReadPage ==
    /\ report = "reading"
    /\ LET pulls == Page(page)
           last == pulls = {} \/ ReachedOlderWindow(pulls) \/ page = MaxPages
       IN /\ results' = results \cup (Selected(pulls) \X {page})
          /\ report' = IF last THEN "made" ELSE "reading"
          /\ page' = page + 1
    /\ UNCHANGED <<place, touches>>

\* GitHub answers with an error: no report is written.
RequestFails ==
    /\ report = "reading"
    /\ report' = "failed"
    /\ UNCHANGED <<place, page, results, touches>>

\* Somebody updates, or closes, a pull request: it is the first of the list.
Touch ==
    /\ report = "reading"
    /\ touches < MaxTouches
    /\ touches' = touches + 1
    /\ \E p \in PullRequests :
         LET pushed == {q \in PullRequests \ {p} : place[q] > 0 /\ (place[p] = 0 \/ place[q] < place[p])}
         IN place' = [q \in PullRequests |-> IF q = p THEN 1
                                             ELSE IF q \in pushed THEN place[q] + 1 ELSE place[q]]
    /\ UNCHANGED <<page, results, report>>

ReportNext == ReadPage \/ RequestFails \/ Touch

ReportSpec == ReportInit /\ [][ReportNext]_report_vars

-----------------------------------------------------------------------------
Seen == {entry[1] : entry \in results}
Copies(p) == Cardinality({n \in 1 .. MaxPages : <<p, n>> \in results})
PageOf(p) == (place[p] - 1) \div PerPage + 1

(***************************************************************************)
(* If nobody touches a pull request while the pages are read, the report   *)
(* has each one of the week once; one is missing only if it is on a later  *)
(* page than one merged before the week, and so updated less recently, or  *)
(* past the last page ever read.                                           *)
(***************************************************************************)
MissingOnlyBehindOlder ==
    report = "made" /\ touches = 0 =>
        \A p \in PullRequests :
            Copies(p) = IF /\ Reported(p) /\ PageOf(p) <= MaxPages
                           /\ \A q \in MergedBy({"before"}) : PageOf(q) >= PageOf(p)
                        THEN 1 ELSE 0

(***************************************************************************)
(* However others interfere, the report counts nothing that is not of the  *)
(* week, and each update by others makes it count at most one pull request *)
(* twice.                                                                  *)
(***************************************************************************)
OneRepeatPerTouch ==
    /\ \A entry \in results : Reported(entry[1])
    /\ Cardinality(results) - Cardinality(Seen) <= touches

(***************************************************************************)
(* What the pages read so far should have shown of the week and did not    *)
(* was moved to the front of the list before its page was read: each       *)
(* update by others hides at most one pull request.                        *)
(***************************************************************************)
OneHiddenPerTouch ==
    Cardinality({p \in Between(1, (page - 1) * PerPage) : Reported(p)} \ Seen) <= touches
=============================================================================
