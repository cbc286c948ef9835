------------------------------- MODULE MCParts -------------------------------
(***************************************************************************)
(* Small instances of the components that share nothing with any other,    *)
(* checked in one run: a behaviour is one of the component that "part"     *)
(* names, while the others rest.                                           *)
(***************************************************************************)
EXTENDS MCWatchdog, BadRecords, JobStatus, WeeklyReport, IncidentIdentity

VARIABLE part

-----------------------------------------------------------------------------
(* Bad records: texts in alphabetical order, "unknown" last. *)

Spaces == 0
UnknownText == 9
Mapping == [parsed |-> TRUE, text |-> Absent, field |-> 3, detail |-> 4, rule |-> 5, reason |-> Absent]
Record == [source_table |-> 2, record_json |-> 7, raw_reason |-> Mapping]

\* Reasons as a mapping, as its JSON text, as a plain text and as nothing; the rule
\* where the detail is missing or blank; another table; another content.
Records ==
    {[Record EXCEPT !.raw_reason = raw] :
        raw \in {Mapping, [Mapping EXCEPT !.detail = Absent],
                 [Mapping EXCEPT !.detail = Spaces, !.text = 6],
                 [Mapping EXCEPT !.parsed = FALSE, !.text = 6],
                 [Mapping EXCEPT !.parsed = FALSE, !.field = Absent],
                 [Mapping EXCEPT !.field = Spaces, !.detail = Spaces, !.rule = Absent, !.text = 6]}}
    \cup {[Record EXCEPT !.source_table = 1], [Record EXCEPT !.record_json = 8]}

SummaryRests == SummaryInit

-----------------------------------------------------------------------------
StatusRests ==
    /\ env = [key \in Keys |-> None]
    /\ scope = FALSE /\ life_cycle = "QUEUED" /\ request = None /\ job_status = None

-----------------------------------------------------------------------------
(* Pull requests of a week: one merged before it, three within, one after, one not. *)

Pulls == [p1 |-> "before", p2 |-> "within", p3 |-> "within", p4 |-> "within", p5 |-> "after",
          p6 |-> "never"]

Labelled == {"p1", "p2", "p3", "p5", "p6"}

ReportRests ==
    place = [p \in PullRequests |-> 0] /\ page = 1 /\ results = {} /\ report = "failed" /\ touches = 0

-----------------------------------------------------------------------------
(* Detections of two failures of a pipeline, in two runs and without one. *)

TwoFailures ==
    [pipeline : {"pipeline_b"}, run_id : {"run1", Null}, detected_at : {1, 2},
     detected_issues : {Null, <<>>, <<1>>, <<1, 2>>, <<2, 1>>, <<1, 1>>, <<1, 2, 1>>,
                        <<1, 1, 2>>, <<2, 1, 2>>}]

IdentityRests == DetectionInit

-----------------------------------------------------------------------------
WatchdogRests ==
    deployed = 0 /\ due = 0 /\ now = 0 /\ polled = Never /\ polled_on = [p \in Daily |-> Never]

PartsInit ==
    \/ /\ part = "watchdog"
       /\ Init /\ SummaryRests /\ StatusRests /\ ReportRests /\ IdentityRests
    \/ /\ part = "summary"
       /\ WatchdogRests /\ SummaryInit /\ StatusRests /\ ReportRests /\ IdentityRests
    \/ /\ part = "status"
       /\ WatchdogRests /\ SummaryRests /\ StatusInit /\ ReportRests /\ IdentityRests
    \/ /\ part = "weekly"
       /\ WatchdogRests /\ SummaryRests /\ StatusRests /\ ReportInit /\ IdentityRests
    \/ /\ part = "identity"
       /\ WatchdogRests /\ SummaryRests /\ StatusRests /\ ReportRests /\ DetectionInit

PartsNext ==
    /\ UNCHANGED part
    /\ \/ part = "watchdog" /\ Next /\ UNCHANGED <<summary_vars, status_vars, report_vars, detected>>
       \/ part = "summary" /\ SummaryNext /\ UNCHANGED <<vars, status_vars, report_vars, detected>>
       \/ part = "status" /\ StatusNext /\ UNCHANGED <<vars, summary_vars, report_vars, detected>>
       \/ part = "weekly" /\ ReportNext /\ UNCHANGED <<vars, summary_vars, status_vars, detected>>
       \/ part = "identity" /\ Detect /\ UNCHANGED <<vars, summary_vars, status_vars, report_vars>>

PartsSpec == PartsInit /\ [][PartsNext]_<<part, vars, summary_vars, status_vars, report_vars, detected>>
=============================================================================
