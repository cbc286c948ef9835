---------------------------- MODULE MCAgentRunner ----------------------------
(* Small instances of AgentRunner for TLC. *)
EXTENDS AgentRunner, TLC

Healthy == [NoObservation EXCEPT !.pipeline = "known"]
Failing == [Healthy EXCEPT !.failure = TRUE]
Late == [Healthy EXCEPT !.last_success = "late"]
CriticalTag == [Healthy EXCEPT !.dq_status = "critical", !.rollback_required = TRUE]
CriticalException == [Healthy EXCEPT !.exception_ledger = "new_critical", !.dq_status = "minor"]
Malformed == [Failing EXCEPT !.dq_status = "malformed"]
MalformedRecords == [Failing EXCEPT !.bad_records = "malformed"]
Duplicate == [Failing EXCEPT !.fingerprint_duplicate = TRUE]
Unparsable == [Failing EXCEPT !.last_success = "unparsable"]

AllObservations == {Failing, Late, CriticalTag, CriticalException, Malformed, MalformedRecords,
                    Unparsable, Duplicate}
\* Plans within the contract of each version, and plans that break it in one way each.
Retry == [fields |-> {"action", "parameters"}, schema_version |-> "malformed",
          optional_typed |-> TRUE, action |-> "retry_pipeline", parameters_is_dict |-> TRUE,
          parameters |-> {"pipeline", "run_mode"}, texts |-> TRUE, date_valid |-> TRUE]
Skip == [Retry EXCEPT !.action = "skip_and_report", !.parameters = {"pipeline", "reason"}]
Backfill == [Retry EXCEPT !.fields = Required \cup {"caveats"}, !.schema_version = "v2_plus",
                          !.action = "backfill_silver", !.parameters = @ \cup {"date_kst"}]
ExtraParameter == [Retry EXCEPT !.parameters = @ \cup {"unexpected"}]
ExplicitV1 == [Backfill EXCEPT !.schema_version = "v1"]
BadCaveats == [Backfill EXCEPT !.optional_typed = FALSE]
ExtraField == [Backfill EXCEPT !.fields = @ \cup {"unexpected"}]
BadDate == [Backfill EXCEPT !.date_valid = FALSE]
NoAction == [Retry EXCEPT !.fields = {"parameters"}]

RetryOrSkip == {Retry, Skip}
AllPlans == {Retry, Skip, Backfill, ExtraParameter, ExplicitV1, BadCaveats, ExtraField, BadDate,
             NoAction}
AllStubs == {StubNodes}
NoStubs == {{}}
NoneOrAllStubs == AllStubs \cup NoStubs
WorkerSymmetry == Permutations(Workers)
=============================================================================
